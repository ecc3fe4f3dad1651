----------------------------- MODULE ExitProofs -----------------------------
(* Proofs about the exit of a position, for every number of shares, of     *)
(* sells and of faults that may meet.                                      *)
EXTENDS ExitLifecycle, FiniteSetTheorems, WellFoundedInduction, TLAPS

LEMMA LeastIn ==
    ASSUME NEW R, \A k, m \in Nat : <<k, m>> \in R <=> k < m,
           NEW T, T \subseteq Nat, \E m \in T : \A k \in T : <<k, m>> \notin R
    PROVE  \E m \in T : \A k \in T : m <= k
<1>1. PICK m \in T : \A k \in T : ~(<<k, m>> \in R)
  OBVIOUS
<1>2. \A k \in T : ~(k < m)
  BY <1>1
<1> QED
  BY <1>2

LEMMA LeastElement ==
    ASSUME NEW T \in SUBSET Nat, T # {}
    PROVE  \E m \in T : \A k \in T : m <= k
<1> DEFINE R == OpToRel(<, Nat)
<1>1. \E m \in T : \A k \in T : <<k, m>> \notin R
  <2>1. IsWellFoundedOn(R, Nat)
    BY NatLessThanWellFounded
  <2> HIDE DEF R
  <2> QED
    BY <2>1, WFMin
<1>2. \A k, m \in Nat : <<k, m>> \in R <=> k < m
  BY DEF OpToRel
<1> HIDE DEF R
<1> QED
  BY <1>1, <1>2, LeastIn

LEMMA Induction ==
    ASSUME NEW S, 0 \in S, \A n \in Nat : n \in S => n + 1 \in S
    PROVE  Nat \subseteq S
<1> SUFFICES ASSUME Nat \ S # {} PROVE FALSE
  OBVIOUS
<1>1. PICK m \in Nat \ S : \A k \in Nat \ S : m <= k
  BY LeastElement
<1>2. m # 0 /\ m - 1 \in Nat /\ m - 1 \in S
  BY <1>1
<1> QED
  BY <1>1, <1>2

LEMMA Bounds == /\ MaxSells \in Nat /\ MaxSells >= 1 /\ Lot \in Nat /\ Lot >= 1
                /\ MinOrder \in Nat /\ MinOrder >= 1 /\ MinOrder <= Lot
                /\ None \notin Sells
  BY ExitAssumption DEF Sells

-----------------------------------------------------------------------------
(* Sums over the sells *)

\* The recursive definition of the partial sums has a solution.
LEMMA UpToIs ==
    ASSUME NEW f
    PROVE  UpTo(f) = [n \in 0..MaxSells |-> IF n = 0 THEN 0 ELSE UpTo(f)[n - 1] + f[n]]
<1> DEFINE Solves(g, n) == g = [m \in 0..n |-> IF m = 0 THEN 0 ELSE g[m - 1] + f[m]]
           S == {n \in Nat : \E g : Solves(g, n)}
<1>1. 0 \in S
  <2> DEFINE g == [m \in 0..0 |-> 0]
  <2>1. Solves(g, 0)
    OBVIOUS
  <2> QED
    BY <2>1
<1>2. \A n \in Nat : n \in S => n + 1 \in S
  <2> SUFFICES ASSUME NEW n \in Nat, n \in S PROVE \E g : Solves(g, n + 1)
    OBVIOUS
  <2>1. PICK g : Solves(g, n)
    OBVIOUS
  <2> DEFINE h == [m \in 0..(n + 1) |-> IF m = n + 1 THEN g[n] + f[m] ELSE g[m]]
  <2>2. ASSUME NEW m \in 0..(n + 1) PROVE h[m] = IF m = 0 THEN 0 ELSE h[m - 1] + f[m]
    BY <2>1
  <2>3. Solves(h, n + 1)
    BY <2>2
  <2> QED
    BY <2>3
<1>3. \E g : Solves(g, MaxSells)
  <2> HIDE DEF S
  <2>1. MaxSells \in S
    BY <1>1, <1>2, Induction, Bounds
  <2> QED
    BY <2>1 DEF S
<1> QED
  BY <1>3 DEF UpTo

LEMMA UpToStep ==
    ASSUME NEW f
    PROVE  /\ UpTo(f)[0] = 0
           /\ \A n \in Sells : UpTo(f)[n] = UpTo(f)[n - 1] + f[n]
<1> DEFINE u == UpTo(f)
<1>1. u = [n \in 0..MaxSells |-> IF n = 0 THEN 0 ELSE u[n - 1] + f[n]]
  BY UpToIs
<1> HIDE DEF u
<1>2. u[0] = 0 /\ \A n \in Sells : u[n] = u[n - 1] + f[n]
  BY <1>1, Bounds DEF Sells
<1> QED
  BY <1>2 DEF u

LEMMA UpToType ==
    ASSUME NEW f \in [Sells -> Nat]
    PROVE  \A n \in 0..MaxSells : UpTo(f)[n] \in Nat
<1> DEFINE u == UpTo(f)
           S == {n \in Nat : n <= MaxSells => u[n] \in Nat}
<1>1. u[0] = 0 /\ \A n \in Sells : u[n] = u[n - 1] + f[n]
  BY UpToStep
<1> HIDE DEF u
<1>2. 0 \in S
  BY <1>1
<1>3. \A n \in Nat : n \in S => n + 1 \in S
  <2> SUFFICES ASSUME NEW n \in Nat, u[n] \in Nat, n + 1 <= MaxSells PROVE u[n + 1] \in Nat
    BY Bounds
  <2>1. n + 1 \in Sells /\ (n + 1) - 1 = n
    BY Bounds DEF Sells
  <2>2. f[n + 1] \in Nat
    BY <2>1
  <2> QED
    BY <1>1, <2>1, <2>2
<1> HIDE DEF S
<1>4. Nat \subseteq S
  BY <1>2, <1>3, Induction
<1>5. \A n \in 0..MaxSells : u[n] \in Nat
  BY <1>4, Bounds DEF S
<1> QED
  BY <1>5 DEF u

LEMMA TotalType ==
    ASSUME NEW f \in [Sells -> Nat]
    PROVE  Total(f) \in Nat
  BY UpToType, Bounds DEF Total

\* What is greater for every sell is greater in all.
LEMMA TotalMonotonic ==
    ASSUME NEW f \in [Sells -> Nat], NEW g \in [Sells -> Nat],
           \A s \in Sells : f[s] <= g[s]
    PROVE  Total(f) <= Total(g)
<1> DEFINE u == UpTo(f)
           v == UpTo(g)
           S == {n \in Nat : n <= MaxSells => u[n] <= v[n]}
<1>1. /\ u[0] = 0 /\ \A n \in Sells : u[n] = u[n - 1] + f[n]
      /\ v[0] = 0 /\ \A n \in Sells : v[n] = v[n - 1] + g[n]
      /\ \A n \in 0..MaxSells : u[n] \in Nat /\ v[n] \in Nat
  BY UpToStep, UpToType
<1> HIDE DEF u, v
<1>2. 0 \in S
  BY <1>1
<1>3. \A n \in Nat : n \in S => n + 1 \in S
  <2> SUFFICES ASSUME NEW n \in Nat, u[n] <= v[n], n + 1 <= MaxSells PROVE u[n + 1] <= v[n + 1]
    BY Bounds
  <2>1. n + 1 \in Sells /\ (n + 1) - 1 = n /\ n \in 0..MaxSells
    BY Bounds DEF Sells
  <2>2. f[n + 1] \in Nat /\ g[n + 1] \in Nat /\ f[n + 1] <= g[n + 1]
    BY <2>1
  <2>3. u[n + 1] = u[n] + f[n + 1] /\ v[n + 1] = v[n] + g[n + 1]
    BY <1>1, <2>1
  <2>4. u[n] \in Nat /\ v[n] \in Nat
    BY <1>1, <2>1
  <2> QED
    BY <2>2, <2>3, <2>4
<1> HIDE DEF S
<1>4. Nat \subseteq S
  BY <1>2, <1>3, Induction
<1>5. u[MaxSells] <= v[MaxSells]
  BY <1>4, Bounds DEF S
<1> QED
  BY <1>5 DEF u, v, Total

\* Of two functions that differ for one sell only.
LEMMA TotalChange ==
    ASSUME NEW f \in [Sells -> Nat], NEW g \in [Sells -> Nat], NEW s \in Sells,
           \A o \in Sells : o # s => g[o] = f[o]
    PROVE  Total(g) = Total(f) - f[s] + g[s]
<1> DEFINE u == UpTo(f)
           v == UpTo(g)
           S == {n \in Nat : n <= MaxSells =>
                    v[n] = IF n < s THEN u[n] ELSE u[n] - f[s] + g[s]}
<1>1. /\ u[0] = 0 /\ \A n \in Sells : u[n] = u[n - 1] + f[n]
      /\ v[0] = 0 /\ \A n \in Sells : v[n] = v[n - 1] + g[n]
      /\ \A n \in 0..MaxSells : u[n] \in Nat /\ v[n] \in Nat
  BY UpToStep, UpToType
<1> HIDE DEF u, v
<1>a. s \in Nat /\ s >= 1 /\ s <= MaxSells /\ f[s] \in Nat /\ g[s] \in Nat
  BY Bounds DEF Sells
<1>2. 0 \in S
  BY <1>1, <1>a
<1>3. \A n \in Nat : n \in S => n + 1 \in S
  <2> SUFFICES ASSUME NEW n \in Nat, n + 1 <= MaxSells,
                      v[n] = IF n < s THEN u[n] ELSE u[n] - f[s] + g[s]
               PROVE  v[n + 1] = IF n + 1 < s THEN u[n + 1] ELSE u[n + 1] - f[s] + g[s]
    BY Bounds
  <2>1. n + 1 \in Sells /\ (n + 1) - 1 = n /\ n \in 0..MaxSells
    BY Bounds DEF Sells
  <2>2. f[n + 1] \in Nat /\ g[n + 1] \in Nat /\ (n + 1 # s => g[n + 1] = f[n + 1])
    BY <2>1
  <2>3. u[n + 1] = u[n] + f[n + 1] /\ v[n + 1] = v[n] + g[n + 1]
    BY <1>1, <2>1
  <2>4. u[n] \in Nat /\ v[n] \in Nat
    BY <1>1, <2>1
  <2>5. CASE n + 1 < s
    <3>1. n < s /\ n + 1 # s
      BY <2>5, <1>a
    <3> QED
      BY <3>1, <2>2, <2>3, <2>4, <2>5
  <2>6. CASE n + 1 = s
    BY <2>6, <2>2, <2>3, <2>4, <1>a
  <2>7. CASE s < n + 1
    <3>1. ~(n < s) /\ n + 1 # s /\ ~(n + 1 < s)
      BY <2>7, <1>a
    <3> QED
      BY <3>1, <2>2, <2>3, <2>4, <1>a
  <2> QED
    BY <2>5, <2>6, <2>7, <1>a
<1> HIDE DEF S
<1>4. Nat \subseteq S
  BY <1>2, <1>3, Induction
<1>5. v[MaxSells] = u[MaxSells] - f[s] + g[s]
  BY <1>4, <1>a, Bounds DEF S
<1> QED
  BY <1>5 DEF u, v, Total

LEMMA TotalZero ==
    ASSUME NEW f \in [Sells -> Nat], \A s \in Sells : f[s] = 0
    PROVE  Total(f) = 0
<1> DEFINE u == UpTo(f)
           S == {n \in Nat : n <= MaxSells => u[n] = 0}
<1>1. u[0] = 0 /\ \A n \in Sells : u[n] = u[n - 1] + f[n]
  BY UpToStep
<1> HIDE DEF u
<1>2. 0 \in S
  BY <1>1
<1>3. \A n \in Nat : n \in S => n + 1 \in S
  <2> SUFFICES ASSUME NEW n \in Nat, u[n] = 0, n + 1 <= MaxSells PROVE u[n + 1] = 0
    BY Bounds
  <2>1. n + 1 \in Sells /\ (n + 1) - 1 = n
    BY Bounds DEF Sells
  <2> QED
    BY <1>1, <2>1
<1> HIDE DEF S
<1>4. Nat \subseteq S
  BY <1>2, <1>3, Induction
<1>5. u[MaxSells] = 0
  BY <1>4, Bounds DEF S
<1> QED
  BY <1>5 DEF u, Total

-----------------------------------------------------------------------------
(* The invariant, in named parts *)

States == {"none"} \cup Final \cup Pending
Phases == {"idle", "loaded", "clearing", "reloading", "exiting", "posting", "posted",
           "cancelling", "settling", "reconciling", "settled", "unsettled", "cleared"}
Working == {"loaded", "reloading", "exiting", "cancelling", "settling", "reconciling", "settled"}
Selling == {"posting", "posted"}
Cancelling == {"cancelling", "settling", "reconciling", "settled"}

Sellers == [pc : Phases, kind : {"stop", "tp", "resume", "emergency"},
            copy : Position \cup {None}, waiting : BOOLEAN, sell : Sells \cup {None}]
Runs == [pc : {"idle", "orders", "positions", "intents"}, open : SUBSET Sells,
         trades : [Sells -> 0..Lot], feed : 0..Lot, todo : SUBSET Sells,
         listed : [Sells -> Intent], matched : BOOLEAN, gaps : BOOLEAN, serves : BOOLEAN]

Types ==
    /\ position \in Position /\ intent \in [Sells -> Intent] /\ venue \in [Sells -> VenueOrder]
    /\ seller \in Sellers /\ run \in Runs
    /\ hot \in {"nothing", "latched", "unlatched"} /\ faults \in FaultSets

\* What the rows say of a sell was so at the venue: its shares were sold and
\* shown, an order it knows arrived, one that never left has no order.
SellOK(s) ==
    /\ intent[s].state = "none" => /\ ~intent[s].known /\ intent[s].fills = 0
                                   /\ venue[s].at = "none"
    /\ intent[s].state # "none" => intent[s].asked >= 1
    /\ intent[s].filled <= intent[s].fills /\ intent[s].fills <= venue[s].shown
    /\ venue[s].shown <= venue[s].filled /\ run.trades[s] <= venue[s].shown
    /\ intent[s].fills > 0 => intent[s].known
    /\ intent[s].known => venue[s].at \notin {"none", "sent"}
    /\ intent[s].state = "WAITING_SELLABLE" => venue[s].at = "none"
    /\ run.listed[s].known => intent[s].known
    /\ s \in run.todo => run.listed[s].filled = intent[s].filled
    /\ venue[s].at \in {"none", "sent", "dead"} => venue[s].filled = 0
    /\ venue[s].at = "open" => /\ venue[s].filled < intent[s].asked
                               /\ IsTp(s) \/ venue[s].filled = 0
    /\ "late_trades" \notin faults => venue[s].shown = venue[s].filled
IntentsOK == \A s \in Sells : SellOK(s)

\* No share is booked before it is sold, none is offered twice, and nothing is
\* left only when something was sold.
FilledRows(i) == [s \in Sells |-> i[s].filled]
Ledger(p, i) == p.booked <= Total(FilledRows(i)) /\ (p.remaining = 0 => p.booked > 0)
Sums == Ledger(position, intent) /\ SoldAtVenue + Offered <= Lot

\* The links point to sells of their kind, and only the coroutine that holds
\* the lock sets them.
LinkOK(p, i) ==
    /\ p.tp # None => i[p.tp].purpose = "TAKE_PROFIT" /\ i[p.tp].state # "none"
    /\ p.active # None => i[p.active].purpose # "TAKE_PROFIT" /\ i[p.active].state # "none"
WorkOK ==
    /\ Unused # {} /\ LinkOK(seller.copy, intent)
    /\ position.tp \in {seller.copy.tp, None}
    /\ position.active \in {seller.copy.active, None}
SellingOK ==
    LET s == seller.sell IN
    /\ s \in Sells
    /\ intent[s].state \in {"RESERVED", "SUBMITTING"} /\ ~intent[s].known
    /\ seller.pc = "posting" => venue[s].at = "none"
    /\ seller.pc = "posted" => venue[s].at \in {"sent", "open", "matched", "dead"}
    /\ IsTp(s) => position.tp \in {s, None}
    /\ ~IsTp(s) => position.tp = None /\ position.active \in {s, None}
CancellingOK ==
    /\ seller.sell \in Sells /\ seller.sell = Standing /\ intent[seller.sell].known
    /\ seller.pc # "cancelling" => position[Linked] = None
SellerOK ==
    /\ LinkOK(position, intent)
    /\ seller.pc # "idle" => /\ seller.copy \in Position
                             /\ seller.copy.latched => position.latched
    /\ seller.pc = "loaded" => seller.copy.remaining >= MinOrder
    /\ seller.pc \in Working => WorkOK
    /\ seller.pc \in Selling => SellingOK
    /\ seller.pc \in Cancelling => CancellingOK

\* The observation of an exit without an answer is about one exit, whose order
\* has arrived; the run that makes the second one began after the first.
Unknown(s) == intent[s].state = "RECONCILIATION_REQUIRED" /\ ~intent[s].known /\ ~IsTp(s)
ListedUnknown(s) == run.listed[s].state = "RECONCILIATION_REQUIRED" /\ ~run.listed[s].known
Observed(s) ==
    /\ Unknown(s) /\ zero # None /\ s \notin run.open
    /\ run.pc \in {"orders", "positions"} \/ s \in run.todo
ZeroOK ==
    /\ \A s \in Sells : Unknown(s) => "lost_reply" \in faults /\ venue[s].at # "none"
    /\ \A s, o \in Sells : Unknown(s) /\ Unknown(o) => s = o
    /\ seller.pc \in Selling /\ ~IsTp(seller.sell) => \A o \in Sells : ~Unknown(o)
    /\ zero # None => \E s \in Sells : Unknown(s) /\ venue[s].at \notin {"none", "sent"}
    /\ \A s \in run.todo :
        /\ run.pc = "intents" /\ intent[s].state # "none"
        /\ ListedUnknown(s) /\ ~IsTp(s) => Unknown(s)
    /\ \A s \in Sells : Observed(s) =>
        /\ venue[s].at # "open"
        /\ "late_trades" \notin faults /\ run.trades[s] = 0 => venue[s].filled = 0

\* An exit that may be filled is pending in the rows, so no other is reserved;
\* it has latched the stop, so no take-profit is.
ExitAtVenue(o) == o \in AtVenue /\ ~IsTp(o)
NoExitAtVenue == \A o \in Sells : ~ExitAtVenue(o)
OneSell ==
    /\ \A o \in Sells : ExitAtVenue(o) => IsPending(o)
    /\ seller.pc = "posting" /\ ~IsTp(seller.sell) => NoExitAtVenue
    /\ "crash" \notin faults =>
        /\ \A o \in Sells : ExitAtVenue(o) =>
                \/ seller.pc = "posted" /\ seller.sell = o
                \/ position.latched \/ position.remaining = 0
        /\ seller.pc \in Working /\ ~seller.copy.latched => NoExitAtVenue
        /\ seller.pc = "posting" /\ IsTp(seller.sell) => NoExitAtVenue

\* The position keeps its link to a take-profit that may be filled, unless the
\* rows call the rest dust or nothing, a cancellation's answer was lost, or the
\* take-profit came after one that was cancelled.
Kept(s) ==
    \/ position.tp = s \/ Cut(position) \/ "lost_cancel" \in faults
    \/ \E o \in Sells : o # s /\ IsTp(o) /\ venue[o].at = "canceled"
LinksAreKept == \A s \in AtVenue : IsTp(s) => Kept(s)
LinksOK ==
    /\ LinksAreKept
    /\ seller.pc \in Selling /\ IsTp(seller.sell) => Kept(seller.sell)

Finals ==
    \A s \in Sells :
        /\ intent[s].state \in {"CANCELED", "FAILED", "ZERO_FILL"} => s \notin AtVenue
        /\ intent[s].state = "ZERO_FILL" /\ ~({"lost_reply", "late_trades"} \subseteq faults)
              => venue[s].filled = 0

IInv == /\ Types /\ IntentsOK /\ Sums /\ SellerOK /\ ZeroOK /\ OneSell /\ LinksOK /\ Finals

-----------------------------------------------------------------------------
(* What the repository's methods make of a row *)

\* p became q; the counts are the same, the stop stays latched, no link is set
Kindred(p, q) ==
    /\ q \in Position
    /\ q.booked = p.booked /\ q.remaining = p.remaining
    /\ p.latched => q.latched
    /\ q.tp \in {p.tp, None} /\ q.active \in {p.active, None}

LEMMA LatchStopIs ==
    ASSUME NEW p \in Position
    PROVE  Kindred(p, LatchStop(p)) /\ LatchStop(p).tp = p.tp
  BY DEF LatchStop, Kindred, Position, ERR, Actionable

LEMMA RequireIs ==
    ASSUME NEW p \in Position
    PROVE  /\ Kindred(p, RequireReconciliation(p))
           /\ RequireReconciliation(p).tp = p.tp
           /\ RequireReconciliation(p).latched \/ p.remaining = 0
  BY DEF RequireReconciliation, Kindred, Position, ERR, Actionable

LEMMA ClearIs ==
    ASSUME NEW p \in Position
    PROVE  Kindred(p, ClearReconciliation(p)) /\ ClearReconciliation(p).tp = p.tp
  BY DEF ClearReconciliation, Kindred, Position, ERR, Actionable

LEMMA WaitingIs ==
    ASSUME NEW p \in Position, NEW s
    PROVE  Kindred(p, WaitingSellable(p, s)) /\ WaitingSellable(p, s).tp = p.tp
<1> DEFINE st == IF IsTp(s) THEN "TP_OPEN" ELSE "EXITING"
<1>1. WaitingSellable(p, s) = [p EXCEPT !.sellable = 0, !.state = st]
  BY DEF WaitingSellable
<1>2. st \in {"TP_OPEN", "EXITING"} /\ 0 \in 0..Lot
  BY Bounds
<1> HIDE DEF st
<1>3. /\ [p EXCEPT !.sellable = 0, !.state = st] \in Position
      /\ Kindred(p, [p EXCEPT !.sellable = 0, !.state = st])
      /\ [p EXCEPT !.sellable = 0, !.state = st].tp = p.tp
  BY <1>2 DEF Kindred, Position, Actionable
<1> QED
  BY <1>1, <1>3

LEMMA UnlinkIs ==
    ASSUME NEW p \in Position, NEW s \in Sells
    PROVE  /\ Kindred(p, Unlink(p, s))
           /\ Unlink(p, s).tp # p.tp => IsTp(s) /\ p.tp = s
  BY DEF Unlink, LinkOf, Kindred, Position

LEMMA AfterFailureIs ==
    ASSUME NEW p \in Position, NEW s \in Sells
    PROVE  /\ Kindred(p, AfterFailure(p, s))
           /\ AfterFailure(p, s).tp # p.tp => IsTp(s) /\ p.tp = s
  BY ZenonT(60) DEF AfterFailure, Unlink, LinkOf, Kindred, Position, Actionable

LEMMA AfterCancelIs ==
    ASSUME NEW p \in Position, NEW s \in Sells, NEW success \in BOOLEAN
    PROVE  /\ Kindred(p, AfterCancel(p, s, success))
           /\ IF IsTp(s) THEN /\ AfterCancel(p, s, success).tp = None
                              /\ AfterCancel(p, s, success).active = p.active
              ELSE /\ AfterCancel(p, s, success).active = None
                   /\ AfterCancel(p, s, success).tp = p.tp
  BY DEF AfterCancel, LinkOf, Kindred, Position, Actionable, ERR

LEMMA ReservedIs ==
    ASSUME NEW p \in Position, NEW s \in Sells, NEW tp \in BOOLEAN
    PROVE  LET q == Reserved(p, s, tp)
           IN  /\ q \in Position
               /\ q.booked = p.booked /\ q.remaining = p.remaining /\ q.latched = p.latched
               /\ IF tp THEN q.tp = s /\ q.active = p.active
                  ELSE q.active = s /\ q.tp = p.tp
  BY DEF Reserved, Position, Actionable

LEMMA CorrectedIs ==
    ASSUME NEW p \in Position, NEW shares \in 0..Lot
    PROVE  LET q == Corrected(p, shares)
           IN  /\ q \in Position /\ q.remaining = shares
               /\ q.booked = p.booked /\ q.latched = p.latched
               /\ q.tp = p.tp /\ q.active = p.active
  BY DEF Corrected, Position, Actionable

\* What booking a fill makes of a position: links and dust
Booked(p, q) ==
    /\ q \in Position
    /\ p.booked <= q.booked
    /\ p.latched => q.latched
    /\ q.tp \in {p.tp, None} /\ q.active \in {p.active, None}
    /\ q.tp # p.tp => Cut(q)
    /\ Cut(p) => Cut(q)
    /\ p.remaining = 0 => q.remaining = 0

LEMMA AfterFillIs ==
    ASSUME NEW p \in Position, NEW i \in [Sells -> Intent], NEW s \in Sells,
           NEW filled \in 0..Lot, NEW final,
           p.remaining = 0 => p.booked > 0,
           filled > i[s].filled, p.booked + (filled - i[s].filled) <= Lot
    PROVE  LET q == AfterFill(p, i, s, filled, final)
           IN  /\ Booked(p, q)
               /\ q.booked <= p.booked + (filled - i[s].filled)
               /\ q.remaining = 0 => q.booked > 0
<1> DEFINE new == NewlyFilled(i[s], filled)
           before == Before(p, i)
           sold == IF new < before THEN new ELSE before
           left == before - sold
           q == AfterFill(p, i, s, filled, final)
<1>1. new = filled - i[s].filled /\ new \in 1..Lot /\ p.booked + new <= Lot
  BY Bounds DEF Intent, NewlyFilled
<1>2. /\ before \in 0..Lot /\ (p.booked > 0 => before = p.remaining)
      /\ before = 0 => p.booked > 0 /\ p.remaining = 0
      /\ p.remaining = 0 => before = 0
  BY Bounds DEF Before, Position
<1>3. sold \in 0..new /\ left \in 0..before /\ (sold > 0 \/ before = 0) /\ (left = 0 => sold = before)
  <2> HIDE DEF new, before
  <2> QED
    BY <1>1, <1>2
<1>4. /\ q.remaining = left /\ q.booked = p.booked + sold
      /\ p.latched => q.latched
      /\ q.tp = IF left < MinOrder THEN None ELSE p.tp
      /\ q.active \in {p.active, None}
      /\ q \in Position
  <2>2. p.booked + sold \in 0..Lot
    <3> HIDE DEF new, before, sold
    <3> QED
      BY <1>1, <1>3, Bounds DEF Position
  <2>3. left \in 0..Lot
    BY <1>2, <1>3, Bounds
  <2> DEFINE over == left < MinOrder
             sellable == IF over THEN 0 ELSE left
             latched == p.latched \/ ~IsTp(s)
             state == CASE left = 0 -> "CLOSED"
                        [] left > 0 /\ over -> "DUST"
                        [] ~over /\ IsTp(s) -> "TP_OPEN"
                        [] ~over /\ intent[s].purpose = "STOP_066" -> "EXITING"
                        [] OTHER -> "OPEN"
             active == IF over \/ ~(final = "PARTIAL" /\ IsTp(s)) THEN None ELSE p.active
             tp == IF over THEN None ELSE p.tp
  <2>4. q = [p EXCEPT !.remaining = left, !.sellable = sellable, !.booked = p.booked + sold,
                      !.latched = latched, !.state = state, !.active = active, !.tp = tp]
    BY DEF AfterFill
  <2>5. /\ sellable \in 0..Lot /\ latched \in BOOLEAN /\ (p.latched => latched)
        /\ active \in {p.active, None} /\ tp \in {p.tp, None}
        /\ tp = IF left < MinOrder THEN None ELSE p.tp
    BY <2>3, Bounds DEF IsTp, Position
  <2>6. state \in {"CLOSED", "DUST", "TP_OPEN", "EXITING", "OPEN"}
    OBVIOUS
  <2> HIDE DEF over, new, before, q, left, sold, sellable, latched, state, active, tp
  <2>7. /\ q.remaining = left /\ q.booked = p.booked + sold /\ q.latched = latched
        /\ q.active = active /\ q.tp = tp
    BY <2>4 DEF Position
  <2>8. q \in Position
    <3> DEFINE bk == p.booked + sold
    <3>1. bk \in 0..Lot /\ active \in Sells \cup {None} /\ tp \in Sells \cup {None}
      BY <2>2, <2>5 DEF Position
    <3>2. state \in Actionable \cup {"DUST", "CLOSED"}
      BY <2>6 DEF Actionable
    <3> HIDE DEF bk
    <3>3. q = [p EXCEPT !.remaining = left, !.sellable = sellable, !.booked = bk,
                      !.latched = latched, !.state = state, !.active = active, !.tp = tp]
      BY <2>4 DEF bk
    <3> QED
      BY <3>1, <3>2, <3>3, <2>3, <2>5, ZenonT(60) DEF Position
  <2> QED
    BY <2>5, <2>7, <2>8
<1> HIDE DEF new, before, sold, left, q
<1>5. q.booked > 0
  BY <1>1, <1>2, <1>3, <1>4, Bounds DEF Position
<1>6. Cut(p) => Cut(q)
  BY <1>1, <1>2, <1>3, <1>4, <1>5, Bounds DEF Position, Cut
<1>7. q.tp # p.tp => Cut(q)
  BY <1>4, <1>5 DEF Cut
<1>8. p.remaining = 0 => q.remaining = 0
  BY <1>2, <1>3, <1>4
<1>9. Booked(p, q)
  BY <1>1, <1>3, <1>4, <1>6, <1>7, <1>8, Bounds DEF Booked, Position
<1> QED
  BY <1>1, <1>3, <1>4, <1>5, <1>9, Bounds DEF q, new, Position

-----------------------------------------------------------------------------
(* What was sold, offered and booked *)

LEMMA SumTypes ==
    ASSUME Types, IntentsOK
    PROVE  /\ [s \in Sells |-> venue[s].filled] \in [Sells -> Nat]
           /\ [s \in Sells |-> IF IsOpen(s) THEN intent[s].asked - venue[s].filled ELSE 0]
                 \in [Sells -> Nat]
           /\ FilledRows(intent) \in [Sells -> Nat]
           /\ SoldAtVenue \in Nat /\ Offered \in Nat
           /\ Total(FilledRows(intent)) \in Nat /\ Total(FilledRows(intent)) <= SoldAtVenue
<1> DEFINE f == [s \in Sells |-> venue[s].filled]
           g == [s \in Sells |-> IF IsOpen(s) THEN intent[s].asked - venue[s].filled ELSE 0]
           h == [s \in Sells |-> intent[s].filled]
<1>1. ASSUME NEW s \in Sells
      PROVE  /\ venue[s].filled \in Nat /\ intent[s].filled \in Nat
             /\ IsOpen(s) => intent[s].asked - venue[s].filled \in Nat
             /\ intent[s].filled <= venue[s].filled
  <2>1. /\ venue[s].filled \in 0..Lot /\ venue[s].shown \in 0..Lot /\ intent[s].filled \in 0..Lot
        /\ intent[s].fills \in 0..Lot /\ intent[s].asked \in 0..Lot
    BY DEF Types, VenueOrder, Intent
  <2> QED
    BY <2>1, Bounds DEF IntentsOK, SellOK, IsOpen
<1>2. f \in [Sells -> Nat] /\ g \in [Sells -> Nat] /\ h \in [Sells -> Nat]
  BY <1>1
<1>3. \A s \in Sells : h[s] <= f[s]
  BY <1>1
<1>4. SoldAtVenue = Total(f) /\ Offered = Total(g) /\ FilledRows(intent) = h
  BY DEF SoldAtVenue, Offered, FilledRows
<1> HIDE DEF f, g, h
<1>5. Total(f) \in Nat /\ Total(g) \in Nat /\ Total(h) \in Nat /\ Total(h) <= Total(f)
  BY <1>2, <1>3, TotalType, TotalMonotonic
<1> QED
  BY <1>2, <1>4, <1>5 DEF f, g

LEMMA OwnedType ==
    ASSUME Types, IntentsOK, Sums
    PROVE  Owned \in 0..Lot
  BY SumTypes, Bounds DEF Sums, Owned

\* Steps that leave the counts alone leave the sums alone.
Calm ==
    /\ venue' = venue
    /\ \A o \in Sells : intent'[o].filled = intent[o].filled
    /\ \A o \in Sells : IsOpen(o) => intent'[o].asked = intent[o].asked
    /\ position'.booked = position.booked /\ position'.remaining = position.remaining

LEMMA CalmKeepsSums ==
    ASSUME Sums, Calm
    PROVE  Sums'
<1>1. FilledRows(intent)' = FilledRows(intent)
  BY DEF Calm, FilledRows
<1>2. SoldAtVenue' = SoldAtVenue
  BY DEF Calm, SoldAtVenue
<1>3. Offered' = Offered
  <2>1. \A s \in Sells : (IF IsOpen(s) THEN intent[s].asked - venue[s].filled ELSE 0)'
                          = IF IsOpen(s) THEN intent[s].asked - venue[s].filled ELSE 0
    BY DEF Calm, IsOpen
  <2> QED
    BY <2>1 DEF Offered
<1> QED
  BY <1>1, <1>2, <1>3 DEF Sums, Ledger, Calm

\* Booking what one more sell filled keeps the ledger.
LEMMA LedgerFilled ==
    ASSUME NEW p \in Position, NEW i \in [Sells -> Intent], Ledger(p, i),
           NEW s \in Sells, NEW filled \in 0..Lot, filled > i[s].filled,
           NEW j \in [Sells -> Intent], j[s].filled = filled,
           \A o \in Sells : o # s => j[o].filled = i[o].filled,
           Total(FilledRows(j)) <= Lot, NEW final
    PROVE  LET q == AfterFill(p, i, s, filled, final)
           IN  Booked(p, q) /\ Ledger(q, j)
<1> DEFINE f == [o \in Sells |-> i[o].filled]
           g == [o \in Sells |-> j[o].filled]
           q == AfterFill(p, i, s, filled, final)
<1>1. f \in [Sells -> Nat] /\ g \in [Sells -> Nat]
  BY Bounds DEF Intent
<1>2. f[s] = i[s].filled /\ g[s] = filled /\ \A o \in Sells : o # s => g[o] = f[o]
  OBVIOUS
<1>3. Total(g) = Total(f) - f[s] + g[s] /\ Total(f) \in Nat /\ Total(g) \in Nat
  <2> HIDE DEF f, g
  <2> QED
    BY <1>1, <1>2, TotalChange, TotalType
<1>4. FilledRows(i) = f /\ FilledRows(j) = g
  BY DEF FilledRows
<1> HIDE DEF f, g
<1>5. p.booked + (filled - i[s].filled) <= Total(g) /\ p.booked \in Nat
  BY <1>1, <1>2, <1>3, <1>4, Bounds DEF Ledger, Position
<1>6. p.booked + (filled - i[s].filled) <= Lot
  <2>1. i[s].filled \in Nat
    BY Bounds DEF Intent
  <2> QED
    BY <1>3, <1>4, <1>5, <2>1, Bounds
<1>7. /\ Booked(p, q)
      /\ q.booked <= p.booked + (filled - i[s].filled)
      /\ q.remaining = 0 => q.booked > 0
  BY <1>6, AfterFillIs DEF Ledger
<1>8. q.booked \in Nat
  BY <1>7, Bounds DEF Booked, Position
<1> HIDE DEF q
<1>9. q.booked <= Total(g)
  <2>1. i[s].filled \in Nat
    BY Bounds DEF Intent
  <2> QED
    BY <1>3, <1>5, <1>7, <1>8, <2>1, Bounds
<1>10. Ledger(q, j)
  BY <1>4, <1>7, <1>9 DEF Ledger
<1> QED
  BY <1>7, <1>10 DEF q

LEMMA FilledFits ==
    ASSUME Types, IntentsOK, Sums, NEW j \in [Sells -> Intent],
           \A s \in Sells : j[s].filled <= venue[s].filled
    PROVE  Total(FilledRows(j)) <= Lot
<1> DEFINE f == [s \in Sells |-> venue[s].filled]
           g == [s \in Sells |-> j[s].filled]
<1>1. f \in [Sells -> Nat] /\ g \in [Sells -> Nat] /\ \A s \in Sells : g[s] <= f[s]
  BY SumTypes, Bounds DEF Intent
<1>2. FilledRows(j) = g /\ SoldAtVenue = Total(f)
  BY DEF FilledRows, SoldAtVenue
<1> HIDE DEF f, g
<1>3. Total(g) <= Total(f) /\ Total(g) \in Nat /\ Total(f) \in Nat
  BY <1>1, TotalMonotonic, TotalType
<1> QED
  BY <1>2, <1>3, SumTypes, Bounds DEF Sums

-----------------------------------------------------------------------------
(* The makers' fills, booked sell by sell *)

LEMMA BookedSelf ==
    ASSUME NEW p \in Position
    PROVE  Booked(p, p)
  BY Bounds DEF Booked, Position

LEMMA BookedTwice ==
    ASSUME NEW p \in Position, NEW q, NEW r, Booked(p, q), Booked(q, r)
    PROVE  Booked(p, r)
  BY Bounds DEF Booked, Position

LEMMA MakersBookedIs ==
    MakersBooked =
        [n \in 0..MaxSells |->
            IF n = 0 THEN [position |-> position, intent |-> WithFills]
            ELSE IF n \in Drifted(WithFills) THEN BookMaker(n, MakersBooked[n - 1])
            ELSE MakersBooked[n - 1]]
<1> DEFINE Solves(g, n) ==
               g = [m \in 0..n |->
                       IF m = 0 THEN [position |-> position, intent |-> WithFills]
                       ELSE IF m \in Drifted(WithFills) THEN BookMaker(m, g[m - 1])
                       ELSE g[m - 1]]
           S == {n \in Nat : \E g : Solves(g, n)}
<1>1. 0 \in S
  <2> DEFINE g == [m \in 0..0 |-> [position |-> position, intent |-> WithFills]]
  <2>1. Solves(g, 0)
    OBVIOUS
  <2> QED
    BY <2>1
<1>2. \A n \in Nat : n \in S => n + 1 \in S
  <2> SUFFICES ASSUME NEW n \in Nat, n \in S PROVE \E g : Solves(g, n + 1)
    OBVIOUS
  <2>1. PICK g : Solves(g, n)
    OBVIOUS
  <2> DEFINE h == [m \in 0..(n + 1) |->
                      IF m = n + 1
                      THEN IF m \in Drifted(WithFills) THEN BookMaker(m, g[n]) ELSE g[n]
                      ELSE g[m]]
  <2>2. ASSUME NEW m \in 0..(n + 1)
        PROVE  h[m] = IF m = 0 THEN [position |-> position, intent |-> WithFills]
                      ELSE IF m \in Drifted(WithFills) THEN BookMaker(m, h[m - 1])
                      ELSE h[m - 1]
    <3>1. CASE m = n + 1
      <4>1. h[n] = g[n] /\ m # 0 /\ m - 1 = n
        BY <3>1
      <4> QED
        BY <3>1, <4>1
    <3>2. CASE m # n + 1
      <4>1. m \in 0..n /\ h[m] = g[m] /\ (m # 0 => h[m - 1] = g[m - 1])
        BY <3>2
      <4>2. g[m] = IF m = 0 THEN [position |-> position, intent |-> WithFills]
                   ELSE IF m \in Drifted(WithFills) THEN BookMaker(m, g[m - 1])
                   ELSE g[m - 1]
        BY <2>1, <4>1
      <4> QED
        BY <4>1, <4>2
    <3> QED
      BY <3>1, <3>2
  <2>3. Solves(h, n + 1)
    BY <2>2
  <2> QED
    BY <2>3
<1>3. \E g : Solves(g, MaxSells)
  <2> HIDE DEF S
  <2>1. MaxSells \in S
    BY <1>1, <1>2, Induction, Bounds
  <2> QED
    BY <2>1 DEF S
<1> QED
  BY <1>3 DEF MakersBooked

LEMMA MakersBookedStep ==
    /\ MakersBooked[0] = [position |-> position, intent |-> WithFills]
    /\ \A n \in Sells : MakersBooked[n] =
            IF n \in Drifted(WithFills) THEN BookMaker(n, MakersBooked[n - 1])
            ELSE MakersBooked[n - 1]
<1> DEFINE b == MakersBooked
<1>1. b = [n \in 0..MaxSells |->
              IF n = 0 THEN [position |-> position, intent |-> WithFills]
              ELSE IF n \in Drifted(WithFills) THEN BookMaker(n, b[n - 1]) ELSE b[n - 1]]
  BY MakersBookedIs
<1> HIDE DEF b
<1>2. b[0] = [position |-> position, intent |-> WithFills]
  BY <1>1, Bounds
<1>3. ASSUME NEW n \in Sells
      PROVE  b[n] = IF n \in Drifted(WithFills) THEN BookMaker(n, b[n - 1]) ELSE b[n - 1]
  BY <1>1, Bounds DEF Sells
<1> QED
  BY <1>2, <1>3 DEF b

LEMMA WithFillsIs ==
    ASSUME Types, IntentsOK
    PROVE  /\ WithFills \in [Sells -> Intent]
           /\ \A s \in Sells :
                /\ WithFills[s].state = intent[s].state
                /\ WithFills[s].purpose = intent[s].purpose
                /\ WithFills[s].known = intent[s].known /\ WithFills[s].asked = intent[s].asked
                /\ WithFills[s].filled = intent[s].filled
                /\ WithFills[s].fills >= intent[s].fills
                /\ WithFills[s].fills <= venue[s].shown
                /\ WithFills[s].fills # intent[s].fills => intent[s].known
<1>1. ASSUME NEW s \in Sells
      PROVE  LET w == IF intent[s].known
                      THEN [intent[s] EXCEPT !.fills = Greater(@, run.trades[s])] ELSE intent[s]
             IN  /\ w \in Intent
                 /\ w.state = intent[s].state /\ w.purpose = intent[s].purpose
                 /\ w.known = intent[s].known /\ w.asked = intent[s].asked
                 /\ w.filled = intent[s].filled
                 /\ w.fills >= intent[s].fills /\ w.fills <= venue[s].shown
                 /\ w.fills # intent[s].fills => intent[s].known
  <2>1. intent[s] \in Intent /\ run.trades[s] \in 0..Lot /\ venue[s].shown \in 0..Lot
    BY DEF Types, Runs, VenueOrder
  <2>2. intent[s].fills <= venue[s].shown /\ run.trades[s] <= venue[s].shown
    BY DEF IntentsOK, SellOK
  <2> QED
    BY <2>1, <2>2, Bounds DEF Greater, Intent
<1> QED
  BY <1>1 DEF WithFills

\* The rows after the first n sells are booked.
MakersOK(n, r) ==
    /\ r.intent \in [Sells -> Intent]
    /\ Booked(position, r.position) /\ Ledger(r.position, r.intent)
    /\ \A s \in Sells :
        /\ r.intent[s].purpose = intent[s].purpose
        /\ r.intent[s].known = intent[s].known /\ r.intent[s].asked = intent[s].asked
        /\ r.intent[s].fills = WithFills[s].fills
        /\ r.intent[s].filled = IF s <= n /\ s \in Drifted(WithFills)
                                THEN WithFills[s].fills ELSE intent[s].filled
        /\ \/ r.intent[s].state = intent[s].state
           \/ /\ s \in Drifted(WithFills)
              /\ r.intent[s].state \in {"PARTIAL", "FILLED", "PARTIAL_FINAL"}

LEMMA MakersBegin ==
    ASSUME Types, IntentsOK, Sums
    PROVE  MakersOK(0, MakersBooked[0])
<1>1. /\ MakersBooked[0].position = position /\ MakersBooked[0].intent = WithFills
  BY MakersBookedStep
<1>2. Ledger(position, WithFills)
  <2>1. FilledRows(WithFills) = FilledRows(intent)
    BY WithFillsIs DEF FilledRows
  <2> QED
    BY <2>1 DEF Sums, Ledger
<1>3. Booked(position, position)
  BY BookedSelf DEF Types
<1>4. \A s \in Sells : ~(s <= 0)
  BY Bounds DEF Sells
<1> QED
  BY <1>1, <1>2, <1>3, <1>4, WithFillsIs DEF MakersOK

LEMMA MakersNext ==
    ASSUME Types, IntentsOK, Sums, NEW n \in Nat, n + 1 \in Sells, NEW r, MakersOK(n, r)
    PROVE  MakersOK(n + 1, IF n + 1 \in Drifted(WithFills) THEN BookMaker(n + 1, r) ELSE r)
<1> DEFINE s == n + 1
<1>0. /\ s \in Sells /\ \A o \in Sells : o # s => (o <= s <=> o <= n)
      /\ s <= s /\ ~(s <= n)
  BY Bounds DEF Sells
<1> HIDE DEF s
<1>1. CASE s \notin Drifted(WithFills)
  BY <1>0, <1>1 DEF MakersOK, s
<1>2. CASE s \in Drifted(WithFills)
  <2> DEFINE final == IF s \in run.open THEN "PARTIAL"
                      ELSE IF r.intent[s].fills >= r.intent[s].asked THEN "FILLED"
                      ELSE "PARTIAL_FINAL"
             q == AfterFill(r.position, r.intent, s, r.intent[s].fills, final)
             j == [r.intent EXCEPT ![s] = BookedIntent(@, r.intent[s].fills, final)]
  <2>1. BookMaker(s, r) = [position |-> q, intent |-> j]
    BY DEF BookMaker
  <2>2. /\ r.intent \in [Sells -> Intent] /\ r.position \in Position
        /\ r.intent[s].fills = WithFills[s].fills /\ r.intent[s].filled = intent[s].filled
        /\ WithFills[s].fills > intent[s].filled
    BY <1>0, <1>2, WithFillsIs DEF MakersOK, Booked, Drifted
  <2>3. final \in {"PARTIAL", "FILLED", "PARTIAL_FINAL"}
    OBVIOUS
  <2> HIDE DEF final
  <2>4. /\ j \in [Sells -> Intent]
        /\ \A o \in Sells : o # s => j[o] = r.intent[o]
        /\ j[s].state = final /\ j[s].filled = r.intent[s].fills
        /\ j[s].purpose = r.intent[s].purpose /\ j[s].known = r.intent[s].known
        /\ j[s].asked = r.intent[s].asked /\ j[s].fills = r.intent[s].fills
    BY <1>0, <2>2, <2>3, Bounds, ZenonT(60) DEF BookedIntent, Intent, Final, Pending
  <2>5. \A o \in Sells : j[o].filled <= venue[o].filled
    <3> SUFFICES ASSUME NEW o \in Sells PROVE j[o].filled <= venue[o].filled
      OBVIOUS
    <3>1. j[o].filled \in {WithFills[o].fills, intent[o].filled}
      BY <2>2, <2>4 DEF MakersOK
    <3>2. /\ intent[o].filled \in Nat /\ intent[o].fills \in Nat /\ venue[o].shown \in Nat
          /\ venue[o].filled \in Nat /\ WithFills[o].fills \in Nat
      BY WithFillsIs, Bounds DEF Types, Intent, VenueOrder
    <3>3. intent[o].filled <= venue[o].filled /\ WithFills[o].fills <= venue[o].filled
      BY <3>2, WithFillsIs DEF IntentsOK, SellOK
    <3> QED
      BY <3>1, <3>3
  <2> HIDE DEF j
  <2>6. Total(FilledRows(j)) <= Lot
    BY <2>4, <2>5, FilledFits
  <2>7. r.intent[s].fills \in 0..Lot /\ r.intent[s].fills > r.intent[s].filled
    BY <1>0, <2>2 DEF Intent
  <2>8. Booked(r.position, q) /\ Ledger(q, j)
    BY <1>0, <2>2, <2>4, <2>6, <2>7, LedgerFilled DEF MakersOK
  <2> HIDE DEF q
  <2>9. Booked(position, q)
    BY <2>8, BookedTwice DEF MakersOK, Types
  <2>10. \A o \in Sells :
        /\ j[o].purpose = intent[o].purpose
        /\ j[o].known = intent[o].known /\ j[o].asked = intent[o].asked
        /\ j[o].fills = WithFills[o].fills
        /\ j[o].filled = IF o <= s /\ o \in Drifted(WithFills)
                         THEN WithFills[o].fills ELSE intent[o].filled
        /\ \/ j[o].state = intent[o].state
           \/ /\ o \in Drifted(WithFills)
              /\ j[o].state \in {"PARTIAL", "FILLED", "PARTIAL_FINAL"}
    BY <1>0, <1>2, <2>3, <2>4 DEF MakersOK
  <2>11. MakersOK(s, [position |-> q, intent |-> j])
    BY <2>4, <2>8, <2>9, <2>10 DEF MakersOK
  <2> QED
    BY <1>2, <2>1, <2>11 DEF s
<1> QED
  BY <1>1, <1>2 DEF s

LEMMA MakersEnd ==
    ASSUME Types, IntentsOK, Sums
    PROVE  MakersOK(MaxSells, MakersBooked[MaxSells])
<1> DEFINE b == MakersBooked
           S == {n \in Nat : n <= MaxSells => MakersOK(n, b[n])}
<1>1. 0 \in S
  BY MakersBegin
<1>2. \A n \in Nat : n \in S => n + 1 \in S
  <2> SUFFICES ASSUME NEW n \in Nat, MakersOK(n, b[n]), n + 1 <= MaxSells
               PROVE  MakersOK(n + 1, b[n + 1])
    BY Bounds
  <2>1. n + 1 \in Sells /\ (n + 1) - 1 = n
    BY Bounds DEF Sells
  <2>2. b[n + 1] = IF n + 1 \in Drifted(WithFills) THEN BookMaker(n + 1, b[n]) ELSE b[n]
    BY <2>1, MakersBookedStep
  <2> QED
    BY <2>1, <2>2, MakersNext
<1> HIDE DEF S
<1>3. MaxSells \in S
  BY <1>1, <1>2, Induction, Bounds
<1> QED
  BY <1>3, Bounds DEF S

-----------------------------------------------------------------------------
(* What the parts of the invariant ask of a step *)

\* p became q: nothing is forgotten of what was booked, closed or latched.
Onward(p, q) ==
    /\ q \in Position
    /\ p.booked <= q.booked
    /\ p.latched => q.latched
    /\ p.remaining = 0 => q.remaining = 0
    /\ Cut(p) => Cut(q)

LEMMA KindredOnward ==
    ASSUME NEW p \in Position, NEW q, Kindred(p, q)
    PROVE  Onward(p, q)
  BY Bounds DEF Kindred, Onward, Cut, Position

LEMMA BookedOnward ==
    ASSUME NEW p \in Position, NEW q, Booked(p, q)
    PROVE  Onward(p, q)
  BY DEF Booked, Onward

\* A sell stays what it is; its state ends only when its order cannot be
\* filled any more, and an exit that can is pending.
Lawful(o) ==
    /\ intent'[o] \in Intent
    /\ intent[o].state # "none" =>
         /\ intent'[o].state # "none" /\ intent'[o].purpose = intent[o].purpose
         /\ intent'[o].asked = intent[o].asked /\ (intent[o].known => intent'[o].known)
    /\ intent'[o].state \in {"CANCELED", "FAILED", "ZERO_FILL"} => o \notin AtVenue
    /\ intent'[o].state = "ZERO_FILL" /\ ~({"lost_reply", "late_trades"} \subseteq faults)
          => venue[o].filled = 0
    /\ ExitAtVenue(o) => intent'[o].state \in Pending

Step ==
    /\ venue' = venue /\ faults' = faults
    /\ Onward(position, position')
    /\ \A o \in Sells : Lawful(o)

LEMMA SameIsLawful ==
    ASSUME IInv, NEW o \in Sells, intent'[o] = intent[o]
    PROVE  Lawful(o)
  BY DEF IInv, Types, Finals, OneSell, Lawful, IsPending

LEMMA StepIs ==
    ASSUME IInv, Step
    PROVE  /\ Finals'
           /\ AtVenue' = AtVenue
           /\ \A o \in Sells : /\ ExitAtVenue(o)' <=> ExitAtVenue(o)
                               /\ o \in AtVenue => (IsTp(o)' <=> IsTp(o))
                               /\ ExitAtVenue(o) => IsPending(o)'
           /\ NoExitAtVenue' <=> NoExitAtVenue
<1>1. AtVenue' = AtVenue
  BY DEF Step, AtVenue
<1>2. \A o \in AtVenue : intent[o].state # "none"
  BY DEF IInv, IntentsOK, SellOK, AtVenue
<1>3. \A o \in Sells : /\ ExitAtVenue(o)' <=> ExitAtVenue(o)
                       /\ o \in AtVenue => (IsTp(o)' <=> IsTp(o))
  BY <1>1, <1>2 DEF Step, Lawful, ExitAtVenue, IsTp, AtVenue
<1>4. \A o \in Sells : ExitAtVenue(o) => IsPending(o)'
  BY DEF Step, Lawful, IsPending
<1>5. Finals'
  BY <1>1 DEF Step, Lawful, Finals
<1> QED
  BY <1>1, <1>3, <1>4, <1>5 DEF NoExitAtVenue

LEMMA OneSellKept ==
    ASSUME IInv, Step,
           \A o \in Sells : seller.pc = "posted" /\ seller.sell = o /\ ExitAtVenue(o)
                => \/ seller'.pc = "posted" /\ seller'.sell = o
                   \/ position'.latched \/ position'.remaining = 0,
           seller'.pc = "posting" =>
                seller' = seller /\ (IsTp(seller.sell)' <=> IsTp(seller.sell)),
           seller'.pc \in Working /\ ~seller'.copy.latched /\ "crash" \notin faults
                => NoExitAtVenue
    PROVE  OneSell'
<1>1. /\ \A o \in Sells : (ExitAtVenue(o)' <=> ExitAtVenue(o)) /\ (ExitAtVenue(o) => IsPending(o)')
      /\ NoExitAtVenue' <=> NoExitAtVenue
  BY StepIs
<1>2. /\ position.latched => position'.latched
      /\ position.remaining = 0 => position'.remaining = 0
      /\ faults' = faults
  BY DEF Step, Onward
<1>3. OneSell
  BY DEF IInv
<1>4. \A o \in Sells : ExitAtVenue(o)' => IsPending(o)'
  BY <1>1
<1>5. seller'.pc = "posting" => (IsTp(seller.sell)' <=> IsTp(seller.sell)) /\ seller' = seller
  OBVIOUS
<1>6. seller'.pc = "posting" /\ ~IsTp(seller.sell)' => NoExitAtVenue'
  BY <1>1, <1>3, <1>5 DEF OneSell
<1>7. ASSUME "crash" \notin faults
      PROVE  /\ \A o \in Sells : ExitAtVenue(o)' =>
                    \/ seller'.pc = "posted" /\ seller'.sell = o
                    \/ position'.latched \/ position'.remaining = 0
             /\ seller'.pc \in Working /\ ~seller'.copy.latched => NoExitAtVenue'
             /\ seller'.pc = "posting" /\ IsTp(seller.sell)' => NoExitAtVenue'
  BY <1>1, <1>2, <1>3, <1>5, <1>7 DEF OneSell
<1> QED
  BY <1>2, <1>4, <1>6, <1>7 DEF OneSell

LEMMA KeptStays ==
    ASSUME IInv, Step, NEW o, Kept(o),
           position.tp = o /\ position'.tp # o => Kept(o)'
    PROVE  Kept(o)'
<1>1. CASE position.tp = o
  BY <1>1 DEF Kept
<1>2. CASE Cut(position)
  BY <1>2 DEF Kept, Step, Onward
<1>3. CASE "lost_cancel" \in faults
  BY <1>3 DEF Kept, Step
<1>4. CASE \E c \in Sells : c # o /\ IsTp(c) /\ venue[c].at = "canceled"
  <2>1. PICK c \in Sells : c # o /\ IsTp(c) /\ venue[c].at = "canceled"
    BY <1>4
  <2>2. intent[c].state # "none"
    BY <2>1 DEF IInv, IntentsOK, SellOK
  <2>3. IsTp(c)' /\ venue'[c].at = "canceled"
    BY <2>1, <2>2 DEF Step, Lawful, IsTp
  <2> QED
    BY <2>1, <2>3 DEF Kept
<1> QED
  BY <1>1, <1>2, <1>3, <1>4 DEF Kept

LEMMA LinksKept ==
    ASSUME IInv, Step,
           \A o \in AtVenue : IsTp(o) /\ position.tp = o /\ position'.tp # o => Kept(o)',
           seller'.pc \in Selling /\ IsTp(seller.sell)' => Kept(seller.sell)'
    PROVE  LinksOK'
<1>1. \A o \in AtVenue : o \in Sells /\ (IsTp(o)' <=> IsTp(o))
  <2>1. \A o \in AtVenue : o \in Sells
    BY DEF AtVenue
  <2> QED
    BY <2>1, StepIs
<1>2. ASSUME NEW o \in AtVenue, IsTp(o)
      PROVE  Kept(o)'
  <2>1. Kept(o)
    BY <1>2 DEF IInv, LinksOK, LinksAreKept
  <2> QED
    BY <1>2, <2>1, KeptStays
<1>3. LinksAreKept'
  BY <1>1, <1>2, StepIs DEF LinksAreKept
<1> QED
  BY <1>3 DEF LinksOK

LEMMA ZeroKept ==
    ASSUME IInv, Step, run' = run, zero' = zero,
           \A o \in Sells : Unknown(o)' <=> Unknown(o),
           seller'.pc \in Selling /\ ~IsTp(seller.sell)' => \A o \in Sells : ~Unknown(o)
    PROVE  ZeroOK'
<1>1. ZeroOK /\ venue' = venue /\ faults' = faults
  BY DEF IInv, Step
<1>2. \A o \in run.todo : /\ o \in Sells /\ intent[o].state # "none" /\ intent'[o].state # "none"
                          /\ IsTp(o)' <=> IsTp(o)
  BY <1>1 DEF ZeroOK, Step, Lawful, IsTp, IInv, Types, Runs
<1>3. \A o \in Sells : Observed(o)' => Observed(o)
  BY <1>1 DEF Observed
<1>4. \A o \in Sells : Observed(o)' =>
        /\ venue[o].at # "open"
        /\ "late_trades" \notin faults /\ run.trades[o] = 0 => venue[o].filled = 0
  BY <1>1, <1>3 DEF ZeroOK
<1>5. \A o \in run.todo :
        /\ run.pc = "intents" /\ intent'[o].state # "none"
        /\ ListedUnknown(o)' /\ ~IsTp(o)' => Unknown(o)'
  BY <1>1, <1>2 DEF ZeroOK, ListedUnknown
<1>6. zero # None => \E s \in Sells : Unknown(s)' /\ venue[s].at \notin {"none", "sent"}
  BY <1>1 DEF ZeroOK
<1>7. /\ \A s \in Sells : Unknown(s)' => "lost_reply" \in faults /\ venue[s].at # "none"
      /\ \A s, o \in Sells : Unknown(s)' /\ Unknown(o)' => s = o
      /\ seller'.pc \in Selling /\ ~IsTp(seller.sell)' => \A o \in Sells : ~Unknown(o)'
  BY <1>1 DEF ZeroOK
<1> QED
  BY <1>1, <1>4, <1>5, <1>6, <1>7 DEF ZeroOK

\* While the coroutine that holds the lock keeps still
LEMMA SellerKept ==
    ASSUME IInv, seller' = seller, Onward(position, position'),
           position'.tp \in {position.tp, None}, position'.active \in {position.active, None},
           \A o \in Sells :
              /\ intent[o].state = "none" => intent'[o].state = "none"
              /\ intent[o].state # "none" => intent'[o].state # "none"
              /\ intent'[o].purpose = intent[o].purpose /\ intent'[o].known = intent[o].known
              /\ intent[o].state \in {"RESERVED", "SUBMITTING"} /\ ~intent[o].known
                    => intent'[o].state = intent[o].state
              /\ venue[o].at = "none" => venue'[o].at = "none"
              /\ venue[o].at \in {"sent", "open", "matched", "dead"} =>
                   \/ venue'[o].at \in {"sent", "open", "matched", "dead"}
                   \/ intent[o].known
    PROVE  SellerOK'
<1>1. SellerOK /\ position \in Position /\ seller \in Sellers /\ position' \in Position
  BY DEF IInv, Types, Onward
<1>2. ASSUME NEW p \in Position, LinkOK(p, intent)
      PROVE  LinkOK(p, intent')
  BY <1>2 DEF LinkOK, Position
<1>3. LinkOK(position', intent)
  BY <1>1 DEF SellerOK, LinkOK
<1>4. LinkOK(position, intent)'
  BY <1>1, <1>2, <1>3
<1>5. /\ seller.pc # "idle" => seller.copy \in Position /\ (seller.copy.latched => position'.latched)
      /\ seller.pc = "loaded" => seller.copy.remaining >= MinOrder
  BY <1>1 DEF SellerOK, Onward
<1>6. ASSUME seller.pc \in Working PROVE WorkOK'
  <2>1. seller.copy \in Position /\ WorkOK
    BY <1>1, <1>6 DEF SellerOK, Working
  <2>2. LinkOK(seller.copy, intent')
    BY <1>2, <2>1 DEF WorkOK
  <2>3. Unused' # {}
    BY <2>1 DEF WorkOK, Unused
  <2> QED
    BY <2>1, <2>2, <2>3 DEF WorkOK
<1>7. ASSUME seller.pc \in Selling PROVE SellingOK'
  BY <1>1, <1>7 DEF SellerOK, SellingOK, IsTp
<1>8. ASSUME seller.pc \in Cancelling PROVE CancellingOK'
  <2>1. CancellingOK /\ Linked' = Linked /\ Standing' = Standing /\ Linked \in {"tp", "active"}
    BY <1>1, <1>8 DEF SellerOK, Linked, Standing
  <2>2. position[Linked] = None => position'[Linked] = None
    BY <1>1, <2>1 DEF Position
  <2> QED
    BY <2>1, <2>2 DEF CancellingOK
<1> QED
  BY <1>4, <1>5, <1>6, <1>7, <1>8 DEF SellerOK

\* What a step of the coroutine that holds the lock makes of a sell it did
\* not reserve just now
Moved(o) ==
    /\ intent[o].state = "none" => intent'[o] = intent[o]
    /\ intent[o].state # "none" => intent'[o].state # "none"
    /\ intent'[o].filled = intent[o].filled /\ intent'[o].fills = intent[o].fills
    /\ intent'[o].asked = intent[o].asked /\ intent'[o].purpose = intent[o].purpose
    /\ intent[o].known => intent'[o].known
    /\ intent'[o].known => venue[o].at \notin {"none", "sent"}
    /\ intent'[o].state = "WAITING_SELLABLE" => venue[o].at = "none"

Quiet ==
    /\ venue' = venue /\ run' = run /\ faults' = faults /\ zero' = zero
    /\ hot' \in {"nothing", "latched", "unlatched"}
    /\ Kindred(position, position')
    /\ intent' \in [Sells -> Intent]
    /\ \A o \in Sells : Lawful(o) /\ Moved(o)

LEMMA QuietIs ==
    ASSUME IInv, Quiet, seller' \in Sellers
    PROVE  Step /\ Types' /\ IntentsOK' /\ Sums' /\ Finals'
<1>1. position \in Position /\ intent \in [Sells -> Intent]
  BY DEF IInv, Types
<1>2. Onward(position, position')
  BY <1>1, KindredOnward DEF Quiet
<1>3. Step
  BY <1>2 DEF Step, Quiet
<1>4. Types'
  BY <1>2 DEF Types, Quiet, IInv, Onward
<1>5. IntentsOK'
  <2> SUFFICES ASSUME NEW o \in Sells PROVE SellOK(o)'
    BY DEF IntentsOK
  <2>1. SellOK(o) /\ Moved(o) /\ venue' = venue /\ run' = run /\ faults' = faults
    BY DEF IInv, IntentsOK, Quiet
  <2> QED
    BY <2>1 DEF SellOK, Moved, IsTp
<1>6. Sums'
  <2>1. Calm
    BY DEF Calm, Quiet, Moved, Kindred
  <2> QED
    BY <2>1, CalmKeepsSums DEF IInv
<1> QED
  BY <1>3, <1>4, <1>5, <1>6, StepIs

LEMMA KindredSelf ==
    ASSUME NEW p \in Position
    PROVE  Kindred(p, p)
  BY DEF Kindred

LEMMA UnmovedIsQuiet ==
    ASSUME IInv, UNCHANGED <<intent, venue, run, faults, zero>>, Kindred(position, position'),
           hot' \in {"nothing", "latched", "unlatched"}
    PROVE  Quiet /\ \A o \in Sells : Unknown(o)' <=> Unknown(o)
<1>1. intent' = intent /\ intent \in [Sells -> Intent]
  BY DEF IInv, Types
<1>2. \A o \in Sells : Lawful(o)
  BY <1>1, SameIsLawful
<1>3. \A o \in Sells : Moved(o)
  BY <1>1 DEF Moved, IInv, IntentsOK, SellOK
<1> QED
  BY <1>1, <1>2, <1>3 DEF Quiet, Unknown, IsTp

LEMMA ShowsType ==
    ASSUME NEW p \in Position
    PROVE  Shows(p) \in {"nothing", "latched", "unlatched"}
  BY DEF Shows

\* The links of rows that were linked rightly
LEMMA LinksStay ==
    ASSUME IInv, Quiet
    PROVE  /\ \A p \in Position : LinkOK(p, intent) => LinkOK(p, intent')
           /\ LinkOK(position, intent)'
<1>1. \A o \in Sells : intent[o].state # "none" =>
          intent'[o].state # "none" /\ intent'[o].purpose = intent[o].purpose
  BY DEF Quiet, Lawful
<1>2. \A p \in Position : LinkOK(p, intent) => LinkOK(p, intent')
  BY <1>1 DEF LinkOK, Position
<1>3. LinkOK(position', intent) /\ position' \in Position
  BY DEF IInv, SellerOK, LinkOK, Quiet, Kindred
<1> QED
  BY <1>2, <1>3

\* The coroutine lets the lock go, or waits for a run.
LEMMA LeavesOK ==
    ASSUME IInv, Quiet,
           \/ seller' = IdleSeller
           \/ /\ seller.pc # "idle" /\ seller' = [seller EXCEPT !.pc = seller'.pc]
              /\ seller'.pc \in {"clearing", "cleared", "unsettled"}
    PROVE  seller' \in Sellers /\ SellerOK' /\ seller'.pc \notin Working \cup Selling
<1>1. CASE seller' = IdleSeller
  BY <1>1, LinksStay DEF IdleSeller, Sellers, Phases, SellerOK, Working, Selling, Cancelling
<1>2. CASE /\ seller.pc # "idle" /\ seller' = [seller EXCEPT !.pc = seller'.pc]
           /\ seller'.pc \in {"clearing", "cleared", "unsettled"}
  <2>1. seller \in Sellers /\ seller.copy \in Position /\ (seller.copy.latched => position'.latched)
    BY <1>2 DEF IInv, Types, SellerOK, Quiet, Kindred
  <2>2. seller' \in Sellers /\ seller'.copy = seller.copy
    BY <1>2, <2>1 DEF Sellers, Phases
  <2> QED
    BY <1>2, <2>1, <2>2, LinksStay DEF SellerOK, Working, Selling, Cancelling
<1> QED
  BY <1>1, <1>2

LEMMA UnusedStays ==
    ASSUME IInv, Quiet, Unused # {}
    PROVE  Unused' # {}
  BY DEF Unused, Quiet, Moved

\* The coroutine goes on, with the copy it has or with a later one.
LEMMA WorksOn ==
    ASSUME IInv, Quiet, Unused # {},
           seller' \in Sellers, seller'.pc \in {"loaded", "reloading", "exiting"},
           seller'.copy \in Position, LinkOK(seller'.copy, intent),
           position'.tp \in {seller'.copy.tp, None},
           position'.active \in {seller'.copy.active, None},
           seller'.copy.latched => position'.latched,
           seller'.pc = "loaded" => seller'.copy.remaining >= MinOrder
    PROVE  SellerOK' /\ seller'.pc \notin Selling
<1>1. LinkOK(seller'.copy, intent') /\ LinkOK(position, intent)'
  BY LinksStay
<1>2. WorkOK'
  BY <1>1, UnusedStays DEF WorkOK
<1> QED
  BY <1>1, <1>2 DEF SellerOK, Selling, Cancelling

\* A part of _market_exit_fak is over: the row's link is gone, and the copy
\* is as good as the row.
LEMMA PartIsOver ==
    ASSUME IInv, Quiet, seller.pc \in Working, NEW c \in Position, PartOver(c),
           \/ c = seller.copy
           \/ c = position'
           \/ c = position,
           position'[Linked] = None
    PROVE  /\ seller' \in Sellers /\ SellerOK'
           /\ seller'.pc \in Working /\ seller'.pc \notin Selling
           /\ ~seller'.copy.latched => ~seller.copy.latched
<1>1. /\ WorkOK /\ seller \in Sellers /\ seller.copy \in Position
      /\ position \in Position /\ position' \in Position /\ Kindred(position, position')
      /\ seller.copy.latched => position.latched
      /\ LinkOK(position, intent)
  BY DEF IInv, Types, SellerOK, Working, Quiet, Kindred
<1>2. /\ LinkOK(c, intent) /\ (c.latched => position'.latched) /\ (seller.copy.latched => c.latched)
      /\ position'.tp \in {c.tp, None} /\ position'.active \in {c.active, None}
  BY <1>1 DEF WorkOK, Kindred, LinkOK
<1> DEFINE d == IF seller.copy.active # None THEN [c EXCEPT !.active = None]
                ELSE [c EXCEPT !.active = None, !.tp = None]
<1>3. d \in Position /\ d.latched = c.latched /\ LinkOK(d, intent) /\ d.active = None
      /\ d.tp = IF seller.copy.active # None THEN c.tp ELSE None
  BY <1>2 DEF Position, LinkOK
<1>4. position'.tp \in {d.tp, None} /\ position'.active \in {d.active, None}
  <2>1. CASE seller.copy.active # None
    BY <1>2, <1>3, <2>1 DEF Linked
  <2>2. CASE seller.copy.active = None
    <3>1. position'.tp = None
      BY <2>2 DEF Linked
    <3>2. position'.active = None
      BY <1>1, <2>2 DEF WorkOK, Kindred
    <3> QED
      BY <1>3, <3>1, <3>2
  <2> QED
    BY <2>1, <2>2
<1> HIDE DEF d
<1>5. seller' = [seller EXCEPT !.pc = "exiting", !.sell = None, !.copy = d]
  BY DEF PartOver, d
<1>6. seller' \in Sellers /\ seller'.pc = "exiting" /\ seller'.copy = d
  BY <1>1, <1>3, <1>5 DEF Sellers, Phases
<1>7. SellerOK'
  BY <1>1, <1>2, <1>3, <1>4, <1>6, WorksOn DEF WorkOK
<1> QED
  BY <1>2, <1>3, <1>6, <1>7 DEF Working, Selling

LEMMA QuietKeeps ==
    ASSUME IInv, Quiet, seller' \in Sellers, SellerOK', seller'.pc \notin Selling,
           \A o \in Sells : Unknown(o)' <=> Unknown(o),
           \A o \in Sells : seller.pc = "posted" /\ seller.sell = o /\ ExitAtVenue(o)
                => position'.latched \/ position'.remaining = 0,
           seller'.pc \in Working /\ ~seller'.copy.latched /\ "crash" \notin faults
                => NoExitAtVenue,
           \A o \in AtVenue : IsTp(o) /\ position.tp = o /\ position'.tp # o => Kept(o)'
    PROVE  IInv'
<1>1. Step /\ Types' /\ IntentsOK' /\ Sums' /\ Finals'
  BY QuietIs
<1>2. ZeroOK'
  BY <1>1, ZeroKept DEF Quiet
<1>3. OneSell'
  BY <1>1, OneSellKept DEF Selling
<1>4. LinksOK'
  BY <1>1, LinksKept
<1> QED
  BY <1>1, <1>2, <1>3, <1>4 DEF IInv

\* The coroutine that works keeps the knowledge that no exit may be filled.
LEMMA WorkingKnows ==
    ASSUME IInv, seller.pc \in Working, ~seller.copy.latched, "crash" \notin faults
    PROVE  NoExitAtVenue
  BY DEF IInv, OneSell

-----------------------------------------------------------------------------
(* The frame worker *)

LEMMA StillKeeps ==
    ASSUME IInv, UNCHANGED <<intent, seller, run, zero, venue, faults>>,
           Kindred(position, position'), position'.tp = position.tp,
           hot' \in {"nothing", "latched", "unlatched"}
    PROVE  IInv'
<1>1. Quiet /\ \A o \in Sells : Unknown(o)' <=> Unknown(o)
  BY UnmovedIsQuiet
<1>2. position \in Position /\ Onward(position, position')
  BY KindredOnward DEF IInv, Types
<1>3. Step /\ Types' /\ IntentsOK' /\ Sums' /\ Finals'
  BY <1>1, QuietIs DEF IInv, Types
<1>4. SellerOK'
  BY <1>2, SellerKept DEF Kindred
<1>5. IsTp(seller.sell)' <=> IsTp(seller.sell)
  BY DEF IsTp
<1>6. ZeroOK'
  <2>1. seller'.pc \in Selling /\ ~IsTp(seller.sell)' => \A o \in Sells : ~Unknown(o)
    BY <1>5 DEF IInv, ZeroOK
  <2> QED
    BY <1>1, <1>3, <2>1, ZeroKept
<1>7. OneSell'
  BY <1>3, <1>5, OneSellKept, WorkingKnows
<1>8. LinksOK'
  <2>1. ASSUME seller.pc \in Selling, IsTp(seller.sell) PROVE Kept(seller.sell)'
    <3>1. Kept(seller.sell)
      BY <2>1 DEF IInv, LinksOK
    <3> QED
      BY <3>1, <1>2 DEF Kept, Onward, IsTp
  <2> QED
    BY <1>3, <1>5, <2>1, LinksKept
<1> QED
  BY <1>3, <1>4, <1>6, <1>7, <1>8 DEF IInv

LEMMA FrameKeeps ==
    ASSUME IInv, RefreshHot \/ FrameLatches
    PROVE  IInv'
<1>1. position \in Position
  BY DEF IInv, Types
<1>2. CASE RefreshHot
  BY <1>1, <1>2, StillKeeps, KindredSelf, ShowsType DEF RefreshHot, rows
<1>3. CASE FrameLatches
  <2>1. Kindred(position, position') /\ position'.tp = position.tp
    BY <1>1, <1>3, LatchStopIs DEF FrameLatches
  <2>2. hot' \in {"nothing", "latched", "unlatched"}
    <3>1. position' \in Position /\ hot' = Shows(position')
      BY <2>1, <1>3 DEF Kindred, FrameLatches
    <3> QED
      BY <3>1, ShowsType
  <2> QED
    BY <1>3, <2>1, <2>2, StillKeeps DEF FrameLatches
<1> QED
  BY <1>2, <1>3

-----------------------------------------------------------------------------
(* The coroutine that holds the lock *)

LEMMA LoadKeeps ==
    ASSUME IInv, NEW kind \in {"stop", "tp", "resume", "emergency"}, Load(kind)
    PROVE  IInv'
<1>1. position \in Position /\ position' = position
  BY DEF IInv, Types, Load, rows
<1>2. Quiet /\ \A o \in Sells : Unknown(o)' <=> Unknown(o)
  BY <1>1, KindredSelf, ShowsType, UnmovedIsQuiet DEF Load, rows
<1>3. /\ seller' \in Sellers /\ seller'.pc = "loaded" /\ seller'.copy = position
  <2> DEFINE w == IsWaiting(position.active)
  <2>1. w \in BOOLEAN
    BY DEF IsWaiting
  <2> HIDE DEF w
  <2>2. seller' = [IdleSeller EXCEPT !.pc = "loaded", !.kind = kind, !.copy = position,
                      !.waiting = w]
    BY DEF Load, w
  <2> QED
    BY <1>1, <2>1, <2>2 DEF IdleSeller, Sellers, Phases
<1>4. SellerOK' /\ seller'.pc \notin Selling
  BY <1>1, <1>2, <1>3, WorksOn DEF Load, IInv, SellerOK
<1>5. ~position.latched /\ "crash" \notin faults => NoExitAtVenue
  BY Bounds DEF IInv, OneSell, NoExitAtVenue, Load, SellerAt, Types, Position
<1> QED
  BY <1>1, <1>2, <1>3, <1>4, <1>5, QuietKeeps DEF Load, SellerAt

LEMMA LoadsKeep ==
    ASSUME IInv, LoadStop \/ LoadTakeProfit \/ LoadResume \/ LoadEmergency
    PROVE  IInv'
  BY LoadKeeps DEF LoadStop, LoadTakeProfit, LoadResume, LoadEmergency

LEMMA HotStays ==
    ASSUME IInv, memory' = memory
    PROVE  hot' \in {"nothing", "latched", "unlatched"} /\ zero' = zero /\ faults' = faults
  BY DEF IInv, Types, memory

\* The lock is let go, or a run is awaited; the rows keep their links.
LEMMA LeavingKeeps ==
    ASSUME IInv, memory' = memory, UNCHANGED <<intent, run, venue>>, seller.pc # "posted",
           Kindred(position, position'), position'.tp = position.tp,
           \/ seller' = IdleSeller
           \/ /\ seller.pc # "idle" /\ seller' = [seller EXCEPT !.pc = seller'.pc]
              /\ seller'.pc \in {"clearing", "cleared", "unsettled"}
    PROVE  IInv'
<1>1. Quiet /\ \A o \in Sells : Unknown(o)' <=> Unknown(o)
  BY HotStays, UnmovedIsQuiet
<1>2. seller' \in Sellers /\ SellerOK' /\ seller'.pc \notin Working \cup Selling
  BY <1>1, LeavesOK
<1> QED
  BY <1>1, <1>2, QuietKeeps

\* The same copy is worked on.
LEMMA SameCopyWorks ==
    ASSUME IInv, Quiet, seller.pc \in Working, seller' \in Sellers,
           seller'.copy = seller.copy, seller'.pc \in {"reloading", "exiting"}
    PROVE  SellerOK' /\ seller'.pc \notin Selling
<1>1. /\ WorkOK /\ seller.copy \in Position /\ (seller.copy.latched => position.latched)
      /\ Kindred(position, position')
  BY DEF IInv, SellerOK, Working, Quiet
<1>2. position'.tp \in {seller.copy.tp, None} /\ position'.active \in {seller.copy.active, None}
  BY <1>1 DEF WorkOK, Kindred
<1> QED
  BY <1>1, <1>2, WorksOn DEF WorkOK, Kindred

LEMMA AskRunKeeps ==
    ASSUME IInv, AskRun
    PROVE  IInv'
<1>1. /\ memory' = memory /\ UNCHANGED <<intent, run, venue>> /\ seller.pc = "loaded"
      /\ position' = position /\ position \in Position
      /\ seller' = [seller EXCEPT !.pc = "clearing"] /\ seller \in Sellers
  BY DEF AskRun, rows, SellerAt, SellerGoes, IInv, Types
<1>2. seller' = [seller EXCEPT !.pc = seller'.pc] /\ seller'.pc = "clearing"
  BY <1>1 DEF Sellers
<1> QED
  BY <1>1, <1>2, KindredSelf, LeavingKeeps

LEMMA BeginExitKeeps ==
    ASSUME IInv, BeginExit
    PROVE  IInv'
<1>1. /\ memory' = memory /\ UNCHANGED <<intent, run, venue>> /\ seller.pc = "loaded"
      /\ position' = position /\ position \in Position
      /\ seller' = [seller EXCEPT !.pc = "exiting"] /\ seller \in Sellers
  BY DEF BeginExit, rows, SellerAt, SellerGoes, IInv, Types
<1>2. Quiet /\ \A o \in Sells : Unknown(o)' <=> Unknown(o)
  BY <1>1, HotStays, UnmovedIsQuiet, KindredSelf
<1>3. seller' \in Sellers /\ seller'.copy = seller.copy /\ seller'.pc = "exiting"
  BY <1>1 DEF Sellers, Phases
<1>4. SellerOK' /\ seller'.pc \notin Selling
  BY <1>1, <1>2, <1>3, SameCopyWorks DEF Working
<1> QED
  BY <1>1, <1>2, <1>3, <1>4, QuietKeeps, WorkingKnows DEF Working

LEMMA ClearWaitingIs ==
    ASSUME IInv, memory' = memory, UNCHANGED <<run, venue>>,
           NEW s \in Sells, IsWaiting(s), ClearWaiting(s),
           IsTp(s) => position.tp \in {s, None}
    PROVE  /\ Quiet
           /\ \A o \in Sells : Unknown(o)' <=> Unknown(o)
           /\ \A o \in AtVenue : IsTp(o) /\ position.tp = o => position'.tp = o
           /\ IF IsTp(s) THEN position'.tp = None ELSE position'.active = None
<1>1. position \in Position /\ intent \in [Sells -> Intent] /\ position' = AfterCancel(position, s, TRUE)
  BY DEF IInv, Types, ClearWaiting
<1>2. /\ Kindred(position, position')
      /\ IF IsTp(s) THEN position'.tp = None ELSE position'.active = None /\ position'.tp = position.tp
  BY <1>1, AfterCancelIs
<1>3. /\ intent[s].state = "WAITING_SELLABLE" /\ venue[s].at = "none" /\ ~intent[s].known
      /\ SellOK(s)
  BY DEF IsWaiting, IInv, IntentsOK, SellOK
<1>4. /\ intent' \in [Sells -> Intent]
      /\ \A o \in Sells : o # s => intent'[o] = intent[o]
      /\ intent'[s] = [intent[s] EXCEPT !.state = "CANCELED"]
  BY <1>1 DEF ClearWaiting, Intent, Final
<1>5. /\ intent'[s].state = "CANCELED" /\ intent'[s].purpose = intent[s].purpose
      /\ intent'[s].asked = intent[s].asked /\ intent'[s].known = intent[s].known
      /\ intent'[s].filled = intent[s].filled /\ intent'[s].fills = intent[s].fills
  BY <1>1, <1>4 DEF Intent
<1>6. s \notin AtVenue /\ ~ExitAtVenue(s)
  BY <1>3 DEF AtVenue, ExitAtVenue
<1>7. Lawful(s) /\ Moved(s)
  BY <1>3, <1>4, <1>5, <1>6 DEF Lawful, Moved
<1>8. \A o \in Sells : o # s => Lawful(o) /\ Moved(o)
  BY <1>4, SameIsLawful DEF Moved, IInv, IntentsOK, SellOK
<1>9. Quiet
  BY <1>2, <1>4, <1>7, <1>8, HotStays DEF Quiet
<1>10. \A o \in Sells : Unknown(o)' <=> Unknown(o)
  BY <1>3, <1>4, <1>5 DEF Unknown, IsTp
<1> QED
  BY <1>2, <1>6, <1>9, <1>10

\* What stands is a sell of the copy's links, of the kind of its link.
LEMMA StandingIs ==
    ASSUME IInv, seller.pc \in Working, Standing # None
    PROVE  /\ Standing \in Sells /\ intent[Standing].state # "none"
           /\ Linked \in {"tp", "active"}
           /\ IsTp(Standing) <=> Linked = "tp"
           /\ position[Linked] \in {Standing, None}
           /\ IsTp(Standing) => position.tp \in {Standing, None}
<1>1. WorkOK /\ seller.copy \in Position
  BY DEF IInv, SellerOK, Working
<1> QED
  BY <1>1 DEF WorkOK, LinkOK, Standing, Linked, IsTp, Position

LEMMA ResumeKeeps ==
    ASSUME IInv, Resume
    PROVE  IInv'
<1> DEFINE s == IF seller.kind = "stop" THEN seller.copy.active ELSE seller.copy.tp
<1>1. /\ seller.pc = "loaded" /\ memory' = memory /\ UNCHANGED <<run, venue>>
      /\ position \in Position /\ seller \in Sellers /\ WorkOK /\ seller.copy \in Position
      /\ \/ IsWaiting(s) /\ ClearWaiting(s) /\ seller' = [seller EXCEPT !.pc = "reloading"]
         \/ seller' = IdleSeller /\ UNCHANGED <<position, intent>>
  BY DEF Resume, SellerAt, SellerGoes, SellerDone, rows, IInv, Types, SellerOK, Working
<1>2. CASE seller' = IdleSeller /\ UNCHANGED <<position, intent>>
  BY <1>1, <1>2, KindredSelf, LeavingKeeps
<1>3. CASE IsWaiting(s) /\ ClearWaiting(s) /\ seller' = [seller EXCEPT !.pc = "reloading"]
  <2>1. s \in Sells /\ (IsTp(s) => position.tp \in {s, None})
    BY <1>1, <1>3 DEF IsWaiting, WorkOK, LinkOK, IsTp, Position
  <2> HIDE DEF s
  <2>2. /\ Quiet /\ \A o \in Sells : Unknown(o)' <=> Unknown(o)
        /\ \A o \in AtVenue : IsTp(o) /\ position.tp = o => position'.tp = o
    BY <1>1, <1>3, <2>1, ClearWaitingIs
  <2>3. seller' \in Sellers /\ seller'.copy = seller.copy /\ seller'.pc = "reloading"
    BY <1>1, <1>3 DEF Sellers, Phases
  <2>4. SellerOK' /\ seller'.pc \notin Selling
    BY <1>1, <2>2, <2>3, SameCopyWorks DEF Working
  <2> QED
    BY <1>1, <2>2, <2>3, <2>4, QuietKeeps, WorkingKnows DEF Working
<1> QED
  BY <1>1, <1>2, <1>3

LEMMA ReloadKeeps ==
    ASSUME IInv, Reload
    PROVE  IInv'
<1> DEFINE c == IF position.state = "CLOSED" THEN seller.copy ELSE position
           kind == IF seller.kind = "resume" THEN "tp" ELSE seller.kind
           pc == IF seller.kind = "resume" THEN "loaded" ELSE "exiting"
<1>1. /\ seller.pc = "reloading" /\ UNCHANGED <<intent, run, zero, venue, faults>>
      /\ position' = position /\ position \in Position /\ seller \in Sellers
      /\ WorkOK /\ seller.copy \in Position /\ (seller.copy.latched => position.latched)
      /\ LinkOK(position, intent)
      /\ hot' = Shows(position)
      /\ \/ seller' = IdleSeller
         \/ ~(c.remaining < MinOrder) /\ seller' = [seller EXCEPT !.copy = c, !.kind = kind, !.pc = pc]
  BY DEF Reload, SellerAt, SellerDone, rows, IInv, Types, SellerOK, Working
<1>2. Quiet /\ \A o \in Sells : Unknown(o)' <=> Unknown(o)
  BY <1>1, KindredSelf, ShowsType, UnmovedIsQuiet
<1>3. CASE seller' = IdleSeller
  <2>1. seller' \in Sellers /\ SellerOK' /\ seller'.pc \notin Working \cup Selling
    BY <1>2, <1>3, LeavesOK
  <2> QED
    BY <1>1, <1>2, <2>1, QuietKeeps
<1>4. CASE ~(c.remaining < MinOrder) /\ seller' = [seller EXCEPT !.copy = c, !.kind = kind, !.pc = pc]
  <2>1. /\ c \in Position /\ LinkOK(c, intent) /\ (c.latched => position.latched)
        /\ seller.copy.latched => c.latched
        /\ position.tp \in {c.tp, None} /\ position.active \in {c.active, None}
    BY <1>1 DEF WorkOK
  <2>a. c.remaining >= MinOrder
    BY <1>4, <2>1, Bounds DEF Position
  <2>2. kind \in {"stop", "tp", "resume", "emergency"} /\ pc \in {"loaded", "exiting"}
    BY <1>1 DEF Sellers
  <2> HIDE DEF c, kind, pc
  <2>3. seller' \in Sellers /\ seller'.copy = c /\ seller'.pc \in {"loaded", "exiting"}
    BY <1>1, <1>4, <2>1, <2>2 DEF Sellers, Phases
  <2>4. SellerOK' /\ seller'.pc \notin Selling
    BY <1>1, <1>2, <2>a, <2>1, <2>3, WorksOn DEF WorkOK
  <2>5. ~c.latched /\ "crash" \notin faults => NoExitAtVenue
    BY <1>1, <2>1, WorkingKnows DEF Working
  <2> QED
    BY <1>1, <1>2, <2>3, <2>4, <2>5, QuietKeeps
<1> QED
  BY <1>1, <1>3, <1>4

LEMMA SupersedeKeeps ==
    ASSUME IInv, Supersede
    PROVE  IInv'
<1> DEFINE s == Standing
           c == IF position'.state \in Actionable THEN position' ELSE seller.copy
<1>1. /\ seller.pc = "exiting" /\ memory' = memory /\ UNCHANGED <<run, venue>>
      /\ IsWaiting(s) /\ ClearWaiting(s) /\ PartOver(c) /\ s # None
      /\ position \in Position /\ seller \in Sellers /\ seller.copy \in Position
  BY DEF Supersede, SellerAt, IInv, Types, SellerOK, IsWaiting
<1>2. /\ s \in Sells /\ Linked \in {"tp", "active"} /\ (IsTp(s) <=> Linked = "tp")
      /\ IsTp(s) => position.tp \in {s, None}
  BY <1>1, StandingIs DEF Working
<1> HIDE DEF s
<1>3. /\ Quiet /\ \A o \in Sells : Unknown(o)' <=> Unknown(o)
      /\ \A o \in AtVenue : IsTp(o) /\ position.tp = o => position'.tp = o
      /\ IF IsTp(s) THEN position'.tp = None ELSE position'.active = None
  BY <1>1, <1>2, ClearWaitingIs
<1>4. position'[Linked] = None /\ c \in Position
  BY <1>1, <1>2, <1>3 DEF Quiet, Kindred
<1>5. c = seller.copy \/ c = position'
  OBVIOUS
<1> HIDE DEF c
<1>6. /\ seller' \in Sellers /\ SellerOK'
      /\ seller'.pc \in Working /\ seller'.pc \notin Selling
      /\ ~seller'.copy.latched => ~seller.copy.latched
  BY <1>1, <1>3, <1>4, <1>5, PartIsOver DEF Working
<1> QED
  BY <1>1, <1>3, <1>6, QuietKeeps, WorkingKnows DEF Working

LEMMA RefuseUnknownKeeps ==
    ASSUME IInv, RefuseUnknown
    PROVE  IInv'
<1>1. position \in Position
  BY DEF IInv, Types
<1>2. Kindred(position, position') /\ position'.tp = position.tp
  BY <1>1, RequireIs DEF RefuseUnknown
<1> QED
  BY <1>2, LeavingKeeps DEF RefuseUnknown, SellerAt, SellerDone

LEMMA UnsettledKeeps ==
    ASSUME IInv, Unsettled
    PROVE  IInv'
<1>1. position \in Position
  BY DEF IInv, Types
<1>2. Kindred(position, position') /\ position'.tp = position.tp
  BY <1>1, RequireIs DEF Unsettled
<1> QED
  BY <1>2, LeavingKeeps DEF Unsettled, SellerAt, SellerDone

LEMMA ClearedKeeps ==
    ASSUME IInv, Cleared
    PROVE  IInv'
<1>1. position \in Position
  BY DEF IInv, Types
<1>2. Kindred(position, position') /\ position'.tp = position.tp
  BY <1>1, ClearIs DEF Cleared
<1> QED
  BY <1>2, LeavingKeeps DEF Cleared, SellerAt, SellerDone

\* One sell that was reserved takes another state; the row's links only go.
LEMMA OneIsMoved ==
    ASSUME IInv, memory' = memory, UNCHANGED <<run, venue>>, Kindred(position, position'),
           NEW s \in Sells, NEW st \in Final \cup Pending, NEW known \in BOOLEAN,
           intent' = [intent EXCEPT ![s].known = known, ![s].state = st],
           intent[s].state # "none", st # "WAITING_SELLABLE" \/ venue[s].at = "none",
           intent[s].known => known, known => venue[s].at \notin {"none", "sent"},
           st \in {"CANCELED", "FAILED", "ZERO_FILL"} => venue[s].at \notin {"sent", "open"},
           st = "ZERO_FILL" => venue[s].filled = 0,
           st \notin Pending => venue[s].at \notin {"sent", "open"} \/ IsTp(s)
    PROVE  /\ Quiet
           /\ \A o \in Sells : o # s => (Unknown(o)' <=> Unknown(o))
           /\ Unknown(s)' <=> st = "RECONCILIATION_REQUIRED" /\ ~known /\ ~IsTp(s)
<1>1. intent \in [Sells -> Intent] /\ SellOK(s)
  BY DEF IInv, Types, IntentsOK
<1>2. /\ intent' \in [Sells -> Intent]
      /\ \A o \in Sells : o # s => intent'[o] = intent[o]
  BY <1>1, ZenonT(60) DEF Intent
<1>3. /\ intent'[s].state = st /\ intent'[s].purpose = intent[s].purpose
      /\ intent'[s].asked = intent[s].asked /\ intent'[s].known = known
      /\ intent'[s].filled = intent[s].filled /\ intent'[s].fills = intent[s].fills
  BY <1>1 DEF Intent
<1>4. st # "none" /\ intent'[s] \in Intent
  BY <1>2 DEF Final, Pending
<1>5. Lawful(s)
  BY <1>3, <1>4 DEF Lawful, AtVenue, ExitAtVenue
<1>6. Moved(s)
  BY <1>3, <1>4 DEF Moved
<1>7. \A o \in Sells : o # s => Lawful(o) /\ Moved(o)
  BY <1>2, SameIsLawful DEF Moved, IInv, IntentsOK, SellOK
<1>8. Quiet
  BY <1>2, <1>5, <1>6, <1>7, HotStays DEF Quiet
<1>9. \A o \in Sells : o # s => (Unknown(o)' <=> Unknown(o))
  BY <1>2 DEF Unknown, IsTp
<1> QED
  BY <1>3, <1>8, <1>9 DEF Unknown, IsTp

LEMMA FreshIs ==
    ASSUME IInv, seller.pc # "idle"
    PROVE  Fresh \in Position /\ (Fresh = position \/ Fresh = seller.copy)
  BY DEF Fresh, IInv, SellerOK, Types

\* A part of _market_exit_fak is over, and the rows are as they were.
LEMMA PartOverKeeps ==
    ASSUME IInv, seller.pc \in Working, PartOver(Fresh), memory' = memory,
           UNCHANGED <<rows, run, venue>>, position[Linked] = None
    PROVE  IInv'
<1>1. position \in Position /\ UNCHANGED <<position, intent, run, venue>>
  BY DEF IInv, Types, rows
<1>2. Quiet /\ \A o \in Sells : Unknown(o)' <=> Unknown(o)
  BY <1>1, HotStays, UnmovedIsQuiet, KindredSelf
<1>3. Fresh \in Position /\ (Fresh = position \/ Fresh = seller.copy)
  BY FreshIs DEF Working
<1>4. position'[Linked] = None
  BY <1>1
<1>5. /\ seller' \in Sellers /\ SellerOK'
      /\ seller'.pc \in Working /\ seller'.pc \notin Selling
      /\ ~seller'.copy.latched => ~seller.copy.latched
  BY <1>2, <1>3, <1>4, PartIsOver
<1> QED
  BY <1>1, <1>2, <1>5, QuietKeeps, WorkingKnows DEF Working

\* The coroutine goes on with the cancellation of what stands.
LEMMA CancelsOn ==
    ASSUME IInv, Quiet, seller.pc \in Working, seller' \in Sellers,
           seller'.copy = seller.copy, seller'.pc \in Cancelling,
           seller'.sell = Standing, Standing \in Sells, intent[Standing].known,
           seller'.pc # "cancelling" => position'[Linked] = None
    PROVE  SellerOK' /\ seller'.pc \notin Selling
<1>1. /\ WorkOK /\ seller.copy \in Position /\ (seller.copy.latched => position.latched)
      /\ Kindred(position, position')
  BY DEF IInv, SellerOK, Working, Quiet
<1>2. position'.tp \in {seller.copy.tp, None} /\ position'.active \in {seller.copy.active, None}
  BY <1>1 DEF WorkOK, Kindred
<1>3. LinkOK(seller.copy, intent') /\ LinkOK(position, intent)'
  BY <1>1, LinksStay DEF WorkOK
<1>4. WorkOK'
  BY <1>1, <1>2, <1>3, UnusedStays DEF WorkOK
<1>5. Standing' = Standing /\ Linked' = Linked /\ intent'[Standing].known
  BY DEF Standing, Linked, Quiet, Moved
<1>6. CancellingOK'
  BY <1>5 DEF CancellingOK
<1> QED
  BY <1>1, <1>3, <1>4, <1>6 DEF SellerOK, Selling, Cancelling, Kindred

LEMMA CancelKeeps ==
    ASSUME IInv, Cancel
    PROVE  IInv'
<1>1. /\ seller.pc = "exiting" /\ memory' = memory /\ UNCHANGED <<position, run, venue>>
      /\ Standing # None /\ intent[Standing].known
      /\ position \in Position /\ seller \in Sellers /\ intent \in [Sells -> Intent]
  BY DEF Cancel, SellerAt, IInv, Types
<1>2. /\ Standing \in Sells /\ intent[Standing].state # "none"
      /\ position[Linked] \in {Standing, None}
  BY <1>1, StandingIs DEF Working
<1>3. CASE position[Linked] = None
  <2>1. PartOver(Fresh) /\ UNCHANGED rows
    BY <1>1, <1>3 DEF Cancel, rows
  <2> QED
    BY <1>1, <1>3, <2>1, PartOverKeeps DEF Working
<1>4. CASE position[Linked] # None
  <2>0. PICK s \in Sells : s = Standing
    BY <1>2
  <2>1. /\ s \in Sells /\ intent[s].known /\ intent[s].state # "none"
        /\ intent' = [intent EXCEPT ![s].state = "CANCEL_REQUESTED"]
        /\ seller' = [seller EXCEPT !.pc = "cancelling", !.sell = s]
        /\ venue[s].at \notin {"none", "sent"}
    <3>1. position[Linked] = s
      BY <1>2, <1>4, <2>0
    <3> QED
      BY <1>1, <1>2, <1>4, <2>0, <3>1 DEF Cancel, IInv, IntentsOK, SellOK
  <2> DEFINE st == "CANCEL_REQUESTED"
  <2>2. intent' = [intent EXCEPT ![s].known = TRUE, ![s].state = st]
    BY <1>1, <2>1 DEF Intent
  <2>3. /\ st \in Pending
        /\ st \notin {"WAITING_SELLABLE", "CANCELED", "FAILED", "ZERO_FILL",
                      "RECONCILIATION_REQUIRED"}
    BY DEF Pending
  <2> HIDE DEF st
  <2>4. Kindred(position, position')
    BY <1>1, KindredSelf
  <2>5. /\ Quiet
        /\ \A o \in Sells : o # s => (Unknown(o)' <=> Unknown(o))
        /\ ~Unknown(s)'
    BY <1>1, <2>1, <2>2, <2>3, <2>4, OneIsMoved
  <2>6. seller' \in Sellers /\ seller'.copy = seller.copy /\ seller'.pc = "cancelling" /\ seller'.sell = s
    BY <1>1, <2>1 DEF Sellers, Phases
  <2>7. SellerOK' /\ seller'.pc \notin Selling
    BY <1>1, <1>2, <2>0, <2>1, <2>5, <2>6, CancelsOn DEF Working, Cancelling
  <2>8. ~Unknown(s)
    BY <2>1 DEF Unknown
  <2> QED
    BY <1>1, <2>5, <2>6, <2>7, <2>8, QuietKeeps, WorkingKnows DEF Working
<1> QED
  BY <1>3, <1>4

\* What a cancellation is about
LEMMA CancellingIs ==
    ASSUME IInv, seller.pc \in Cancelling
    PROVE  /\ seller.pc \in Working /\ seller.sell = Standing /\ Standing \in Sells
           /\ intent[Standing].known /\ intent[Standing].state # "none"
           /\ venue[Standing].at \notin {"none", "sent"}
           /\ Linked \in {"tp", "active"}
           /\ IsTp(Standing) <=> Linked = "tp"
           /\ IsTp(Standing) => position.tp \in {Standing, None}
           /\ seller.pc # "cancelling" => position[Linked] = None
<1>1. CancellingOK /\ seller.pc \in Working /\ Standing # None
  BY Bounds DEF IInv, SellerOK, Cancelling, Working, CancellingOK
<1> QED
  BY <1>1, StandingIs DEF CancellingOK, IInv, IntentsOK, SellOK

LEMMA CancelAnsweredKeeps ==
    ASSUME IInv, NEW success \in BOOLEAN, CancelAnswered(success)
    PROVE  IInv'
<1> DEFINE st == CancelState(success)
<1>1. /\ seller.pc = "cancelling" /\ memory' = memory /\ UNCHANGED <<run, venue>>
      /\ position \in Position /\ seller \in Sellers /\ intent \in [Sells -> Intent]
  BY DEF CancelAnswered, SellerAt, IInv, Types
<1>0. PICK s \in Sells : s = Standing
  BY <1>1, CancellingIs DEF Cancelling
<1>2. /\ seller.pc \in Working /\ seller.sell = s /\ s \in Sells
      /\ intent[s].known /\ intent[s].state # "none"
      /\ venue[s].at \notin {"none", "sent"}
      /\ Linked \in {"tp", "active"} /\ (IsTp(s) <=> Linked = "tp")
      /\ IsTp(s) => position.tp \in {s, None}
  BY <1>0, <1>1, CancellingIs DEF Cancelling
<1>3. /\ intent' = [intent EXCEPT ![s].state = st]
      /\ position' = AfterCancel(position, s, success)
      /\ IF success THEN venue[s].at = "canceled"
         ELSE "lost_cancel" \in faults \/ venue[s].at # "open"
      /\ IF success THEN seller' = [seller EXCEPT !.pc = "settling"] ELSE seller' = IdleSeller
  BY <1>2 DEF CancelAnswered, SellerGoes, SellerDone
<1>4. /\ Kindred(position, position')
      /\ IF IsTp(s) THEN position'.tp = None
         ELSE position'.active = None /\ position'.tp = position.tp
  BY <1>1, <1>2, <1>3, AfterCancelIs
<1>5. /\ st = (IF success THEN "CANCELED" ELSE "CANCEL_UNCERTAIN")
      /\ st \in Final \cup Pending
      /\ st \notin {"ZERO_FILL", "FAILED", "WAITING_SELLABLE", "RECONCILIATION_REQUIRED"}
      /\ (st = "CANCELED" \/ st \notin Pending) => success
  BY DEF CancelState, Final, Pending
<1> HIDE DEF st
<1>6. intent' = [intent EXCEPT ![s].known = TRUE, ![s].state = st]
  BY <1>1, <1>2, <1>3 DEF Intent
<1>7. /\ Quiet
      /\ \A o \in Sells : o # s => (Unknown(o)' <=> Unknown(o))
      /\ ~Unknown(s)'
  BY <1>1, <1>2, <1>3, <1>4, <1>5, <1>6, OneIsMoved, ZenonT(60)
<1>8. \A o \in Sells : Unknown(o)' <=> Unknown(o)
  BY <1>2, <1>7 DEF Unknown
<1>9. \A o \in AtVenue : IsTp(o) /\ position.tp = o /\ position'.tp # o => Kept(o)'
  <2> SUFFICES ASSUME NEW o \in AtVenue, IsTp(o), position.tp = o, position'.tp # o
               PROVE  Kept(o)'
    OBVIOUS
  <2>1. o = s /\ venue[o].at = "open" /\ o \in Sells
    BY <1>2, <1>4, Bounds DEF AtVenue
  <2>2. "lost_cancel" \in faults'
    BY <1>3, <1>7, <2>1 DEF Quiet
  <2> QED
    BY <2>2 DEF Kept
<1>10. CASE ~success
  <2>1. seller' \in Sellers /\ SellerOK' /\ seller'.pc \notin Working \cup Selling
    BY <1>3, <1>7, <1>10, LeavesOK
  <2> QED
    BY <1>1, <1>7, <1>8, <1>9, <2>1, QuietKeeps
<1>11. CASE success
  <2>1. position'[Linked] = None
    BY <1>2, <1>4
  <2>2. seller' \in Sellers /\ seller'.copy = seller.copy /\ seller'.pc = "settling" /\ seller'.sell = s
    BY <1>1, <1>2, <1>3, <1>11 DEF Sellers, Phases
  <2>3. SellerOK' /\ seller'.pc \notin Selling
    BY <1>0, <1>2, <1>7, <2>1, <2>2, CancelsOn DEF Cancelling
  <2> QED
    BY <1>1, <1>2, <1>7, <1>8, <1>9, <2>2, <2>3, QuietKeeps, WorkingKnows
<1> QED
  BY <1>10, <1>11

LEMMA SettleKeeps ==
    ASSUME IInv, Settle
    PROVE  IInv'
<1>1. /\ seller.pc = "settling" /\ memory' = memory /\ UNCHANGED <<intent, run, venue>>
      /\ position \in Position /\ seller \in Sellers
  BY DEF Settle, SellerAt, IInv, Types
<1>2. /\ seller.pc \in Working /\ seller.sell = Standing /\ Standing \in Sells
      /\ intent[Standing].known /\ position[Linked] = None
  BY <1>1, CancellingIs DEF Cancelling
<1>3. CASE PartOver(Fresh) /\ UNCHANGED position
  BY <1>1, <1>2, <1>3, PartOverKeeps DEF rows
<1>4. CASE SellerGoes("reconciling") /\ UNCHANGED position
  <2>1. Quiet /\ \A o \in Sells : Unknown(o)' <=> Unknown(o)
    BY <1>1, <1>4, HotStays, UnmovedIsQuiet, KindredSelf
  <2>2. /\ seller' \in Sellers /\ seller'.copy = seller.copy
        /\ seller'.pc = "reconciling" /\ seller'.sell = Standing
    BY <1>1, <1>2, <1>4 DEF SellerGoes, Sellers, Phases
  <2>3. SellerOK' /\ seller'.pc \notin Selling
    BY <1>2, <1>4, <2>1, <2>2, CancelsOn DEF Cancelling
  <2> QED
    BY <1>1, <1>2, <1>4, <2>1, <2>2, <2>3, QuietKeeps, WorkingKnows
<1>5. CASE position' = RequireReconciliation(position) /\ SellerDone
  <2>1. Kindred(position, position') /\ position'.tp = position.tp
    BY <1>1, <1>5, RequireIs
  <2> QED
    BY <1>1, <1>5, <2>1, LeavingKeeps DEF SellerDone
<1> QED
  BY <1>3, <1>4, <1>5 DEF Settle

LEMMA SettledKeeps ==
    ASSUME IInv, Settled
    PROVE  IInv'
<1>1. seller.pc = "settled"
  BY DEF Settled, SellerAt
<1>2. seller.pc \in Working /\ position[Linked] = None
  BY <1>1, CancellingIs DEF Cancelling
<1> QED
  BY <1>2, PartOverKeeps DEF Settled

\* What is being sold
LEMMA SellingIs ==
    ASSUME IInv, seller.pc \in Selling
    PROVE  /\ seller.sell \in Sells /\ SellingOK /\ SellOK(seller.sell)
           /\ intent[seller.sell].state # "none"
           /\ ~Unknown(seller.sell)
           /\ seller \in Sellers /\ position \in Position /\ intent \in [Sells -> Intent]
<1>1. SellingOK
  BY DEF IInv, SellerOK
<1> QED
  BY <1>1 DEF SellingOK, IInv, Types, IntentsOK, Unknown

LEMMA InsufficientKeeps ==
    ASSUME IInv, Insufficient
    PROVE  IInv'
<1>0. seller.pc = "posting"
  BY DEF Insufficient, SellerAt
<1>s. PICK s \in Sells : s = seller.sell
  BY <1>0, SellingIs DEF Selling
<1>1. /\ seller.pc = "posting" /\ memory' = memory /\ UNCHANGED <<run, venue>>
      /\ intent' = [intent EXCEPT ![s].state = "WAITING_SELLABLE"]
      /\ position' = WaitingSellable(position, s) /\ seller' = IdleSeller
  BY <1>s DEF Insufficient, SellerAt, SellerDone
<1>2. /\ s \in Sells /\ intent[s].state # "none" /\ ~Unknown(s) /\ ~intent[s].known
      /\ venue[s].at = "none"
      /\ position \in Position /\ intent \in [Sells -> Intent]
  BY <1>s, <1>1, SellingIs DEF Selling, SellingOK
<1>3. Kindred(position, position') /\ position'.tp = position.tp
  BY <1>1, <1>2, WaitingIs
<1> DEFINE st == "WAITING_SELLABLE"
<1>4. intent' = [intent EXCEPT ![s].known = FALSE, ![s].state = st]
  BY <1>1, <1>2 DEF Intent
<1>5. /\ st \in Pending
      /\ st \notin {"CANCELED", "FAILED", "ZERO_FILL", "RECONCILIATION_REQUIRED"}
  BY DEF Pending
<1> HIDE DEF st
<1>6. Quiet /\ \A o \in Sells : Unknown(o)' <=> Unknown(o)
  BY <1>1, <1>2, <1>3, <1>4, <1>5, OneIsMoved
<1>7. seller' \in Sellers /\ SellerOK' /\ seller'.pc \notin Working \cup Selling
  BY <1>1, <1>6, LeavesOK
<1> QED
  BY <1>1, <1>3, <1>6, <1>7, QuietKeeps

LEMMA FailedKeeps ==
    ASSUME IInv, Failed
    PROVE  IInv'
<1>0. seller.pc \in Selling
  BY DEF Failed, SellerAt, Selling
<1>s. PICK s \in Sells : s = seller.sell
  BY <1>0, SellingIs
<1> DEFINE st == IF SellerAt("posted") /\ ~IsTp(s) THEN "ZERO_FILL" ELSE "FAILED"
<1>1. /\ seller.pc \in Selling /\ memory' = memory /\ UNCHANGED <<run, venue>>
      /\ seller.pc = "posted" => venue[s].at = "dead"
      /\ intent' = [intent EXCEPT ![s].state = st]
      /\ position' = AfterFailure(position, s) /\ seller' = IdleSeller
  BY <1>s DEF Failed, SellerAt, SellerDone, Selling
<1>2. /\ s \in Sells /\ intent[s].state # "none" /\ ~Unknown(s) /\ ~intent[s].known
      /\ venue[s].at \in {"none", "dead"} /\ venue[s].filled = 0
      /\ position \in Position /\ intent \in [Sells -> Intent]
  BY <1>s, <1>1, SellingIs DEF Selling, SellingOK, SellOK
<1>3. st \in {"ZERO_FILL", "FAILED"}
  OBVIOUS
<1> HIDE DEF st
<1>4. Kindred(position, position') /\ (position'.tp # position.tp => position.tp = s)
  BY <1>1, <1>2, AfterFailureIs
<1>5. intent' = [intent EXCEPT ![s].known = FALSE, ![s].state = st]
  BY <1>1, <1>2 DEF Intent
<1>6. Quiet /\ \A o \in Sells : Unknown(o)' <=> Unknown(o)
  <2>1. st \in Final \cup Pending
    BY <1>3 DEF Final
  <2> QED
    BY <1>1, <1>2, <1>3, <1>4, <1>5, <2>1, OneIsMoved, ZenonT(60)
<1>7. seller' \in Sellers /\ SellerOK' /\ seller'.pc \notin Working \cup Selling
  BY <1>1, <1>6, LeavesOK
<1>8. \A o \in Sells : seller.pc = "posted" /\ seller.sell = o => ~ExitAtVenue(o)
  BY <1>s, <1>1, <1>2 DEF ExitAtVenue, AtVenue
<1>9. \A o \in AtVenue : ~(position.tp = o /\ position'.tp # o)
  BY <1>2, <1>4 DEF AtVenue
<1> QED
  BY <1>6, <1>7, <1>8, <1>9, QuietKeeps

\* The answer of the venue, or the lack of one
LEMMA PostedKeeps ==
    ASSUME IInv, seller.pc = "posted", memory' = memory, UNCHANGED <<run, venue>>,
           NEW known \in BOOLEAN, Posted(seller.sell, known),
           IF known THEN venue[seller.sell].at \in {"open", "matched"} ELSE "lost_reply" \in faults
    PROVE  IInv'
<1>s. PICK s \in Sells : s = seller.sell
  BY SellingIs DEF Selling
<1> DEFINE st == IF ~IsTp(s) THEN "RECONCILIATION_REQUIRED"
                 ELSE IF known THEN "LIVE" ELSE "UNKNOWN"
<1>1. /\ s \in Sells /\ intent[s].state # "none" /\ ~Unknown(s) /\ ~intent[s].known
      /\ venue[s].at \in {"sent", "open", "matched", "dead"} /\ venue[s].at # "none"
      /\ IF known THEN venue[s].at \in {"open", "matched"} ELSE "lost_reply" \in faults
      /\ seller \in Sellers /\ position \in Position /\ intent \in [Sells -> Intent]
      /\ seller.pc \in Selling
  BY <1>s, SellingIs DEF Selling, SellingOK
<1>2. /\ intent' = [intent EXCEPT ![s].known = known, ![s].state = st]
      /\ \/ IsTp(s) /\ seller' = IdleSeller /\ position' = position
         \/ /\ ~IsTp(s) /\ position' = RequireReconciliation(position)
            /\ seller' = [seller EXCEPT !.pc = "clearing"]
  BY <1>s DEF Posted, SellerDone, SellerGoes
<1>3. /\ st \in Pending /\ st \notin {"CANCELED", "FAILED", "ZERO_FILL", "WAITING_SELLABLE"}
      /\ st = "RECONCILIATION_REQUIRED" <=> ~IsTp(s)
  BY DEF Pending
<1> HIDE DEF st
<1>4. /\ Kindred(position, position') /\ position'.tp = position.tp
      /\ ~IsTp(s) => position'.latched \/ position'.remaining = 0
  BY <1>1, <1>2, KindredSelf, RequireIs DEF Kindred
<1>5. /\ Quiet
      /\ \A o \in Sells : o # s => (Unknown(o)' <=> Unknown(o))
      /\ Unknown(s)' <=> ~known /\ ~IsTp(s)
  BY <1>1, <1>2, <1>3, <1>4, OneIsMoved
<1>6. /\ seller' \in Sellers /\ SellerOK' /\ seller'.pc \notin Working \cup Selling
  <2>1. \/ seller' = IdleSeller
        \/ seller' = [seller EXCEPT !.pc = seller'.pc] /\ seller'.pc = "clearing"
    BY <1>1, <1>2 DEF Sellers
  <2> QED
    BY <1>5, <2>1, LeavesOK
<1>7. Step /\ Types' /\ IntentsOK' /\ Sums' /\ Finals'
  BY <1>5, <1>6, QuietIs
<1>8. ASSUME NEW o \in Sells, seller.pc = "posted", seller.sell = o, ExitAtVenue(o)
      PROVE  position'.latched \/ position'.remaining = 0
  BY <1>s, <1>4, <1>8 DEF ExitAtVenue
<1>9. OneSell'
  BY <1>6, <1>7, <1>8, OneSellKept DEF Selling
<1>10. LinksOK'
  BY <1>4, <1>6, <1>7, LinksKept
<1>11. ZeroOK'
  <2>1. CASE Unknown(s)'
    <3>1. ~IsTp(s) /\ ~known /\ "lost_reply" \in faults
      BY <1>5, <2>1
    <3>2. \A o \in Sells : ~Unknown(o)
      BY <1>s, <1>1, <3>1 DEF IInv, ZeroOK
    <3>3. zero = None
      BY <3>2 DEF IInv, ZeroOK
    <3>4. \A o \in Sells : Unknown(o)' <=> o = s
      BY <1>1, <1>5, <2>1, <3>2
    <3>5. zero' = None /\ venue' = venue /\ run' = run /\ faults' = faults
      BY <3>3, <1>5 DEF Quiet
    <3>6. \A o \in run.todo :
            /\ run.pc = "intents" /\ intent'[o].state # "none"
            /\ ~(ListedUnknown(o) /\ ~IsTp(o)) /\ o \in Sells
            /\ IsTp(o)' <=> IsTp(o)
      BY <3>2, <1>7 DEF IInv, ZeroOK, Types, Runs, Step, Lawful, IsTp
    <3>7. \A o \in run'.todo :
            /\ run'.pc = "intents" /\ intent'[o].state # "none"
            /\ ListedUnknown(o)' /\ ~IsTp(o)' => Unknown(o)'
      BY <3>5, <3>6 DEF ListedUnknown
    <3> QED
      BY <1>1, <1>6, <3>1, <3>4, <3>5, <3>7 DEF ZeroOK, Observed
  <2>2. CASE ~Unknown(s)'
    BY <1>1, <1>5, <1>6, <1>7, <2>2, ZeroKept DEF Quiet
  <2> QED
    BY <2>1, <2>2
<1> QED
  BY <1>6, <1>7, <1>9, <1>10, <1>11 DEF IInv

LEMMA AnswersKeep ==
    ASSUME IInv, Accepted \/ LostReply
    PROVE  IInv'
  BY PostedKeeps DEF Accepted, LostReply, SellerAt

-----------------------------------------------------------------------------
(* A sell is reserved, and posted *)

LEMMA FirstUnused ==
    ASSUME Unused # {}
    PROVE  Min(Unused) \in Unused
<1>1. Unused \in SUBSET Nat
  BY Bounds DEF Unused, Sells
<1> QED
  BY <1>1, LeastElement DEF Min

LEMMA ReserveKeeps ==
    ASSUME IInv, seller.pc \in Working, memory' = memory, UNCHANGED <<run, venue>>,
           NEW s \in Unused, NEW purpose \in Purposes, NEW asked \in 1..Lot,
           NEW st \in {"RESERVED", "SUBMITTING", "WAITING_SELLABLE"},
           Reserve(s, purpose, asked, st), position.tp = None,
           IF purpose = "TAKE_PROFIT" THEN "crash" \notin faults => NoExitAtVenue
           ELSE /\ position.active = None /\ NoExitAtVenue
                /\ \A o \in Sells : ~Unknown(o)
    PROVE  IInv'
<1> DEFINE tp == purpose = "TAKE_PROFIT"
           new == [NoIntent EXCEPT !.state = st, !.purpose = purpose, !.asked = asked]
           r == Reserved(position, s, tp)
<1>1. /\ s \in Sells /\ intent[s].state = "none" /\ SellOK(s)
      /\ intent \in [Sells -> Intent] /\ position \in Position /\ seller \in Sellers
      /\ seller.copy \in Position /\ (seller.copy.latched => position.latched)
      /\ LinkOK(position, intent) /\ venue' = venue /\ run' = run /\ faults' = faults /\ zero' = zero
  BY HotStays DEF IInv, IntentsOK, Types, Unused, SellerOK, Working
<1>2. /\ new \in Intent /\ new.state = st /\ new.purpose = purpose /\ new.asked = asked
      /\ ~new.known /\ new.filled = 0 /\ new.fills = 0
  <2>1. NoIntent \in Intent /\ ~NoIntent.known /\ NoIntent.filled = 0 /\ NoIntent.fills = 0
    BY Bounds DEF NoIntent, Intent, Purposes
  <2>2. st \in Pending /\ asked \in 0..Lot /\ 0 \in 0..Lot
    BY Bounds DEF Pending
  <2> QED
    BY <2>1, <2>2 DEF Intent
<1>3. /\ intent' \in [Sells -> Intent] /\ intent'[s] = new
      /\ \A o \in Sells : o # s => intent'[o] = intent[o]
  BY <1>1, <1>2 DEF Reserve
<1> HIDE DEF new
<1>4. /\ r \in Position
      /\ r.booked = position.booked /\ r.remaining = position.remaining
      /\ r.latched = position.latched
      /\ IF tp THEN r.tp = s /\ r.active = position.active
         ELSE r.active = s /\ r.tp = position.tp
  BY <1>1, ReservedIs, ZenonT(60)
<1>5. position' = IF st # "WAITING_SELLABLE" THEN r ELSE [r EXCEPT !.sellable = 0]
  BY DEF Reserve
<1> HIDE DEF r
<1>6. /\ position' \in Position
      /\ position'.booked = position.booked /\ position'.remaining = position.remaining
      /\ position'.latched = position.latched
      /\ IF tp THEN position'.tp = s /\ position'.active = position.active
         ELSE position'.active = s /\ position'.tp = None
  <2>1. 0 \in 0..Lot
    BY Bounds
  <2> QED
    BY <1>4, <1>5, <2>1 DEF Position
<1>7. Onward(position, position')
  BY <1>1, <1>6, Bounds DEF Onward, Cut, Position
<1>8. s \notin AtVenue /\ ~ExitAtVenue(s) /\ venue[s].at = "none" /\ intent[s].filled = 0
  BY <1>1, Bounds DEF SellOK, AtVenue, ExitAtVenue, Intent
<1>9. \A o \in Sells : Lawful(o)
  <2>1. Lawful(s)
    BY <1>1, <1>2, <1>3, <1>8 DEF Lawful
  <2> QED
    BY <1>3, <2>1, SameIsLawful
<1>10. Step
  BY <1>1, <1>7, <1>9 DEF Step
<1>11. Types'
  <2>1. \/ seller' = IdleSeller
        \/ seller' = [seller EXCEPT !.pc = "posting", !.sell = s]
    BY DEF Reserve, SellerDone
  <2>2. seller' = IdleSeller => seller' \in Sellers
    BY DEF IdleSeller, Sellers, Phases
  <2>3. seller' = [seller EXCEPT !.pc = "posting", !.sell = s] => seller' \in Sellers
    BY <1>1 DEF Sellers, Phases
  <2> QED
    BY <1>1, <2>1, <2>2, <2>3, <1>3, <1>6, HotStays DEF Types, IInv
<1>12. IntentsOK'
  <2> SUFFICES ASSUME NEW o \in Sells PROVE SellOK(o)'
    BY DEF IntentsOK
  <2>1. CASE o = s
    <3>1. s \notin run.todo
      BY <1>1 DEF IInv, ZeroOK
    <3> QED
      BY <1>1, <1>2, <1>3, <2>1, <3>1 DEF SellOK
  <2>2. CASE o # s
    BY <1>1, <1>3, <2>2 DEF SellOK, IInv, IntentsOK, IsTp
  <2> QED
    BY <2>1, <2>2
<1>13. Sums'
  <2>1. Calm
    BY <1>1, <1>2, <1>3, <1>6, <1>8 DEF Calm, IsOpen
  <2> QED
    BY <2>1, CalmKeepsSums DEF IInv
<1>14. LinkOK(position, intent)'
  BY <1>1, <1>2, <1>3, <1>6 DEF LinkOK, Position
<1>15. \/ seller' = IdleSeller /\ st = "WAITING_SELLABLE"
       \/ /\ seller' = [seller EXCEPT !.pc = "posting", !.sell = s]
          /\ st \in {"RESERVED", "SUBMITTING"}
  BY DEF Reserve, SellerDone
<1>16. \/ seller'.pc = "idle"
       \/ /\ seller'.pc = "posting" /\ seller'.sell = s /\ seller'.copy = seller.copy
          /\ st \in {"RESERVED", "SUBMITTING"}
  <2>1. CASE seller' = IdleSeller
    BY <2>1 DEF IdleSeller
  <2>2. CASE seller' = [seller EXCEPT !.pc = "posting", !.sell = s] /\ st \in {"RESERVED", "SUBMITTING"}
    BY <1>1, <2>2 DEF Sellers
  <2> QED
    BY <1>15, <2>1, <2>2
<1>17. \A o \in Sells : Unknown(o)' <=> Unknown(o)
  BY <1>1, <1>2, <1>3 DEF Unknown, IsTp
<1>18. intent'[s].purpose = purpose /\ (seller'.pc = "posting" => (IsTp(seller.sell)' <=> tp))
  BY <1>2, <1>3, <1>16 DEF IsTp
<1>19. SellerOK'
  <2>1. ASSUME seller'.pc = "posting" PROVE SellingOK'
    BY <1>1, <1>2, <1>3, <1>6, <1>8, <1>16, <1>18, <2>1 DEF SellingOK, IsTp
  <2> QED
    BY <1>1, <1>6, <1>14, <1>16, <2>1 DEF SellerOK, Working, Selling, Cancelling
<1>20. ZeroOK'
  <2>1. seller'.pc \in Selling /\ ~IsTp(seller.sell)' => \A o \in Sells : ~Unknown(o)
    BY <1>16, <1>18 DEF Selling
  <2> QED
    BY <1>1, <1>10, <1>17, <2>1, ZeroKept
<1>21. OneSell'
  <2>1. /\ \A o \in Sells : (ExitAtVenue(o)' <=> ExitAtVenue(o)) /\ (ExitAtVenue(o) => IsPending(o)')
        /\ NoExitAtVenue' <=> NoExitAtVenue
    BY <1>10, StepIs
  <2>2. "crash" \notin faults => \A o \in Sells :
            ExitAtVenue(o)' => position'.latched \/ position'.remaining = 0
    BY <1>6, <2>1 DEF IInv, OneSell, Working
  <2>3. /\ seller'.pc \notin Working
        /\ seller'.pc = "posting" /\ ~tp => NoExitAtVenue'
        /\ seller'.pc = "posting" /\ tp /\ "crash" \notin faults => NoExitAtVenue'
    BY <1>16, <2>1 DEF Working
  <2> HIDE DEF tp
  <2> QED
    BY <1>1, <1>18, <2>1, <2>2, <2>3 DEF OneSell
<1>22. LinksOK'
  <2>1. seller'.pc \in Selling /\ IsTp(seller.sell)' => Kept(seller.sell)'
    BY <1>6, <1>16, <1>18 DEF Selling, Kept
  <2>2. \A o \in AtVenue : position.tp # o
    BY Bounds DEF AtVenue
  <2> QED
    BY <1>10, <2>1, <2>2, LinksKept
<1>23. Finals'
  BY <1>10, StepIs
<1> QED
  BY <1>11, <1>12, <1>13, <1>19, <1>20, <1>21, <1>22, <1>23 DEF IInv

LEMMA TakeProfitKeeps ==
    ASSUME IInv, TakeProfit
    PROVE  IInv'
<1> DEFINE c == seller.copy
           st == IF c.sellable < c.remaining THEN "WAITING_SELLABLE" ELSE "RESERVED"
<1>1. /\ seller.pc = "loaded" /\ memory' = memory /\ UNCHANGED <<run, venue>>
      /\ WorkOK /\ c \in Position /\ c.remaining >= MinOrder /\ position \in Position
  BY DEF TakeProfit, SellerAt, IInv, SellerOK, Working, Types
<1>2. CASE SellerDone /\ UNCHANGED rows
  BY <1>1, <1>2, KindredSelf, LeavingKeeps DEF SellerDone, rows
<1>3. CASE /\ c.tp = None /\ ~c.latched
           /\ Reserve(Min(Unused), "TAKE_PROFIT", c.remaining, st)
  <2>1. PICK s \in Unused : s = Min(Unused)
    BY <1>1, FirstUnused DEF WorkOK
  <2>2. PICK n \in 1..Lot : n = c.remaining
    BY <1>1, Bounds DEF Position
  <2>3. PICK t \in {"RESERVED", "SUBMITTING", "WAITING_SELLABLE"} : t = st
    OBVIOUS
  <2>4. position.tp = None
    BY <1>1, <1>3 DEF WorkOK
  <2>5. "crash" \notin faults => NoExitAtVenue
    BY <1>1, <1>3, WorkingKnows DEF Working
  <2>6. PICK u \in Purposes : u = "TAKE_PROFIT"
    BY DEF Purposes
  <2>7. Reserve(s, u, n, t)
    BY <1>3, <2>1, <2>2, <2>3, <2>6
  <2> QED
    BY <1>1, <2>4, <2>5, <2>6, <2>7, ReserveKeeps DEF Working
<1> QED
  BY <1>2, <1>3 DEF TakeProfit

LEMMA SellKeeps ==
    ASSUME IInv, Sell
    PROVE  IInv'
<1> DEFINE c == seller.copy
           purpose == IF seller.kind = "stop" THEN "STOP_066" ELSE "EMERGENCY"
           shares == IF c.sellable > 0 THEN c.sellable ELSE c.remaining
           st == IF c.sellable > 0 \/ Optimistic THEN "SUBMITTING" ELSE "WAITING_SELLABLE"
<1>1. /\ seller.pc = "exiting" /\ memory' = memory /\ UNCHANGED <<run, venue>>
      /\ WorkOK /\ c \in Position /\ position \in Position /\ Standing = None
  BY DEF Sell, SellerAt, IInv, SellerOK, Working, Types
<1>2. CASE SellerDone /\ UNCHANGED rows
  BY <1>1, <1>2, KindredSelf, LeavingKeeps DEF SellerDone, rows
<1>3. CASE /\ shares # 0 /\ ~SameActionPending(FALSE)
           /\ Reserve(Min(Unused), purpose, shares, st)
  <2>1. PICK s \in Unused : s = Min(Unused)
    BY <1>1, FirstUnused DEF WorkOK
  <2>2. PICK n \in 1..Lot : n = shares
    BY <1>1, <1>3, Bounds DEF Position
  <2>3. PICK t \in {"RESERVED", "SUBMITTING", "WAITING_SELLABLE"} : t = st
    OBVIOUS
  <2>4. position.tp = None /\ position.active = None
    BY <1>1 DEF WorkOK, Standing, Linked
  <2>5. \A o \in Sells : ~(IsPending(o) /\ ~IsTp(o))
    BY <1>3 DEF SameActionPending, IsTp
  <2>6. NoExitAtVenue /\ \A o \in Sells : ~Unknown(o)
    BY <2>5 DEF IInv, OneSell, NoExitAtVenue, ExitAtVenue, Unknown, IsPending, Pending
  <2>7. PICK u \in Purposes : u = purpose
    BY DEF Purposes
  <2>8. Reserve(s, u, n, t) /\ u # "TAKE_PROFIT"
    BY <1>3, <2>1, <2>2, <2>3, <2>7
  <2> QED
    BY <1>1, <2>4, <2>6, <2>8, ReserveKeeps DEF Working
<1> QED
  BY <1>1, <1>2, <1>3 DEF Sell

LEMMA PostKeeps ==
    ASSUME IInv, Post
    PROVE  IInv'
<1>0. seller.pc = "posting" /\ UNCHANGED <<position, intent, run>> /\ memory' = memory
  BY DEF Post, SellerAt, rows
<1>1. PICK s \in Sells : s = seller.sell
  BY <1>0, SellingIs DEF Selling
<1>2. /\ SellingOK /\ SellOK(s) /\ intent[s].state \in {"RESERVED", "SUBMITTING"} /\ ~intent[s].known
      /\ venue[s].at = "none" /\ ~Unknown(s)
      /\ venue \in [Sells -> VenueOrder] /\ venue[s].filled = 0
      /\ seller \in Sellers /\ faults' = faults /\ zero' = zero
  BY <1>0, <1>1, SellingIs, HotStays DEF Selling, SellingOK, SellOK, IInv, Types
<1>3. /\ seller' = [seller EXCEPT !.pc = "posted"] /\ venue' = [venue EXCEPT ![s].at = "sent"]
  BY <1>1 DEF Post, SellerGoes
<1>4. /\ seller' \in Sellers /\ seller'.pc = "posted" /\ seller'.sell = s /\ seller'.copy = seller.copy
  BY <1>1, <1>2, <1>3 DEF Sellers, Phases
<1>5. /\ venue' \in [Sells -> VenueOrder]
      /\ venue'[s].at = "sent" /\ venue'[s].filled = 0 /\ venue'[s].shown = venue[s].shown
      /\ \A o \in Sells : o # s => venue'[o] = venue[o]
  BY <1>2, <1>3 DEF VenueOrder
<1>6. \A o \in Sells : (IsTp(o)' <=> IsTp(o)) /\ (Unknown(o)' <=> Unknown(o)) /\ (IsPending(o)' <=> IsPending(o))
  BY <1>0 DEF IsTp, Unknown, IsPending
<1>7. s \notin AtVenue /\ AtVenue' = AtVenue \cup {s}
  BY <1>2, <1>5 DEF AtVenue
<1>8. Types'
  BY <1>0, <1>4, <1>5, HotStays DEF IInv, Types
<1>9. IntentsOK'
  <2> SUFFICES ASSUME NEW o \in Sells PROVE SellOK(o)'
    BY DEF IntentsOK
  <2>1. SellOK(o)
    BY DEF IInv, IntentsOK
  <2>2. CASE o = s
    BY <1>0, <1>2, <1>5, <2>1, <2>2 DEF SellOK
  <2>3. CASE o # s
    BY <1>0, <1>2, <1>5, <2>1, <2>3 DEF SellOK, IsTp
  <2> QED
    BY <2>2, <2>3
<1>10. Sums'
  <2>1. \A o \in Sells :
          /\ venue'[o].filled = venue[o].filled
          /\ (IF IsOpen(o) THEN intent[o].asked - venue[o].filled ELSE 0)'
               = IF IsOpen(o) THEN intent[o].asked - venue[o].filled ELSE 0
    BY <1>0, <1>2, <1>5 DEF IsOpen
  <2>2. SoldAtVenue' = SoldAtVenue /\ Offered' = Offered
    BY <2>1 DEF SoldAtVenue, Offered
  <2> QED
    BY <1>0, <2>2 DEF IInv, Sums
<1>11. SellerOK'
  <2>1. SellingOK'
    BY <1>0, <1>1, <1>2, <1>4, <1>5, <1>6 DEF SellingOK, IsTp
  <2> QED
    BY <1>0, <1>4, <2>1 DEF IInv, SellerOK, Working, Cancelling, Selling
<1>12. ZeroOK'
  <2>1. \A o \in Sells : Unknown(o) => o # s
    BY <1>2
  <2>2. \A o \in Sells : Observed(o)' => Observed(o) /\ o # s
    BY <1>0, <1>2, <1>6 DEF Observed
  <2>3. \A o \in Sells : ListedUnknown(o)' <=> ListedUnknown(o)
    BY <1>0 DEF ListedUnknown
  <2>4. seller'.pc \in Selling /\ ~IsTp(seller.sell)' => \A o \in Sells : ~Unknown(o)'
    BY <1>0, <1>1, <1>4, <1>6 DEF IInv, ZeroOK, Selling
  <2>5. ZeroOK
    BY DEF IInv
  <2>6. /\ \A o \in Sells : Unknown(o)' => "lost_reply" \in faults /\ venue'[o].at # "none"
        /\ zero # None => \E o \in Sells : Unknown(o)' /\ venue'[o].at \notin {"none", "sent"}
    BY <1>5, <1>6, <2>1, <2>5 DEF ZeroOK
  <2>7. \A o \in Sells : Observed(o)' =>
          /\ venue'[o].at # "open"
          /\ "late_trades" \notin faults /\ run.trades[o] = 0 => venue'[o].filled = 0
    BY <1>5, <2>2, <2>5 DEF ZeroOK
  <2>8. \A o \in run.todo : o \in Sells
    BY DEF IInv, Types, Runs
  <2> QED
    BY <1>0, <1>2, <1>6, <2>3, <2>4, <2>5, <2>6, <2>7, <2>8 DEF ZeroOK
<1>13. OneSell'
  <2>1. \A o \in Sells : ExitAtVenue(o)' => o = s \/ ExitAtVenue(o)
    BY <1>6, <1>7 DEF ExitAtVenue
  <2>2. IsPending(s)
    BY <1>2 DEF IsPending, Pending
  <2>3. "crash" \notin faults => NoExitAtVenue
    BY <1>0 DEF IInv, OneSell
  <2>4. \A o \in Sells : ExitAtVenue(o)' => IsPending(o)'
    BY <1>6, <2>1, <2>2 DEF IInv, OneSell
  <2>5. "crash" \notin faults => \A o \in Sells : ExitAtVenue(o)' => o = s
    BY <2>1, <2>3 DEF NoExitAtVenue
  <2> QED
    BY <1>2, <1>4, <2>4, <2>5 DEF OneSell, Working
<1>14. LinksOK'
  <2>1. ASSUME NEW o \in Sells, Kept(o) PROVE Kept(o)'
    BY <1>0, <1>2, <1>5, <1>6, <2>1 DEF Kept
  <2>2. IsTp(s) => Kept(s)
    BY <1>0, <1>1 DEF IInv, LinksOK, Selling
  <2>3. \A o \in AtVenue : o \in Sells /\ (IsTp(o) => Kept(o))
    BY DEF IInv, LinksOK, LinksAreKept, AtVenue
  <2> QED
    BY <1>4, <1>6, <1>7, <2>1, <2>2, <2>3 DEF LinksOK, LinksAreKept
<1>15. Finals'
  BY <1>0, <1>2, <1>5, <1>7 DEF IInv, Finals
<1> QED
  BY <1>8, <1>9, <1>10, <1>11, <1>12, <1>13, <1>14, <1>15 DEF IInv

-----------------------------------------------------------------------------
(* The venue, and a crash *)

\* What one order's move makes of what was sold and offered
LEMMA VenueSums ==
    ASSUME IInv, UNCHANGED <<position, intent>>, NEW s \in Sells,
           venue' \in [Sells -> VenueOrder],
           \A o \in Sells : o # s => venue'[o] = venue[o],
           NEW n, n = venue'[s].filled,
           NEW off \in Nat, off = IF venue'[s].at = "open" THEN intent[s].asked - n ELSE 0
    PROVE  /\ SoldAtVenue' = SoldAtVenue - venue[s].filled + n
           /\ Offered' = Offered + off - (IF IsOpen(s) THEN intent[s].asked - venue[s].filled ELSE 0)
           /\ SoldAtVenue \in Nat /\ Offered \in Nat /\ SoldAtVenue' \in Nat
           /\ venue[s].filled \in Nat /\ intent[s].asked \in Nat /\ n \in Nat
<1> DEFINE f == [o \in Sells |-> venue[o].filled]
           g == [o \in Sells |-> venue'[o].filled]
           x == [o \in Sells |-> IF IsOpen(o) THEN intent[o].asked - venue[o].filled ELSE 0]
           y == [o \in Sells |-> IF venue'[o].at = "open" THEN intent[o].asked - venue'[o].filled ELSE 0]
<1>1. /\ f \in [Sells -> Nat] /\ x \in [Sells -> Nat]
      /\ SoldAtVenue \in Nat /\ Offered \in Nat
  BY SumTypes DEF IInv
<1>2. /\ n \in Nat /\ intent[s].asked \in Nat /\ venue[s].filled \in Nat
  BY Bounds DEF VenueOrder, Intent, IInv, Types
<1>3. g \in [Sells -> Nat] /\ \A o \in Sells : o # s => g[o] = f[o]
  BY <1>1, <1>2
<1>4. y \in [Sells -> Nat] /\ \A o \in Sells : o # s => y[o] = x[o]
  <2>1. \A o \in Sells : o # s => y[o] = x[o]
    BY DEF IsOpen
  <2>2. y[s] \in Nat
    OBVIOUS
  <2>3. \A o \in Sells : y[o] \in Nat
    BY <1>1, <2>1, <2>2
  <2> QED
    BY <2>1, <2>3
<1>5. /\ f[s] = venue[s].filled /\ g[s] = n /\ y[s] = off
      /\ x[s] = IF IsOpen(s) THEN intent[s].asked - venue[s].filled ELSE 0
  OBVIOUS
<1>6. SoldAtVenue = Total(f) /\ SoldAtVenue' = Total(g) /\ Offered = Total(x) /\ Offered' = Total(y)
  BY DEF SoldAtVenue, Offered, IsOpen
<1> HIDE DEF f, g, x, y
<1>7. Total(g) = Total(f) - f[s] + g[s] /\ Total(y) = Total(x) - x[s] + y[s] /\ Total(g) \in Nat
  BY <1>1, <1>3, <1>4, TotalChange, TotalType
<1>8. x[s] \in Nat
  BY <1>1
<1> QED
  BY <1>1, <1>2, <1>5, <1>6, <1>7, <1>8

\* An order that is not decided moves, and the sums still fit.
LEMMA VenueMoves ==
    ASSUME IInv, UNCHANGED <<rows, seller, run>>, memory' = memory, NEW s \in Sells,
           venue[s].at \in {"sent", "open"},
           venue' \in [Sells -> VenueOrder],
           \A o \in Sells : o # s => venue'[o] = venue[o],
           venue'[s].at \in {"open", "matched", "canceled", "dead"},
           venue[s].at = "open" \/ venue'[s].at # "canceled",
           venue'[s].at = "canceled" => intent[s].known,
           venue'[s].filled >= venue[s].filled,
           venue'[s].at = "dead" => venue'[s].filled = 0,
           venue'[s].at = "open" => /\ venue'[s].filled < intent[s].asked
                                    /\ IsTp(s) \/ venue'[s].filled = 0,
           venue'[s].shown = IF "late_trades" \in faults THEN venue[s].shown ELSE venue'[s].filled,
           SoldAtVenue' + Offered' <= Lot
    PROVE  IInv'
<1>1. /\ SellOK(s) /\ venue \in [Sells -> VenueOrder] /\ UNCHANGED <<position, intent, seller, run>>
      /\ faults' = faults /\ zero' = zero /\ hot' \in {"nothing", "latched", "unlatched"}
  BY HotStays DEF IInv, IntentsOK, Types, rows
<1>2. \A o \in Sells : (IsTp(o)' <=> IsTp(o)) /\ (Unknown(o)' <=> Unknown(o)) /\ (IsPending(o)' <=> IsPending(o))
  BY <1>1 DEF IsTp, Unknown, IsPending
<1>3. AtVenue' \subseteq AtVenue /\ s \in AtVenue
  BY <1>1 DEF AtVenue
<1>4. Types'
  BY <1>1 DEF IInv, Types
<1>5. IntentsOK'
  <2> SUFFICES ASSUME NEW o \in Sells PROVE SellOK(o)'
    BY DEF IntentsOK
  <2>1. SellOK(o)
    BY DEF IInv, IntentsOK
  <2>2. CASE o = s
    <3>1. /\ venue[s].shown \in Nat /\ venue[s].filled \in Nat /\ venue'[s].filled \in Nat
          /\ intent[s].filled \in Nat /\ intent[s].fills \in Nat /\ run.trades[s] \in Nat
      BY <1>1, Bounds DEF VenueOrder, IInv, Types, Intent, Runs
    <3> QED
      BY <1>1, <1>2, <2>1, <2>2, <3>1 DEF SellOK
  <2>3. CASE o # s
    BY <1>1, <1>2, <2>1, <2>3 DEF SellOK
  <2> QED
    BY <2>2, <2>3
<1>6. Sums'
  BY <1>1 DEF IInv, Sums
<1>7. SellerOK'
  <2>1. position \in Position /\ Onward(position, position')
    BY <1>1, KindredOnward, KindredSelf DEF IInv, Types
  <2> QED
    BY <1>1, <2>1, SellerKept
<1>8. ZeroOK'
  <2>1. ZeroOK
    BY DEF IInv
  <2>2. /\ \A o \in Sells : Unknown(o)' => "lost_reply" \in faults /\ venue'[o].at # "none"
        /\ zero # None => \E o \in Sells : Unknown(o)' /\ venue'[o].at \notin {"none", "sent"}
    BY <1>2, <2>1 DEF ZeroOK
  <2>3. \A o \in Sells : Observed(o)' => Observed(o) /\ o # s
    <3> SUFFICES ASSUME NEW o \in Sells, Observed(o)' PROVE Observed(o) /\ o # s
      OBVIOUS
    <3>1. Observed(o)
      BY <1>1, <1>2 DEF Observed
    <3>2. PICK w \in Sells : Unknown(w) /\ venue[w].at \notin {"none", "sent"}
      BY <2>1, <3>1 DEF ZeroOK, Observed
    <3>3. o = w
      BY <2>1, <3>1, <3>2 DEF ZeroOK, Observed
    <3>4. venue[o].at \notin {"sent", "open"}
      BY <2>1, <3>1, <3>2, <3>3 DEF ZeroOK
    <3> QED
      BY <3>1, <3>4
  <2>4. \A o \in Sells : Observed(o)' =>
          /\ venue'[o].at # "open"
          /\ "late_trades" \notin faults /\ run.trades[o] = 0 => venue'[o].filled = 0
    BY <2>1, <2>3 DEF ZeroOK
  <2>5. \A o \in run.todo : o \in Sells
    BY DEF IInv, Types, Runs
  <2>6. \A o \in Sells : ListedUnknown(o)' <=> ListedUnknown(o)
    BY <1>1 DEF ListedUnknown
  <2>7. seller.pc \in Selling /\ ~IsTp(seller.sell)' => \A o \in Sells : ~Unknown(o)
    BY <1>1, <2>1 DEF ZeroOK, IsTp
  <2> QED
    BY <1>1, <1>2, <2>1, <2>2, <2>4, <2>5, <2>6, <2>7 DEF ZeroOK
<1>9. OneSell'
  <2>1. \A o \in Sells : ExitAtVenue(o)' => ExitAtVenue(o)
    BY <1>2, <1>3 DEF ExitAtVenue
  <2>2. NoExitAtVenue => NoExitAtVenue'
    BY <2>1 DEF NoExitAtVenue
  <2>3. IsTp(seller.sell)' <=> IsTp(seller.sell)
    BY <1>1 DEF IsTp
  <2> QED
    BY <1>1, <1>2, <2>1, <2>2, <2>3 DEF IInv, OneSell
<1>10. LinksOK'
  <2>1. ASSUME NEW o, Kept(o) PROVE Kept(o)'
    BY <1>1, <1>2, <2>1 DEF Kept
  <2>2. \A o \in AtVenue : o \in Sells
    BY DEF AtVenue
  <2>3. seller.pc \in Selling /\ IsTp(seller.sell)' => Kept(seller.sell)
    BY <1>1 DEF IInv, LinksOK, IsTp
  <2>4. seller.pc \in Selling /\ IsTp(seller.sell)' => Kept(seller.sell)'
    BY <1>1, <1>2, <2>3 DEF Kept
  <2> QED
    BY <1>1, <1>2, <1>3, <2>1, <2>2, <2>4 DEF IInv, LinksOK, LinksAreKept
<1>11. Finals'
  BY <1>1, <1>3 DEF IInv, Finals
<1> QED
  BY <1>4, <1>5, <1>6, <1>7, <1>8, <1>9, <1>10, <1>11 DEF IInv

\* What At makes of an order
LEMMA AtIs ==
    ASSUME IInv, NEW s \in Sells, NEW at \in {"open", "matched", "canceled", "dead"},
           NEW n \in 0..Lot, At(s, at, n)
    PROVE  /\ venue' \in [Sells -> VenueOrder]
           /\ venue'[s].at = at /\ venue'[s].filled = n
           /\ venue'[s].shown = IF "late_trades" \in faults THEN venue[s].shown ELSE n
           /\ \A o \in Sells : o # s => venue'[o] = venue[o]
           /\ UNCHANGED <<rows, seller, run>> /\ memory' = memory
  BY DEF At, IInv, Types, VenueOrder

LEMMA VenueFits ==
    ASSUME IInv, NEW s \in Sells, NEW at \in {"open", "matched", "canceled", "dead"},
           NEW n \in Nat, At(s, at, n), n <= intent[s].asked,
           venue[s].at \in {"sent", "open"},
           venue[s].at = "sent" => n = 0 \/ intent[s].asked <= Owned - Offered,
           venue[s].at = "sent" /\ at = "open" => intent[s].asked <= Owned - Offered
    PROVE  n \in 0..Lot /\ SoldAtVenue' + Offered' <= Lot
<1>1. n \in 0..Lot /\ intent[s].asked \in 0..Lot
  BY Bounds DEF IInv, Types, Intent
<1>2. /\ venue' \in [Sells -> VenueOrder] /\ venue'[s].at = at /\ venue'[s].filled = n
      /\ \A o \in Sells : o # s => venue'[o] = venue[o]
      /\ UNCHANGED <<position, intent>>
  BY <1>1, AtIs DEF rows
<1> DEFINE off == IF at = "open" THEN intent[s].asked - n ELSE 0
<1>3. off \in Nat /\ off = IF venue'[s].at = "open" THEN intent[s].asked - n ELSE 0
  BY <1>1, <1>2
<1>4. /\ SoldAtVenue' = SoldAtVenue - venue[s].filled + n
      /\ Offered' = Offered + off - (IF IsOpen(s) THEN intent[s].asked - venue[s].filled ELSE 0)
      /\ SoldAtVenue \in Nat /\ Offered \in Nat
      /\ venue[s].filled \in Nat /\ intent[s].asked \in Nat
  <2> HIDE DEF off
  <2> QED
    BY <1>2, <1>3, VenueSums
<1>5. SoldAtVenue + Offered <= Lot /\ (venue[s].at = "sent" => venue[s].filled = 0)
  BY DEF IInv, Sums, IntentsOK, SellOK
<1>6. CASE venue[s].at = "open"
  BY <1>1, <1>4, <1>5, <1>6, Bounds DEF IsOpen
<1>7. CASE venue[s].at = "sent"
  BY <1>1, <1>4, <1>5, <1>7, Bounds DEF IsOpen, Owned
<1> QED
  BY <1>1, <1>6, <1>7

LEMMA ArriveKeeps ==
    ASSUME IInv, NEW s \in Sells, Arrive(s)
    PROVE  IInv'
<1>1. /\ venue[s].at = "sent" /\ SellOK(s) /\ venue[s].filled = 0
      /\ intent[s].state # "none" /\ intent[s].asked \in 0..Lot /\ intent[s].asked >= 1
  BY DEF Arrive, IInv, IntentsOK, SellOK, Types, Intent
<1>2. PICK at \in {"open", "matched", "dead"}, n \in Nat :
          /\ At(s, at, n) /\ n <= intent[s].asked
          /\ at \in {"open", "dead"} => n = 0
          /\ at # "dead" => intent[s].asked <= Owned - Offered
  BY <1>1, Bounds DEF Arrive
<1>3. n \in 0..Lot /\ SoldAtVenue' + Offered' <= Lot
  BY <1>1, <1>2, VenueFits
<1>4. /\ venue' \in [Sells -> VenueOrder]
      /\ venue'[s].at = at /\ venue'[s].filled = n
      /\ venue'[s].shown = IF "late_trades" \in faults THEN venue[s].shown ELSE n
      /\ \A o \in Sells : o # s => venue'[o] = venue[o]
      /\ UNCHANGED <<rows, seller, run>> /\ memory' = memory
  BY <1>2, <1>3, AtIs
<1> QED
  BY <1>1, <1>2, <1>3, <1>4, VenueMoves

LEMMA FillKeeps ==
    ASSUME IInv, NEW s \in Sells, Fill(s) \/ CancelArrives(s)
    PROVE  IInv'
<1>1. /\ venue[s].at = "open" /\ SellOK(s) /\ venue[s].filled \in Nat
      /\ intent[s].asked \in 0..Lot /\ venue[s].filled < intent[s].asked
      /\ IsTp(s) \/ venue[s].filled = 0
  BY Bounds DEF Fill, CancelArrives, IsOpen, IInv, IntentsOK, SellOK, Types, Intent, VenueOrder
<1>2. PICK at \in {"open", "matched", "canceled", "dead"}, n \in Nat :
          /\ At(s, at, n) /\ n <= intent[s].asked /\ n >= venue[s].filled
          /\ at = "dead" => n = 0
          /\ at = "open" => n < intent[s].asked /\ IsTp(s)
          /\ at = "canceled" => intent[s].known
  <2>1. CASE CancelArrives(s)
    BY <1>1, <2>1, Bounds DEF CancelArrives
  <2>2. CASE Fill(s) /\ IsTp(s)
    <3> DEFINE n == venue[s].filled + 1
               at == IF n = intent[s].asked THEN "matched" ELSE "open"
    <3>1. At(s, at, n)
      BY <2>2 DEF Fill
    <3>2. /\ n \in Nat /\ n <= intent[s].asked /\ n >= venue[s].filled
          /\ at \in {"open", "matched"}
          /\ at = "open" => n < intent[s].asked
      BY <1>1, Bounds
    <3> HIDE DEF n, at
    <3> QED
      BY <2>2, <3>1, <3>2
  <2>3. CASE Fill(s) /\ ~IsTp(s)
    <3>1. PICK n \in 0..intent[s].asked : At(s, IF n = 0 THEN "dead" ELSE "matched", n)
      BY <2>3 DEF Fill
    <3> DEFINE at == IF n = 0 THEN "dead" ELSE "matched"
    <3>2. /\ At(s, at, n) /\ n \in Nat /\ n <= intent[s].asked /\ n >= venue[s].filled
          /\ at \in {"dead", "matched"} /\ (at = "dead" => n = 0)
      BY <1>1, <2>3, <3>1, Bounds
    <3> HIDE DEF at
    <3> QED
      BY <3>2
  <2> QED
    BY <2>1, <2>2, <2>3
<1>3. n \in 0..Lot /\ SoldAtVenue' + Offered' <= Lot
  BY <1>1, <1>2, VenueFits
<1>4. /\ venue' \in [Sells -> VenueOrder]
      /\ venue'[s].at = at /\ venue'[s].filled = n
      /\ venue'[s].shown = IF "late_trades" \in faults THEN venue[s].shown ELSE n
      /\ \A o \in Sells : o # s => venue'[o] = venue[o]
      /\ UNCHANGED <<rows, seller, run>> /\ memory' = memory
  BY <1>2, <1>3, AtIs
<1> QED
  BY <1>1, <1>2, <1>3, <1>4, VenueMoves

LEMMA ShowKeeps ==
    ASSUME IInv, NEW s \in Sells, Show(s)
    PROVE  IInv'
<1>1. /\ SellOK(s) /\ venue \in [Sells -> VenueOrder] /\ UNCHANGED <<position, intent, seller, run>>
      /\ faults' = faults /\ zero' = zero /\ hot' \in {"nothing", "latched", "unlatched"}
      /\ venue' = [venue EXCEPT ![s].shown = venue[s].filled]
      /\ memory' = memory
  BY HotStays DEF IInv, IntentsOK, Types, rows, Show
<1>2. /\ venue' \in [Sells -> VenueOrder]
      /\ \A o \in Sells : venue'[o].at = venue[o].at /\ venue'[o].filled = venue[o].filled
      /\ \A o \in Sells : o # s => venue'[o] = venue[o]
      /\ venue'[s].shown = venue[s].filled
  BY <1>1 DEF VenueOrder
<1>3. \A o \in Sells : (IsTp(o)' <=> IsTp(o)) /\ (Unknown(o)' <=> Unknown(o)) /\ (IsPending(o)' <=> IsPending(o))
  BY <1>1 DEF IsTp, Unknown, IsPending
<1>4. AtVenue' = AtVenue
  BY <1>2 DEF AtVenue
<1>5. Types'
  BY <1>1, <1>2 DEF IInv, Types
<1>6. IntentsOK'
  <2> SUFFICES ASSUME NEW o \in Sells PROVE SellOK(o)'
    BY DEF IntentsOK
  <2>1. SellOK(o)
    BY DEF IInv, IntentsOK
  <2>2. CASE o = s
    <3>1. /\ venue[s].shown \in Nat /\ venue[s].filled \in Nat
          /\ intent[s].filled \in Nat /\ intent[s].fills \in Nat /\ run.trades[s] \in Nat
      BY <1>1, Bounds DEF VenueOrder, IInv, Types, Intent, Runs
    <3> QED
      BY <1>1, <1>2, <1>3, <2>1, <2>2, <3>1 DEF SellOK
  <2>3. CASE o # s
    BY <1>1, <1>2, <1>3, <2>1, <2>3 DEF SellOK
  <2> QED
    BY <2>2, <2>3
<1>7. Sums'
  <2>1. SoldAtVenue' = SoldAtVenue
    BY <1>2 DEF SoldAtVenue
  <2>2. Offered' = Offered
    <3>1. \A o \in Sells : (IF IsOpen(o) THEN intent[o].asked - venue[o].filled ELSE 0)'
              = IF IsOpen(o) THEN intent[o].asked - venue[o].filled ELSE 0
      BY <1>1, <1>2 DEF IsOpen
    <3> QED
      BY <3>1 DEF Offered
  <2> QED
    BY <1>1, <2>1, <2>2 DEF IInv, Sums
<1>8. SellerOK'
  <2>1. position \in Position /\ Onward(position, position')
    BY <1>1, KindredOnward, KindredSelf DEF IInv, Types
  <2> QED
    BY <1>1, <1>2, <2>1, SellerKept
<1>9. ZeroOK'
  <2>1. \A o \in Sells : /\ Observed(o)' <=> Observed(o)
                         /\ ListedUnknown(o)' <=> ListedUnknown(o)
    BY <1>1, <1>3 DEF Observed, ListedUnknown
  <2>2. seller.pc \in Selling /\ ~IsTp(seller.sell)' => \A o \in Sells : ~Unknown(o)
    BY <1>1 DEF IInv, ZeroOK, IsTp
  <2>3. ZeroOK /\ \A o \in run.todo : o \in Sells
    BY DEF IInv, Types, Runs
  <2> QED
    BY <1>1, <1>2, <1>3, <2>1, <2>2, <2>3 DEF ZeroOK
<1>10. OneSell'
  <2>1. \A o \in Sells : ExitAtVenue(o)' <=> ExitAtVenue(o)
    BY <1>3, <1>4 DEF ExitAtVenue
  <2>2. NoExitAtVenue <=> NoExitAtVenue'
    BY <2>1 DEF NoExitAtVenue
  <2>3. IsTp(seller.sell)' <=> IsTp(seller.sell)
    BY <1>1 DEF IsTp
  <2> QED
    BY <1>1, <1>3, <2>1, <2>2, <2>3 DEF IInv, OneSell
<1>11. LinksOK'
  <2>1. ASSUME NEW o, Kept(o) PROVE Kept(o)'
    BY <1>1, <1>2, <1>3, <2>1 DEF Kept
  <2>2. \A o \in AtVenue : o \in Sells
    BY DEF AtVenue
  <2>3. seller.pc \in Selling /\ IsTp(seller.sell)' => Kept(seller.sell)
    BY <1>1 DEF IInv, LinksOK, IsTp
  <2>4. seller.pc \in Selling /\ IsTp(seller.sell)' => Kept(seller.sell)'
    BY <1>1, <1>2, <1>3, <2>3 DEF Kept
  <2> QED
    BY <1>1, <1>3, <1>4, <2>1, <2>2, <2>4 DEF IInv, LinksOK, LinksAreKept
<1>12. Finals'
  BY <1>1, <1>2, <1>4 DEF IInv, Finals
<1> QED
  BY <1>5, <1>6, <1>7, <1>8, <1>9, <1>10, <1>11, <1>12 DEF IInv

LEMMA VenueKeeps ==
    ASSUME IInv, VenueStep
    PROVE  IInv'
  BY ArriveKeeps, FillKeeps, ShowKeeps DEF VenueStep

LEMMA CrashKeeps ==
    ASSUME IInv, Crash
    PROVE  IInv'
<1>1. /\ seller' = IdleSeller /\ run' = IdleRun /\ zero' = None /\ hot' = "nothing"
      /\ UNCHANGED <<position, intent, venue, faults>> /\ "crash" \in faults
  BY DEF Crash, rows
<1>2. /\ seller' \in Sellers /\ seller'.pc = "idle"
  BY <1>1 DEF IdleSeller, Sellers, Phases
<1>3. /\ run' \in Runs /\ run'.pc = "idle" /\ run'.open = {} /\ run'.todo = {}
      /\ \A o \in Sells : run'.trades[o] = 0 /\ ~run'.listed[o].known
  <2>1. NoIntent \in Intent /\ ~NoIntent.known
    BY Bounds DEF NoIntent, Intent, Purposes
  <2>2. 0 \in 0..Lot
    BY Bounds
  <2> HIDE DEF NoIntent
  <2> QED
    BY <1>1, <2>1, <2>2 DEF IdleRun, Runs
<1>4. \A o \in Sells : (IsTp(o)' <=> IsTp(o)) /\ (Unknown(o)' <=> Unknown(o)) /\ (IsPending(o)' <=> IsPending(o))
  BY <1>1 DEF IsTp, Unknown, IsPending
<1>5. Types'
  BY <1>1, <1>2, <1>3 DEF IInv, Types
<1>6. IntentsOK'
  <2> SUFFICES ASSUME NEW o \in Sells PROVE SellOK(o)'
    BY DEF IntentsOK
  <2>1. SellOK(o) /\ venue[o].shown \in Nat
    BY Bounds DEF IInv, IntentsOK, Types, VenueOrder
  <2> QED
    BY <1>1, <1>3, <1>4, <2>1 DEF SellOK
<1>7. Sums'
  <2>1. SoldAtVenue' = SoldAtVenue /\ Offered' = Offered
    BY <1>1 DEF SoldAtVenue, Offered, IsOpen
  <2> QED
    BY <1>1, <2>1 DEF IInv, Sums
<1>8. SellerOK'
  BY <1>1, <1>2 DEF IInv, SellerOK, Working, Selling, Cancelling
<1>9. ZeroOK'
  BY <1>1, <1>2, <1>3, <1>4 DEF IInv, ZeroOK, Observed, Selling
<1>10. OneSell'
  BY <1>1, <1>2, <1>4 DEF IInv, OneSell, ExitAtVenue, AtVenue
<1>11. LinksOK'
  <2>1. \A o \in AtVenue : o \in Sells
    BY DEF AtVenue
  <2>2. ASSUME NEW o, Kept(o) PROVE Kept(o)'
    BY <1>1, <1>4, <2>2 DEF Kept
  <2>3. AtVenue' = AtVenue
    BY <1>1 DEF AtVenue
  <2> QED
    BY <1>2, <1>4, <2>1, <2>2, <2>3 DEF IInv, LinksOK, LinksAreKept, Selling
<1>12. Finals'
  BY <1>1 DEF IInv, Finals, AtVenue
<1> QED
  BY <1>5, <1>6, <1>7, <1>8, <1>9, <1>10, <1>11, <1>12 DEF IInv

-----------------------------------------------------------------------------
(* The reconciliation run *)

LEMMA OffersSame ==
    ASSUME venue' = venue, \A o \in Sells : intent'[o].asked = intent[o].asked
    PROVE  SoldAtVenue' = SoldAtVenue /\ Offered' = Offered
<1>1. \A s \in Sells : (IF IsOpen(s) THEN intent[s].asked - venue[s].filled ELSE 0)'
                        = IF IsOpen(s) THEN intent[s].asked - venue[s].filled ELSE 0
  BY DEF IsOpen
<1> QED
  BY <1>1 DEF SoldAtVenue, Offered

\* A step of the run that writes rows, while the coroutine with the lock is still
LEMMA RunKeeps ==
    ASSUME IInv, Step, seller' = seller, Types', IntentsOK', Sums', SellerOK', ZeroOK',
           \A o \in Sells : IsTp(o)' <=> IsTp(o),
           \A o \in Sells : /\ IsTp(o) /\ position.tp = o /\ position'.tp # o
                            /\ o \in AtVenue \/ ~intent[o].known
                => Kept(o)'
    PROVE  IInv'
<1>1. seller.pc \in Selling => seller.sell \in Sells /\ ~intent[seller.sell].known
  BY DEF IInv, SellerOK, SellingOK
<1>2. OneSell'
  <2>1. seller'.pc = "posting" => seller' = seller /\ (IsTp(seller.sell)' <=> IsTp(seller.sell))
    BY <1>1 DEF Selling
  <2> QED
    BY <2>1, OneSellKept, WorkingKnows
<1>3. seller'.pc \in Selling /\ IsTp(seller.sell)' => Kept(seller.sell)'
  <2> SUFFICES ASSUME seller.pc \in Selling, IsTp(seller.sell)'
               PROVE  Kept(seller.sell)'
    OBVIOUS
  <2>1. PICK s \in Sells : s = seller.sell
    BY <1>1
  <2>2. IsTp(s) /\ ~intent[s].known /\ Kept(s)
    BY <1>1, <2>1 DEF IInv, LinksOK
  <2>3. Kept(s)'
    BY <2>2, KeptStays
  <2> QED
    BY <2>1, <2>3
<1>4. LinksOK'
  <2>1. \A o \in AtVenue : IsTp(o) /\ position.tp = o /\ position'.tp # o => Kept(o)'
    BY DEF AtVenue
  <2> QED
    BY <1>3, <2>1, LinksKept
<1> QED
  BY <1>2, <1>4, StepIs DEF IInv

\* A step of the run that only reads
LEMMA ReadingKeeps ==
    ASSUME IInv, UNCHANGED <<rows, seller, venue, faults>>,
           hot' \in {"nothing", "latched", "unlatched"}, run' \in Runs,
           \A o \in Sells : /\ run'.trades[o] <= venue[o].shown
                            /\ run'.listed[o].known => intent[o].known
                            /\ o \in run'.todo => run'.listed[o].filled = intent[o].filled,
           ZeroOK'
    PROVE  IInv'
<1>1. UNCHANGED <<position, intent, seller, venue, faults>> /\ position \in Position
  BY DEF IInv, Types, rows
<1>2. Onward(position, position')
  BY <1>1, KindredSelf, KindredOnward
<1>3. Step
  BY <1>1, <1>2, SameIsLawful DEF Step
<1>4. Types'
  BY <1>1 DEF IInv, Types
<1>5. IntentsOK'
  <2> SUFFICES ASSUME NEW o \in Sells PROVE SellOK(o)'
    BY DEF IntentsOK
  <2>1. SellOK(o)
    BY DEF IInv, IntentsOK
  <2> QED
    BY <1>1, <2>1 DEF SellOK, IsTp
<1>6. Sums'
  <2>1. Calm
    BY <1>1 DEF Calm
  <2> QED
    BY <2>1, CalmKeepsSums DEF IInv
<1>7. SellerOK'
  BY <1>1, <1>2, SellerKept
<1> QED
  BY <1>1, <1>3, <1>4, <1>5, <1>6, <1>7, RunKeeps DEF IsTp

\* The run passes over a sell, or writes the rows of one whose order is known.
LEMMA ZeroRuns ==
    ASSUME IInv, Step, zero' = zero, seller' = seller,
           \A o \in Sells : (Unknown(o)' <=> Unknown(o)) /\ (IsTp(o)' <=> IsTp(o)),
           \A o \in Sells : Observed(o)' => Observed(o) /\ run'.trades[o] = run.trades[o],
           run'.todo \subseteq run.todo, run'.listed = run.listed,
           run'.todo # {} => run'.pc = "intents"
    PROVE  ZeroOK'
<1>1. ZeroOK /\ venue' = venue /\ faults' = faults
  BY DEF IInv, Step
<1>2. \A o \in run'.todo : /\ o \in Sells /\ intent'[o].state # "none"
                           /\ ListedUnknown(o)' <=> ListedUnknown(o)
                           /\ ListedUnknown(o) /\ ~IsTp(o) => Unknown(o)
  BY <1>1 DEF ZeroOK, Step, Lawful, ListedUnknown, IInv, Types, Runs
<1>3. seller.pc \in Selling /\ ~IsTp(seller.sell)' => \A o \in Sells : ~Unknown(o)
  <2>1. seller.pc \in Selling => seller.sell \in Sells
    BY DEF IInv, SellerOK, SellingOK
  <2> QED
    BY <1>1, <2>1 DEF ZeroOK
<1> QED
  BY <1>1, <1>2, <1>3 DEF ZeroOK

LEMMA DoneIs ==
    ASSUME IInv, NEW s \in Sells, NEW gap \in BOOLEAN, Done(s, gap)
    PROVE  /\ run' \in Runs /\ run'.todo = run.todo \ {s} /\ run'.listed = run.listed
           /\ run'.trades = run.trades /\ run'.pc = run.pc /\ run'.open = run.open
  BY DEF IInv, Types, Runs, Done

\* What is known of a sell the run has listed
LEMMA ListedIs ==
    ASSUME IInv, NEW s \in Sells, Listed(s)
    PROVE  /\ run.pc = "intents" /\ s \in run.todo /\ intent[s].state # "none"
           /\ run.listed[s].filled = intent[s].filled
           /\ run.listed[s].known => intent[s].known /\ venue[s].at \notin {"none", "sent"}
           /\ ListedUnknown(s) /\ ~IsTp(s) => Unknown(s)
  BY DEF Listed, IInv, ZeroOK, IntentsOK, SellOK

LEMMA PassKeeps ==
    ASSUME IInv, UNCHANGED <<rows, seller, venue>>, memory' = memory,
           NEW s \in Sells, NEW gap \in BOOLEAN, Done(s, gap), run.pc = "intents"
    PROVE  IInv'
<1>1. /\ run' \in Runs /\ run'.todo = run.todo \ {s} /\ run'.listed = run.listed
      /\ run'.trades = run.trades /\ run'.pc = run.pc /\ run'.open = run.open
  BY DoneIs
<1>2. /\ UNCHANGED <<position, intent, seller, venue, faults, zero>> /\ position \in Position
      /\ hot' \in {"nothing", "latched", "unlatched"}
  BY HotStays DEF IInv, Types, rows
<1>3. Step
  <2>1. Onward(position, position')
    BY <1>2, KindredSelf, KindredOnward
  <2> QED
    BY <1>2, <2>1, SameIsLawful DEF Step
<1>4. \A o \in Sells : (Unknown(o)' <=> Unknown(o)) /\ (IsTp(o)' <=> IsTp(o))
  BY <1>2 DEF Unknown, IsTp
<1>5. \A o \in Sells : Observed(o)' => Observed(o)
  BY <1>1, <1>2, <1>4 DEF Observed
<1>6. ZeroOK'
  BY <1>1, <1>2, <1>3, <1>4, <1>5, ZeroRuns
<1>7. \A o \in Sells : /\ run'.trades[o] <= venue[o].shown
                       /\ run'.listed[o].known => intent[o].known
                       /\ o \in run'.todo => run'.listed[o].filled = intent[o].filled
  BY <1>1 DEF IInv, IntentsOK, SellOK
<1> QED
  BY <1>1, <1>2, <1>6, <1>7, ReadingKeeps

LEMMA UnidentifiedKeeps ==
    ASSUME IInv, NEW s \in Sells, Unidentified(s) \/ Unreadable(s)
    PROVE  IInv'
<1>1. /\ UNCHANGED <<rows, seller, venue>> /\ memory' = memory /\ run.pc = "intents"
      /\ \E gap \in BOOLEAN : Done(s, gap)
  BY ListedIs DEF Unidentified, Unreadable
<1> QED
  BY <1>1, PassKeeps

LEMMA ReadOrdersKeeps ==
    ASSUME IInv, ReadOrders
    PROVE  IInv'
<1>1. /\ UNCHANGED <<position, intent, seller, venue, faults, zero>> /\ UNCHANGED rows
      /\ hot' \in {"nothing", "latched", "unlatched"}
      /\ run' = [IdleRun EXCEPT !.pc = "orders",
                   !.open = {s \in Sells : IsOpen(s)},
                   !.trades = [s \in Sells |-> venue[s].shown],
                   !.serves = seller.pc \in {"clearing", "reconciling"}]
  BY HotStays DEF ReadOrders, rows
<1>2. /\ run' \in Runs /\ run'.pc = "orders" /\ run'.open = {s \in Sells : IsOpen(s)}
      /\ \A o \in Sells : run'.trades[o] = venue[o].shown /\ ~run'.listed[o].known
      /\ run'.todo = {}
  <2>1. NoIntent \in Intent /\ ~NoIntent.known
    BY Bounds DEF NoIntent, Intent, Purposes
  <2> DEFINE open == {s \in Sells : IsOpen(s)}
             trades == [s \in Sells |-> venue[s].shown]
             serves == seller.pc \in {"clearing", "reconciling"}
  <2>2. open \subseteq Sells /\ trades \in [Sells -> 0..Lot] /\ serves \in BOOLEAN /\ 0 \in 0..Lot
    BY Bounds DEF IInv, Types, VenueOrder
  <2>3. \A o \in Sells : trades[o] = venue[o].shown
    OBVIOUS
  <2>4. run' = [IdleRun EXCEPT !.pc = "orders", !.open = open, !.trades = trades, !.serves = serves]
    BY <1>1
  <2> HIDE DEF open, trades, serves, NoIntent
  <2>5. /\ run' \in Runs /\ run'.pc = "orders" /\ run'.open = open /\ run'.trades = trades
        /\ \A o \in Sells : ~run'.listed[o].known
        /\ run'.todo = {}
    BY <2>1, <2>2, <2>4 DEF IdleRun, Runs
  <2> QED
    BY <2>3, <2>5 DEF open
<1>3. \A o \in Sells : (Unknown(o)' <=> Unknown(o)) /\ (IsTp(o)' <=> IsTp(o))
  BY <1>1 DEF Unknown, IsTp
<1>4. ASSUME NEW o \in Sells, Observed(o)'
      PROVE  /\ venue[o].at # "open"
             /\ "late_trades" \notin faults /\ run'.trades[o] = 0 => venue[o].filled = 0
  <2>1. venue[o].at # "open"
    BY <1>2, <1>4 DEF Observed, IsOpen
  <2>2. "late_trades" \notin faults => venue[o].shown = venue[o].filled
    BY DEF IInv, IntentsOK, SellOK
  <2> QED
    BY <1>2, <2>1, <2>2
<1>5. seller.pc \in Selling /\ ~IsTp(seller.sell)' => \A o \in Sells : ~Unknown(o)
  BY <1>1 DEF IInv, ZeroOK, IsTp
<1>6. ZeroOK'
  BY <1>1, <1>2, <1>3, <1>4, <1>5 DEF IInv, ZeroOK
<1>7. \A o \in Sells : run'.trades[o] <= venue[o].shown
  BY <1>2, Bounds DEF IInv, Types, VenueOrder
<1> QED
  BY <1>1, <1>2, <1>6, <1>7, ReadingKeeps

LEMMA ListIntentsKeeps ==
    ASSUME IInv, ListIntents
    PROVE  IInv'
<1> DEFINE todo == {s \in Sells : IsPending(s)}
           listed == [s \in Sells |-> IF IsPending(s) THEN intent[s] ELSE NoIntent]
           gaps == run.gaps /\ position.remaining # Owned
<1>1. /\ UNCHANGED <<position, intent, seller, venue, faults, zero>> /\ UNCHANGED rows
      /\ hot' \in {"nothing", "latched", "unlatched"} /\ run.pc = "positions" /\ run \in Runs
      /\ run' = [run EXCEPT !.pc = "intents", !.gaps = gaps, !.todo = todo, !.listed = listed]
  BY HotStays DEF ListIntents, rows, IInv, Types
<1>2. /\ todo \subseteq Sells /\ listed \in [Sells -> Intent] /\ gaps \in BOOLEAN
      /\ \A o \in Sells : (listed[o].known => intent[o].known) /\ (o \in todo => listed[o] = intent[o])
  <2>1. NoIntent \in Intent /\ ~NoIntent.known
    BY Bounds DEF NoIntent, Intent, Purposes
  <2> HIDE DEF NoIntent
  <2> QED
    BY <2>1 DEF IInv, Types
<1>3. \A o \in todo : intent[o].state # "none" /\ o \in Sells
  BY DEF IsPending, Pending
<1> HIDE DEF todo, listed, gaps
<1>4. /\ run' \in Runs /\ run'.pc = "intents" /\ run'.open = run.open /\ run'.trades = run.trades
      /\ run'.todo = todo /\ run'.listed = listed
  BY <1>1, <1>2 DEF Runs
<1>5. \A o \in Sells : (Unknown(o)' <=> Unknown(o)) /\ (IsTp(o)' <=> IsTp(o))
  BY <1>1 DEF Unknown, IsTp
<1>6. \A o \in Sells : Observed(o)' => Observed(o)
  BY <1>1, <1>4, <1>5 DEF Observed
<1>7. \A o \in todo : ListedUnknown(o)' /\ ~IsTp(o) => Unknown(o)
  BY <1>2, <1>3, <1>4 DEF ListedUnknown, Unknown
<1>8. seller.pc \in Selling /\ ~IsTp(seller.sell)' => \A o \in Sells : ~Unknown(o)
  BY <1>1 DEF IInv, ZeroOK, IsTp
<1>9. ZeroOK'
  BY <1>1, <1>3, <1>4, <1>5, <1>6, <1>7, <1>8 DEF IInv, ZeroOK
<1>10. \A o \in Sells : /\ run'.trades[o] <= venue[o].shown
                        /\ run'.listed[o].known => intent[o].known
                        /\ o \in run'.todo => run'.listed[o].filled = intent[o].filled
  BY <1>2, <1>4 DEF IInv, IntentsOK, SellOK
<1> QED
  BY <1>1, <1>4, <1>9, <1>10, ReadingKeeps

\* A sell whose row a run repairs keeps its order, and nothing it is refused
\* for is forgotten.
LEMMA MakersStep ==
    ASSUME IInv, ReadPositions
    PROVE  /\ Step /\ Booked(position, position')
           /\ \A o \in Sells :
                /\ intent'[o] \in Intent
                /\ intent'[o].purpose = intent[o].purpose /\ intent'[o].known = intent[o].known
                /\ intent'[o].asked = intent[o].asked
                /\ intent'[o].fills <= venue[o].shown /\ intent'[o].filled <= intent'[o].fills
                /\ intent'[o].fills > 0 => intent[o].known
                /\ \/ intent'[o].state = intent[o].state
                   \/ /\ IsTp(o) /\ intent[o].known /\ intent[o].state # "none"
                      /\ intent'[o].state \in {"PARTIAL", "FILLED", "PARTIAL_FINAL"}
           /\ Ledger(position', intent') /\ intent' \in [Sells -> Intent]
<1>1. /\ Types /\ IntentsOK /\ Sums /\ position \in Position
      /\ venue' = venue /\ faults' = faults
  BY DEF IInv, Types, ReadPositions, memory
<1>2. MakersOK(MaxSells, MakersBooked[MaxSells])
  BY <1>1, MakersEnd
<1>3. /\ position' = MakersBooked[MaxSells].position /\ intent' = MakersBooked[MaxSells].intent
  BY DEF ReadPositions
<1>4. /\ intent' \in [Sells -> Intent] /\ Booked(position, position') /\ Ledger(position', intent')
      /\ \A s \in Sells :
        /\ intent'[s].purpose = intent[s].purpose
        /\ intent'[s].known = intent[s].known /\ intent'[s].asked = intent[s].asked
        /\ intent'[s].fills = WithFills[s].fills
        /\ intent'[s].filled \in {WithFills[s].fills, intent[s].filled}
        /\ \/ intent'[s].state = intent[s].state
           \/ /\ s \in Drifted(WithFills)
              /\ intent'[s].state \in {"PARTIAL", "FILLED", "PARTIAL_FINAL"}
  BY <1>2, <1>3 DEF MakersOK
<1>5. ASSUME NEW s \in Sells
      PROVE  /\ intent'[s].fills <= venue[s].shown /\ intent'[s].filled <= intent'[s].fills
             /\ intent'[s].fills > 0 => intent[s].known
             /\ s \in Drifted(WithFills) =>
                    IsTp(s) /\ intent[s].known /\ intent[s].state # "none"
  <2>1. /\ intent[s].filled \in Nat /\ intent[s].fills \in Nat /\ venue[s].shown \in Nat
        /\ WithFills[s].fills \in Nat
    BY <1>1, WithFillsIs, Bounds DEF Types, Intent, VenueOrder
  <2>2. /\ intent[s].filled <= intent[s].fills /\ (intent[s].fills > 0 => intent[s].known)
    BY <1>1 DEF IntentsOK, SellOK
  <2>3. /\ WithFills[s].fills <= venue[s].shown /\ WithFills[s].fills >= intent[s].fills
        /\ WithFills[s].fills # intent[s].fills => intent[s].known
        /\ WithFills[s].state = intent[s].state /\ WithFills[s].purpose = intent[s].purpose
        /\ WithFills[s].filled = intent[s].filled
    BY <1>1, WithFillsIs
  <2>4. s \in Drifted(WithFills) =>
            IsTp(s) /\ WithFills[s].fills > intent[s].filled /\ intent[s].state # "none"
    BY <2>3 DEF Drifted, IsTp
  <2> QED
    BY <1>4, <2>1, <2>2, <2>3, <2>4
<1>6. ASSUME NEW o \in Sells PROVE Lawful(o)
  <2>1. /\ intent'[o] \in Intent /\ intent'[o].purpose = intent[o].purpose
        /\ intent'[o].known = intent[o].known /\ intent'[o].asked = intent[o].asked
        /\ \/ intent'[o].state = intent[o].state
           \/ IsTp(o) /\ intent'[o].state \in {"PARTIAL", "FILLED", "PARTIAL_FINAL"}
    BY <1>4, <1>5
  <2>2. CASE intent'[o].state = intent[o].state
    BY <2>1, <2>2 DEF Lawful, IInv, Finals, OneSell, IsPending
  <2>3. CASE IsTp(o) /\ intent'[o].state \in {"PARTIAL", "FILLED", "PARTIAL_FINAL"}
    BY <2>1, <2>3 DEF Lawful, ExitAtVenue
  <2> QED
    BY <2>1, <2>2, <2>3
<1>7. Step
  BY <1>1, <1>4, <1>6, BookedOnward DEF Step
<1>8. \A o \in Sells :
        \/ intent'[o].state = intent[o].state
        \/ /\ IsTp(o) /\ intent[o].known /\ intent[o].state # "none"
           /\ intent'[o].state \in {"PARTIAL", "FILLED", "PARTIAL_FINAL"}
  BY <1>4, <1>5
<1> QED
  BY <1>4, <1>5, <1>7, <1>8

LEMMA ReadPositionsKeeps ==
    ASSUME IInv, ReadPositions
    PROVE  IInv'
<1> DEFINE feeds == IF "late_positions" \in faults THEN {0} \cup Owned..Lot ELSE {Owned}
           gaps == Drifted(WithFills) # {}
<1>1. /\ UNCHANGED <<seller, venue, faults, zero>> /\ run.pc = "orders" /\ run \in Runs
      /\ hot' \in {"nothing", "latched", "unlatched"} /\ seller \in Sellers
      /\ \E feed \in feeds :
            run' = [run EXCEPT !.pc = "positions", !.feed = feed, !.gaps = gaps]
  BY HotStays DEF ReadPositions, IInv, Types
<1>2. PICK feed \in feeds : run' = [run EXCEPT !.pc = "positions", !.feed = feed, !.gaps = gaps]
  BY <1>1
<1>3. feed \in 0..Lot /\ gaps \in BOOLEAN
  <2>1. Owned \in 0..Lot
    BY OwnedType DEF IInv
  <2> QED
    BY <2>1, Bounds
<1> HIDE DEF feeds, gaps
<1>4. /\ run' \in Runs /\ run'.todo = run.todo /\ run'.listed = run.listed
      /\ run'.trades = run.trades /\ run'.open = run.open /\ run'.pc = "positions"
  BY <1>1, <1>2, <1>3 DEF Runs
<1>5. run.todo = {}
  BY <1>1 DEF IInv, ZeroOK
<1>6. /\ Step /\ Booked(position, position')
      /\ \A o \in Sells :
           /\ intent'[o] \in Intent
           /\ intent'[o].purpose = intent[o].purpose /\ intent'[o].known = intent[o].known
           /\ intent'[o].asked = intent[o].asked
           /\ intent'[o].fills <= venue[o].shown /\ intent'[o].filled <= intent'[o].fills
           /\ intent'[o].fills > 0 => intent[o].known
           /\ \/ intent'[o].state = intent[o].state
              \/ /\ IsTp(o) /\ intent[o].known /\ intent[o].state # "none"
                 /\ intent'[o].state \in {"PARTIAL", "FILLED", "PARTIAL_FINAL"}
      /\ Ledger(position', intent') /\ intent' \in [Sells -> Intent]
  BY MakersStep
<1>7. \A o \in Sells : (Unknown(o)' <=> Unknown(o)) /\ (IsTp(o)' <=> IsTp(o))
  BY <1>6 DEF Unknown, IsTp
<1>8. Types'
  BY <1>1, <1>4, <1>6 DEF IInv, Types, Booked
<1>9. IntentsOK'
  <2> SUFFICES ASSUME NEW o \in Sells PROVE SellOK(o)'
    BY DEF IntentsOK
  <2>1. SellOK(o)
    BY DEF IInv, IntentsOK
  <2>2. intent[o].state = "none" => intent'[o].fills = 0
    <3>1. intent'[o].fills \in Nat
      BY <1>6, Bounds DEF Intent
    <3> QED
      BY <1>6, <2>1, <3>1 DEF SellOK
  <2> QED
    BY <1>1, <1>4, <1>5, <1>6, <2>1, <2>2 DEF SellOK, IsTp
<1>10. Sums'
  BY <1>1, <1>6, OffersSame DEF IInv, Sums
<1>11. SellerOK'
  <2>1. Onward(position, position') /\ position'.tp \in {position.tp, None}
        /\ position'.active \in {position.active, None}
    BY <1>6 DEF Step, Booked
  <2> QED
    BY <1>1, <1>6, <2>1, SellerKept
<1>12. ZeroOK'
  <2>1. \A o \in Sells : Observed(o)' => Observed(o)
    BY <1>1, <1>4, <1>7 DEF Observed
  <2> QED
    BY <1>1, <1>4, <1>5, <1>6, <1>7, <2>1, ZeroRuns
<1> QED
  BY <1>1, <1>6, <1>7, <1>8, <1>9, <1>10, <1>11, <1>12, RunKeeps DEF Booked, Kept

\* The run writes the row of one sell it has listed, whose order it knows.
LEMMA RunMoves ==
    ASSUME IInv, NEW s \in Sells, Listed(s), run.listed[s].known,
           UNCHANGED <<seller, venue, zero, faults>>,
           hot' \in {"nothing", "latched", "unlatched"},
           run' \in Runs, run'.todo = run.todo \ {s}, run'.listed = run.listed,
           run'.trades = run.trades, run'.pc = run.pc, run'.open = run.open,
           NEW i \in Intent, intent' = [intent EXCEPT ![s] = i],
           i.purpose = intent[s].purpose, i.known = intent[s].known,
           i.asked = intent[s].asked, i.fills = intent[s].fills, i.filled <= i.fills,
           i.state \notin {"none", "WAITING_SELLABLE", "ZERO_FILL"},
           i.state \in {"CANCELED", "FAILED"} => s \notin AtVenue,
           ExitAtVenue(s) => i.state \in Pending,
           Onward(position, position'),
           position'.tp \in {position.tp, None}, position'.active \in {position.active, None},
           Ledger(position', intent'),
           position'.tp # position.tp =>
                \/ Cut(position')
                \/ /\ venue[s].at \notin {"sent", "open"} /\ IsTp(s)
                   /\ position.tp = s \/ venue[s].at = "canceled"
    PROVE  IInv'
<1>1. /\ SellOK(s) /\ intent \in [Sells -> Intent] /\ intent[s].known
      /\ intent[s].state # "none"
      /\ intent' \in [Sells -> Intent] /\ intent'[s] = i
      /\ \A o \in Sells : o # s => intent'[o] = intent[o]
  BY ListedIs DEF IInv, Types, IntentsOK
<1>2. Lawful(s)
  BY <1>1 DEF Lawful
<1>3. Step
  BY <1>1, <1>2, SameIsLawful DEF Step
<1>4. \A o \in Sells : (Unknown(o)' <=> Unknown(o)) /\ (IsTp(o)' <=> IsTp(o))
  BY <1>1 DEF Unknown, IsTp
<1>5. Types'
  BY <1>1 DEF IInv, Types, Onward
<1>6. IntentsOK'
  <2> SUFFICES ASSUME NEW o \in Sells PROVE SellOK(o)'
    BY DEF IntentsOK
  <2>1. SellOK(o)
    BY DEF IInv, IntentsOK
  <2>2. CASE o = s
    BY <1>1, <1>4, <2>1, <2>2 DEF SellOK
  <2>3. CASE o # s
    BY <1>1, <1>4, <2>1, <2>3 DEF SellOK
  <2> QED
    BY <2>2, <2>3
<1>7. Sums'
  <2>1. \A o \in Sells : intent'[o].asked = intent[o].asked
    BY <1>1
  <2> QED
    BY <2>1, OffersSame DEF IInv, Sums
<1>8. SellerOK'
  <2>1. \A o \in Sells :
              /\ intent[o].state = "none" => intent'[o].state = "none"
              /\ intent[o].state # "none" => intent'[o].state # "none"
              /\ intent'[o].purpose = intent[o].purpose /\ intent'[o].known = intent[o].known
              /\ intent[o].state \in {"RESERVED", "SUBMITTING"} /\ ~intent[o].known
                    => intent'[o].state = intent[o].state
    BY <1>1
  <2> QED
    BY <2>1, SellerKept
<1>9. ZeroOK'
  <2>1. \A o \in Sells : Observed(o)' => Observed(o)
    BY <1>4 DEF Observed
  <2>2. run.pc = "intents"
    BY DEF Listed
  <2> QED
    BY <1>3, <1>4, <2>1, <2>2, ZeroRuns
<1>10. ASSUME NEW o \in Sells, IsTp(o), position.tp = o, position'.tp # o,
              o \in AtVenue \/ ~intent[o].known
       PROVE  Kept(o)'
  <2>1. CASE Cut(position')
    BY <2>1 DEF Kept
  <2>2. CASE /\ venue[s].at \notin {"sent", "open"} /\ IsTp(s)
             /\ position.tp = s \/ venue[s].at = "canceled"
    <3>1. o # s
      BY <1>1, <1>10, <2>2 DEF AtVenue
    <3> QED
      BY <1>4, <1>10, <2>2, <3>1 DEF Kept
  <2> QED
    BY <1>10, <2>1, <2>2
<1> QED
  BY <1>3, <1>4, <1>5, <1>6, <1>7, <1>8, <1>9, <1>10, RunKeeps

LEMMA SameLedger ==
    ASSUME IInv, NEW q \in Position, q.booked = position.booked,
           q.remaining = position.remaining, NEW j \in [Sells -> Intent],
           \A o \in Sells : j[o].filled = intent[o].filled
    PROVE  Ledger(q, j)
<1>1. FilledRows(j) = FilledRows(intent)
  BY DEF FilledRows
<1> QED
  BY <1>1 DEF IInv, Sums, Ledger

LEMMA FilledKeeps ==
    ASSUME IInv, NEW s \in Sells, Filled(s)
    PROVE  IInv'
<1> DEFINE fills == intent[s].fills
           final == FilledState(s, fills, StillOpen(s))
<1>1. /\ Listed(s) /\ run.listed[s].known /\ fills > 0 /\ Done(s, FALSE)
      /\ UNCHANGED <<seller, venue, zero, faults>> /\ memory' = memory
      /\ hot' \in {"nothing", "latched", "unlatched"}
  BY HotStays DEF Filled
<1>2. /\ run' \in Runs /\ run'.todo = run.todo \ {s} /\ run'.listed = run.listed
      /\ run'.trades = run.trades /\ run'.pc = run.pc /\ run'.open = run.open
  BY <1>1, DoneIs
<1>3. /\ intent \in [Sells -> Intent] /\ intent[s] \in Intent /\ position \in Position
      /\ SellOK(s) /\ venue[s] \in VenueOrder
      /\ intent[s].known /\ run.listed[s].filled = intent[s].filled
      /\ venue[s].at \notin {"none", "sent"} /\ intent[s].state # "none"
  BY <1>1, ListedIs DEF IInv, Types, IntentsOK
<1>4. ~ExitAtVenue(s)
  <2>1. venue[s].filled > 0
    BY <1>1, <1>3, Bounds DEF SellOK, Intent, VenueOrder
  <2> QED
    BY <1>3, <2>1 DEF SellOK, ExitAtVenue, AtVenue, IsTp
<1>5. /\ StillOpen(s) => final = "PARTIAL"
      /\ ~StillOpen(s) => final \in {"FILLED", "PARTIAL_FINAL"} /\ venue[s].at # "open"
  BY DEF FilledState, StillOpen, Seen
<1>6. final \in {"PARTIAL", "FILLED", "PARTIAL_FINAL"} /\ fills \in 0..Lot
  BY <1>3, <1>5 DEF Intent
<1>7. CASE /\ fills > run.listed[s].filled
           /\ position' = AfterFill(position, intent, s, fills, final)
           /\ intent' = [intent EXCEPT ![s] = BookedIntent(@, fills, final)]
  <2> DEFINE i == BookedIntent(intent[s], fills, final)
             j == [intent EXCEPT ![s] = i]
  <2>1. fills > intent[s].filled
    BY <1>3, <1>7
  <2>a. /\ i = [intent[s] EXCEPT !.state = final, !.filled = fills]
        /\ final \in Final \cup Pending
    BY <1>6, <2>1 DEF BookedIntent, Final, Pending
  <2> HIDE DEF final, fills, i
  <2>2. /\ i \in Intent /\ i.state = final /\ i.filled = fills
        /\ i.purpose = intent[s].purpose /\ i.known = intent[s].known
        /\ i.asked = intent[s].asked /\ i.fills = intent[s].fills
    BY <1>3, <1>6, <2>a DEF Intent
  <2>3. intent' = j
    BY <1>7 DEF i
  <2>4. /\ j \in [Sells -> Intent] /\ j[s].filled = fills
        /\ \A o \in Sells : o # s => j[o].filled = intent[o].filled
    BY <1>3, <2>2
  <2>5. \A o \in Sells : j[o].filled <= venue[o].filled
    <3> SUFFICES ASSUME NEW o \in Sells PROVE j[o].filled <= venue[o].filled
      OBVIOUS
    <3>1. SellOK(o) /\ intent[o] \in Intent /\ venue[o] \in VenueOrder
      BY DEF IInv, IntentsOK, Types
    <3>2. intent[o].filled <= venue[o].filled /\ intent[o].fills <= venue[o].filled
      BY <3>1, Bounds DEF SellOK, Intent, VenueOrder
    <3> QED
      BY <2>4, <3>2 DEF fills
  <2> HIDE DEF j
  <2>6. Total(FilledRows(j)) <= Lot
    BY <2>4, <2>5, FilledFits DEF IInv
  <2>7. Booked(position, position') /\ Ledger(position', j)
    BY <1>3, <1>6, <1>7, <2>1, <2>4, <2>6, LedgerFilled DEF IInv, Sums
  <2>8. /\ Onward(position, position') /\ position'.tp \in {position.tp, None}
        /\ position'.active \in {position.active, None}
        /\ position'.tp # position.tp => Cut(position')
    BY <1>3, <2>7, BookedOnward DEF Booked
  <2>9. i.filled <= i.fills /\ i.state \notin {"none", "WAITING_SELLABLE", "ZERO_FILL"}
    BY <1>3, <1>6, <2>2, Bounds DEF fills
  <2>10. i.state \notin {"CANCELED", "FAILED"}
    BY <1>6, <2>2
  <2>11. intent' = [intent EXCEPT ![s] = i]
    BY <1>7 DEF i
  <2> QED
    BY <1>1, <1>2, <1>4, <2>2, <2>3, <2>7, <2>8, <2>9, <2>10, <2>11, RunMoves, ZenonT(60)
<1>8. CASE /\ fills <= run.listed[s].filled /\ ~StillOpen(s) /\ IsPending(s)
           /\ intent' = [intent EXCEPT ![s].state = final]
           /\ position' = Unlink(position, s)
  <2> DEFINE i == [intent[s] EXCEPT !.state = final]
  <2>1. final \in {"FILLED", "PARTIAL_FINAL"} /\ venue[s].at # "open" /\ final \in Final \cup Pending
    BY <1>5, <1>8 DEF Final
  <2> HIDE DEF final
  <2>2. /\ i \in Intent /\ i.state = final /\ i.filled = intent[s].filled
        /\ i.purpose = intent[s].purpose /\ i.known = intent[s].known
        /\ i.asked = intent[s].asked /\ i.fills = intent[s].fills
    BY <1>3, <2>1 DEF Intent
  <2>3. intent' = [intent EXCEPT ![s] = i]
    BY <1>8
  <2> HIDE DEF i
  <2>4. /\ Kindred(position, position')
        /\ position'.tp # position.tp => IsTp(s) /\ position.tp = s
    BY <1>3, <1>8, UnlinkIs
  <2>5. Onward(position, position') /\ position'.tp \in {position.tp, None}
        /\ position'.active \in {position.active, None} /\ position' \in Position
        /\ position'.booked = position.booked /\ position'.remaining = position.remaining
    BY <1>3, <2>4, KindredOnward DEF Kindred
  <2>6. Ledger(position', intent')
    <3>1. intent' \in [Sells -> Intent] /\ \A o \in Sells : intent'[o].filled = intent[o].filled
      BY <1>3, <2>2, <2>3
    <3> QED
      BY <2>5, <3>1, SameLedger
  <2>7. i.filled <= i.fills /\ i.state \notin {"none", "WAITING_SELLABLE", "ZERO_FILL"}
        /\ i.state \notin {"CANCELED", "FAILED"}
    BY <1>3, <2>1, <2>2 DEF SellOK
  <2> QED
    BY <1>1, <1>2, <1>3, <1>4, <2>1, <2>2, <2>3, <2>4, <2>5, <2>6, <2>7, RunMoves
<1>9. CASE UNCHANGED rows
  BY <1>1, <1>9, PassKeeps DEF Listed
<1> QED
  BY <1>7, <1>8, <1>9 DEF Filled

LEMMA UnfilledKeeps ==
    ASSUME IInv, NEW s \in Sells, Unfilled(s)
    PROVE  IInv'
<1>1. /\ Listed(s) /\ run.listed[s].known /\ intent[s].fills = 0
      /\ UNCHANGED <<seller, venue, zero, faults>> /\ memory' = memory
      /\ hot' \in {"nothing", "latched", "unlatched"}
      /\ run \in Runs
  BY HotStays DEF Unfilled, IInv, Types
<1>2. /\ run' \in Runs /\ run'.todo = run.todo \ {s} /\ run'.listed = run.listed
      /\ run'.trades = run.trades /\ run'.pc = run.pc /\ run'.open = run.open
  BY <1>1, ZenonT(60) DEF Unfilled, Done, Runs
<1>3. /\ intent \in [Sells -> Intent] /\ intent[s] \in Intent /\ position \in Position
      /\ SellOK(s) /\ venue[s] \in VenueOrder
      /\ intent[s].known /\ intent[s].filled = 0
      /\ venue[s].at \notin {"none", "sent"} /\ intent[s].state # "none"
  <2>1. /\ intent \in [Sells -> Intent] /\ intent[s] \in Intent /\ position \in Position
        /\ SellOK(s) /\ venue[s] \in VenueOrder
        /\ intent[s].known
        /\ venue[s].at \notin {"none", "sent"} /\ intent[s].state # "none"
    BY <1>1, ListedIs DEF IInv, Types, IntentsOK
  <2> QED
    BY <1>1, <2>1, Bounds DEF SellOK, Intent
<1>4. ASSUME NEW st \in {"LIVE", "RECONCILIATION_REQUIRED", "CANCELED", "FAILED"},
             intent' = [intent EXCEPT ![s].state = st] \/ intent' = [intent EXCEPT ![s].state = st, ![s].filled = 0],
             st \in {"CANCELED", "FAILED"} => venue[s].at \notin {"sent", "open"},
             Kindred(position, position'),
             position'.tp # position.tp => IsTp(s) /\ venue[s].at = "canceled"
      PROVE  IInv'
  <2> DEFINE i == [intent[s] EXCEPT !.state = st]
  <2>1. st \in Final \cup Pending /\ st \notin {"none", "WAITING_SELLABLE", "ZERO_FILL"}
    BY <1>4 DEF Final, Pending
  <2>2. /\ i \in Intent /\ i.state = st /\ i.filled = 0
        /\ i.purpose = intent[s].purpose /\ i.known = intent[s].known
        /\ i.asked = intent[s].asked /\ i.fills = intent[s].fills
        /\ i = [[intent[s] EXCEPT !.state = st] EXCEPT !.filled = 0]
    BY <1>3, <2>1 DEF Intent
  <2>3. intent' = [intent EXCEPT ![s] = i]
    BY <1>3, <1>4, <2>2
  <2>4. st \in {"CANCELED", "FAILED"} => s \notin AtVenue
    BY <1>4 DEF AtVenue
  <2>5. ExitAtVenue(s) => st \in Pending
    BY <1>4, <2>4 DEF ExitAtVenue, Pending
  <2>6. Onward(position, position') /\ position'.tp \in {position.tp, None}
        /\ position'.active \in {position.active, None} /\ position' \in Position
        /\ position'.booked = position.booked /\ position'.remaining = position.remaining
    BY <1>3, <1>4, KindredOnward DEF Kindred
  <2> HIDE DEF i
  <2>7. Ledger(position', intent')
    <3>1. intent' \in [Sells -> Intent] /\ \A o \in Sells : intent'[o].filled = intent[o].filled
      BY <1>3, <2>2, <2>3
    <3> QED
      BY <2>6, <3>1, SameLedger
  <2>8. i.filled <= i.fills
    BY <1>1, <2>2
  <2> QED
    BY <1>1, <1>2, <1>3, <1>4, <2>1, <2>2, <2>3, <2>4, <2>5, <2>6, <2>7, <2>8, RunMoves
<1>5. CASE /\ intent' = [intent EXCEPT ![s].state = "LIVE", ![s].filled = 0]
           /\ UNCHANGED position
  BY <1>3, <1>4, <1>5, KindredSelf
<1>6. CASE /\ intent' = [intent EXCEPT ![s].state = "RECONCILIATION_REQUIRED"]
           /\ position' = position \/ position' = RequireReconciliation(position)
  <2>1. Kindred(position, position') /\ position'.tp = position.tp
    BY <1>3, <1>6, KindredSelf, RequireIs
  <2> QED
    BY <1>4, <1>6, <2>1
<1>7. CASE /\ Seen(s) = "canceled" /\ intent' = [intent EXCEPT ![s].state = "CANCELED"]
           /\ position' = AfterCancel(position, s, TRUE)
  <2>1. Kindred(position, position') /\ (position'.tp # position.tp => IsTp(s))
    BY <1>3, <1>7, AfterCancelIs
  <2>2. venue[s].at = "canceled"
    BY <1>7 DEF Seen
  <2> QED
    BY <1>4, <1>7, <2>1, <2>2
<1>8. CASE /\ Seen(s) = "dead" /\ intent' = [intent EXCEPT ![s].state = "FAILED"]
           /\ UNCHANGED position
  <2>1. venue[s].at = "dead"
    BY <1>8 DEF Seen
  <2> QED
    BY <1>3, <1>4, <1>8, <2>1, KindredSelf
<1> QED
  BY <1>5, <1>6, <1>7, <1>8 DEF Unfilled

\* A second observation like the first was made by a run that began after the
\* exit's order had arrived: the order is gone, and sold nothing.
LEMMA UnsubmittedKeeps ==
    ASSUME IInv, NEW s \in Sells, Unsubmitted(s)
    PROVE  IInv'
<1>1. /\ Listed(s) /\ ~IsTp(s) /\ venue[s].at # "sent" /\ run.pc = "intents" /\ s \in run.todo
      /\ Unknown(s) /\ venue[s].at # "none" /\ "lost_reply" \in faults
      /\ \A o \in Sells : Unknown(o) => o = s
      /\ UNCHANGED <<seller, hot, venue, faults>>
      /\ hot' \in {"nothing", "latched", "unlatched"}
      /\ intent[s].state = "RECONCILIATION_REQUIRED" /\ ~intent[s].known
  <2>1. Listed(s) /\ ListedUnknown(s) /\ ~IsTp(s)
    BY DEF Unsubmitted, ListedUnknown
  <2>2. Unknown(s) /\ run.pc = "intents" /\ s \in run.todo
    BY <2>1, ListedIs
  <2> QED
    BY <2>1, <2>2 DEF Unsubmitted, IInv, ZeroOK, Unknown, Types
<1>2. Evidence # None
  <2>1. Owned \in 0..Lot
    BY OwnedType DEF IInv
  <2> DEFINE open == run.open = {}
             trades == \A o \in Sells : run.trades[o] = 0
  <2>2. open \in BOOLEAN /\ trades \in BOOLEAN
    OBVIOUS
  <2>3. Evidence = [balance |-> Owned, open |-> open, trades |-> trades]
    BY DEF Evidence
  <2> HIDE DEF open, trades
  <2>4. Evidence \in [balance : 0..Lot, open : BOOLEAN, trades : BOOLEAN]
    BY <2>1, <2>2, <2>3
  <2> QED
    BY <2>4, ExitAssumption
<1>3. CASE zero' = Evidence /\ Done(s, TRUE) /\ UNCHANGED rows
  <2>1. /\ run' \in Runs /\ run'.todo = run.todo \ {s} /\ run'.listed = run.listed
        /\ run'.trades = run.trades /\ run'.pc = run.pc /\ run'.open = run.open
    BY <1>3, DoneIs
  <2>2. UNCHANGED <<position, intent, seller, venue, faults>>
    BY <1>1, <1>3 DEF rows
  <2>3. \A o \in Sells : (Unknown(o)' <=> Unknown(o)) /\ (IsTp(o)' <=> IsTp(o))
    BY <2>2 DEF Unknown, IsTp
  <2>4. \A o \in Sells : ~Observed(o)'
    BY <1>1, <2>1, <2>3 DEF Observed
  <2>5. zero' # None => \E o \in Sells : Unknown(o) /\ venue[o].at \notin {"none", "sent"}
    BY <1>1
  <2>6. seller.pc \in Selling /\ ~IsTp(seller.sell)' => \A o \in Sells : ~Unknown(o)
    BY <2>2 DEF IInv, ZeroOK, IsTp
  <2>7. \A o \in run'.todo : /\ run'.pc = "intents" /\ intent[o].state # "none"
                             /\ ListedUnknown(o)' /\ ~IsTp(o) => Unknown(o)
    BY <2>1 DEF IInv, ZeroOK, ListedUnknown
  <2>8. run'.todo \subseteq Sells
    BY <2>1 DEF Runs
  <2>9. ZeroOK'
    BY <2>2, <2>3, <2>4, <2>5, <2>6, <2>7, <2>8 DEF IInv, ZeroOK
  <2>10. \A o \in Sells : /\ run'.trades[o] <= venue[o].shown
                          /\ run'.listed[o].known => intent[o].known
                          /\ o \in run'.todo => run'.listed[o].filled = intent[o].filled
    BY <2>1 DEF IInv, IntentsOK, SellOK
  <2> QED
    BY <1>1, <1>3, <2>1, <2>9, <2>10, ReadingKeeps
<1>4. CASE /\ zero = Evidence /\ ZeroEffect(s)
           /\ intent' = [intent EXCEPT ![s].state = "ZERO_FILL"]
           /\ position' = [Unlink(position, s) EXCEPT !.state =
                               IF position.latched THEN "EXITING" ELSE "OPEN"]
           /\ zero' = None /\ Done(s, FALSE)
  <2>1. /\ run' \in Runs /\ run'.todo = run.todo \ {s} /\ run'.listed = run.listed
        /\ run'.trades = run.trades /\ run'.pc = run.pc /\ run'.open = run.open
    BY <1>4, DoneIs
  <2>2. Observed(s) /\ run.trades[s] = 0
    BY <1>1, <1>2, <1>4 DEF Observed, ZeroEffect
  <2>3. venue[s].at # "open" /\ ("late_trades" \notin faults => venue[s].filled = 0)
    BY <2>2 DEF IInv, ZeroOK
  <2>4. s \notin AtVenue /\ ~ExitAtVenue(s)
    BY <1>1, <2>3 DEF AtVenue, ExitAtVenue
  <2>5. /\ position \in Position /\ intent \in [Sells -> Intent] /\ intent[s] \in Intent
        /\ SellOK(s)
    BY DEF IInv, Types, IntentsOK
  <2>6. /\ intent' \in [Sells -> Intent] /\ intent'[s] = [intent[s] EXCEPT !.state = "ZERO_FILL"]
        /\ \A o \in Sells : o # s => intent'[o] = intent[o]
    BY <1>4, <2>5 DEF Intent, Final
  <2>7. /\ intent'[s].state = "ZERO_FILL" /\ intent'[s].purpose = intent[s].purpose
        /\ intent'[s].asked = intent[s].asked /\ intent'[s].known = intent[s].known
        /\ intent'[s].filled = intent[s].filled /\ intent'[s].fills = intent[s].fills
    BY <2>5, <2>6 DEF Intent
  <2>8. Kindred(position, position') /\ position'.tp = position.tp
    <3> DEFINE p == Unlink(position, s)
               st == IF position.latched THEN "EXITING" ELSE "OPEN"
    <3>1. Kindred(position, p) /\ p.tp = position.tp
      BY <1>1, <2>5, UnlinkIs
    <3>2. st \in {"EXITING", "OPEN"} /\ position' = [p EXCEPT !.state = st]
      BY <1>4
    <3> HIDE DEF p, st
    <3> QED
      BY <3>1, <3>2 DEF Kindred, Position, Actionable
  <2>9. Lawful(s)
    BY <1>1, <2>3, <2>4, <2>6, <2>7 DEF Lawful
  <2>10. Onward(position, position')
    BY <2>5, <2>8, KindredOnward
  <2>11. Step
    BY <1>1, <2>6, <2>9, <2>10, SameIsLawful DEF Step
  <2>12. \A o \in Sells : IsTp(o)' <=> IsTp(o)
    BY <2>6, <2>7 DEF IsTp
  <2>13. Types'
    BY <1>1, <2>1, <2>6, <2>8 DEF IInv, Types, Kindred
  <2>14. IntentsOK'
    <3> SUFFICES ASSUME NEW o \in Sells PROVE SellOK(o)'
      BY DEF IntentsOK
    <3>1. SellOK(o)
      BY DEF IInv, IntentsOK
    <3>2. CASE o = s
      BY <1>1, <2>1, <2>7, <2>12, <3>1, <3>2 DEF SellOK
    <3>3. CASE o # s
      BY <1>1, <2>1, <2>6, <2>12, <3>1, <3>3 DEF SellOK
    <3> QED
      BY <3>2, <3>3
  <2>15. Sums'
    <3>1. \A o \in Sells : intent'[o].filled = intent[o].filled /\ intent'[o].asked = intent[o].asked
      BY <2>6, <2>7
    <3>2. Calm
      BY <1>1, <2>8, <3>1 DEF Calm, Kindred
    <3> QED
      BY <3>2, CalmKeepsSums DEF IInv
  <2>16. SellerOK'
    <3>1. \A o \in Sells :
              /\ intent[o].state = "none" => intent'[o].state = "none"
              /\ intent[o].state # "none" => intent'[o].state # "none"
              /\ intent'[o].purpose = intent[o].purpose /\ intent'[o].known = intent[o].known
              /\ intent[o].state \in {"RESERVED", "SUBMITTING"} /\ ~intent[o].known
                    => intent'[o].state = intent[o].state
      BY <1>1, <2>6, <2>7
    <3> QED
      BY <1>1, <2>8, <2>10, <3>1, SellerKept DEF Kindred
  <2>17. \A o \in Sells : ~Unknown(o)'
    BY <1>1, <2>6, <2>7, <2>12 DEF Unknown
  <2>18. \A o \in run'.todo : /\ run'.pc = "intents" /\ intent'[o].state # "none"
                              /\ ~(ListedUnknown(o)' /\ ~IsTp(o)')
    <3> SUFFICES ASSUME NEW o \in run'.todo
                 PROVE  /\ run'.pc = "intents" /\ intent'[o].state # "none"
                        /\ ~(ListedUnknown(o)' /\ ~IsTp(o)')
      OBVIOUS
    <3>1. o \in Sells /\ o # s /\ o \in run.todo
      BY <2>1 DEF Runs
    <3>2. intent[o].state # "none" /\ (ListedUnknown(o) /\ ~IsTp(o) => Unknown(o))
      BY <3>1 DEF IInv, ZeroOK
    <3> QED
      BY <1>1, <2>1, <2>6, <2>12, <3>1, <3>2 DEF ListedUnknown
  <2>19. ZeroOK'
    BY <1>4, <2>17, <2>18 DEF ZeroOK, Observed
  <2> QED
    BY <1>1, <2>8, <2>11, <2>12, <2>13, <2>14, <2>15, <2>16, <2>19, RunKeeps
<1>5. CASE Done(s, TRUE) /\ UNCHANGED <<rows, zero>>
  <2>1. UNCHANGED rows /\ memory' = memory /\ UNCHANGED <<seller, venue>>
    BY <1>1, <1>5 DEF memory
  <2> QED
    BY <1>1, <1>5, <2>1, PassKeeps
<1> QED
  BY <1>3, <1>4, <1>5 DEF Unsubmitted

-----------------------------------------------------------------------------
(* The end of a run *)

LEMMA EndedIs ==
    ASSUME NEW ok, Ended(ok), seller \in Sellers
    PROVE  /\ run' = IdleRun
           /\ \/ seller' = seller
              \/ seller' = IdleSeller /\ seller.pc \notin Selling
              \/ seller' = [seller EXCEPT !.pc = "cleared"] /\ seller.pc = "clearing"
              \/ seller' = [seller EXCEPT !.pc = "settled"] /\ seller.pc = "reconciling"
              \/ seller' = [seller EXCEPT !.pc = "unsettled"] /\ seller.pc = "reconciling"
  BY DEF Ended, SellerGoes, SellerDone, Selling

LEMMA IdleRunIs ==
    /\ IdleRun \in Runs /\ IdleRun.pc = "idle" /\ IdleRun.todo = {}
    /\ \A o \in Sells : IdleRun.trades[o] = 0 /\ ~IdleRun.listed[o].known
<1>1. NoIntent \in Intent /\ ~NoIntent.known /\ 0 \in 0..Lot
  BY Bounds DEF NoIntent, Intent, Purposes
<1> HIDE DEF NoIntent
<1> QED
  BY <1>1 DEF IdleRun, Runs

LEMMA EndedKeeps ==
    ASSUME IInv, NEW ok, Ended(ok), UNCHANGED <<intent, venue>>, memory' = memory,
           Onward(position, position'), position'.tp = position.tp,
           position'.active = position.active, Ledger(position', intent)
    PROVE  IInv'
<1>1. /\ UNCHANGED <<intent, venue, zero, faults>> /\ seller \in Sellers
      /\ position \in Position /\ position' \in Position
      /\ hot' \in {"nothing", "latched", "unlatched"}
  BY HotStays DEF IInv, Types, Onward
<1>2. /\ run' \in Runs /\ run'.pc = "idle" /\ run'.todo = {}
      /\ \A o \in Sells : run'.trades[o] = 0 /\ ~run'.listed[o].known
  BY <1>1, EndedIs, IdleRunIs
<1>3. Step
  BY <1>1, SameIsLawful DEF Step
<1>4. /\ seller' \in Sellers
      /\ seller'.pc \in Selling => seller' = seller
      /\ seller.pc \in Selling => seller' = seller
      /\ seller'.pc \in Working => seller.pc \in Working /\ seller'.copy = seller.copy
  <2>1. IdleSeller \in Sellers /\ IdleSeller.pc = "idle"
    BY DEF IdleSeller, Sellers, Phases
  <2> QED
    BY <1>1, <2>1, EndedIs DEF Sellers, Phases, Selling, Working
<1>5. Types'
  BY <1>1, <1>2, <1>4 DEF IInv, Types
<1>6. IntentsOK'
  <2> SUFFICES ASSUME NEW o \in Sells PROVE SellOK(o)'
    BY DEF IntentsOK
  <2>1. SellOK(o) /\ venue[o].shown \in Nat
    BY Bounds DEF IInv, IntentsOK, Types, VenueOrder
  <2> QED
    BY <1>1, <1>2, <2>1 DEF SellOK, IsTp
<1>7. Sums'
  <2>1. SoldAtVenue' = SoldAtVenue /\ Offered' = Offered
    BY OffersSame
  <2> QED
    BY <1>1, <2>1 DEF IInv, Sums
<1>8. SellerOK'
  <2>1. CASE seller' = seller
    BY <1>1, <2>1, SellerKept
  <2>2. LinkOK(position, intent)'
    BY <1>1 DEF IInv, SellerOK, LinkOK
  <2>3. CASE seller' = IdleSeller
    BY <2>2, <2>3 DEF SellerOK, IdleSeller, Working, Selling, Cancelling
  <2>4. CASE /\ seller' = [seller EXCEPT !.pc = "cleared"] /\ seller.pc = "clearing"
    <3>1. seller'.pc = "cleared" /\ seller'.copy = seller.copy
      BY <1>1, <2>4 DEF Sellers
    <3> QED
      BY <2>2, <2>4, <3>1 DEF IInv, SellerOK, Onward, Working, Selling, Cancelling
  <2>5. CASE seller' = [seller EXCEPT !.pc = "unsettled"] /\ seller.pc = "reconciling"
    <3>1. seller'.pc = "unsettled" /\ seller'.copy = seller.copy
      BY <1>1, <2>5 DEF Sellers
    <3> QED
      BY <2>2, <2>5, <3>1 DEF IInv, SellerOK, Onward, Working, Selling, Cancelling
  <2>6. CASE seller' = [seller EXCEPT !.pc = "settled"] /\ seller.pc = "reconciling"
    <3>1. seller'.pc = "settled" /\ seller'.copy = seller.copy /\ seller'.sell = seller.sell
      BY <1>1, <2>6 DEF Sellers
    <3>2. /\ seller.copy \in Position /\ (seller.copy.latched => position'.latched)
          /\ WorkOK /\ CancellingOK
      BY <2>6 DEF IInv, SellerOK, Onward, Working, Cancelling
    <3>3. WorkOK'
      BY <1>1, <3>1, <3>2 DEF WorkOK, Unused, LinkOK
    <3>4. Linked' = Linked /\ Standing' = Standing /\ Linked \in {"tp", "active"}
      BY <3>1 DEF Linked, Standing
    <3>5. position'[Linked] = position[Linked]
      BY <3>4
    <3>6. CancellingOK'
      BY <1>1, <2>6, <3>1, <3>2, <3>4, <3>5 DEF CancellingOK
    <3> QED
      BY <2>2, <3>1, <3>2, <3>3, <3>6 DEF SellerOK, Selling
  <2> QED
    BY <1>1, <2>1, <2>3, <2>4, <2>5, <2>6, EndedIs
<1>9. \A o \in Sells : (Unknown(o)' <=> Unknown(o)) /\ (IsTp(o)' <=> IsTp(o))
  BY <1>1 DEF Unknown, IsTp
<1>10. seller' = seller => (IsTp(seller.sell)' <=> IsTp(seller.sell))
  BY <1>1 DEF IsTp
<1>11. ZeroOK'
  <2>1. \A o \in Sells : ~Observed(o)'
    BY <1>2 DEF Observed
  <2>2. seller'.pc \in Selling /\ ~IsTp(seller.sell)' => \A o \in Sells : ~Unknown(o)
    BY <1>4, <1>10 DEF IInv, ZeroOK
  <2>3. (seller.pc \in Selling /\ ~IsTp(seller.sell))' => \A o \in Sells : ~Unknown(o)'
    BY <1>9, <2>2
  <2> QED
    BY <1>1, <1>2, <1>9, <2>1, <2>3 DEF IInv, ZeroOK
<1>12. OneSell'
  <2>1. seller'.pc = "posting" => seller' = seller /\ (IsTp(seller.sell)' <=> IsTp(seller.sell))
    BY <1>4, <1>10 DEF Selling
  <2>2. \A o \in Sells : seller.pc = "posted" /\ seller.sell = o /\ ExitAtVenue(o)
                => seller'.pc = "posted" /\ seller'.sell = o
    BY <1>4 DEF Selling
  <2>3. seller'.pc \in Working /\ ~seller'.copy.latched /\ "crash" \notin faults => NoExitAtVenue
    BY <1>4, WorkingKnows
  <2> QED
    BY <1>3, <2>1, <2>2, <2>3, OneSellKept
<1>13. LinksOK'
  <2>1. seller'.pc \in Selling /\ IsTp(seller.sell)' => Kept(seller.sell)'
    <3> SUFFICES ASSUME seller'.pc \in Selling, IsTp(seller.sell)'
                 PROVE  Kept(seller.sell)'
      OBVIOUS
    <3>1. seller' = seller /\ seller.pc \in Selling /\ IsTp(seller.sell)
      BY <1>4, <1>10 DEF IsTp
    <3>2. PICK s \in Sells : s = seller.sell
      BY <3>1 DEF IInv, SellerOK, SellingOK
    <3>3. Kept(s)
      BY <3>1, <3>2 DEF IInv, LinksOK
    <3>4. Kept(s)'
      BY <1>3, <3>3, KeptStays
    <3> QED
      BY <3>1, <3>2, <3>4
  <2> QED
    BY <1>3, <2>1, LinksKept
<1> QED
  BY <1>3, <1>5, <1>6, <1>7, <1>8, <1>11, <1>12, <1>13, StepIs DEF IInv

LEMMA RemotePositionsKeeps ==
    ASSUME IInv, RemotePositions
    PROVE  IInv'
<1>1. /\ position \in Position /\ run.feed \in 0..Lot /\ Ledger(position, intent)
      /\ UNCHANGED <<intent, venue>> /\ memory' = memory
  BY DEF IInv, Types, Runs, Sums, RemotePositions
<1>2. CASE UNCHANGED position /\ \E ok \in BOOLEAN : Ended(ok)
  <2>1. Onward(position, position')
    BY <1>1, <1>2, KindredSelf, KindredOnward
  <2> QED
    BY <1>1, <1>2, <2>1, EndedKeeps
<1>3. CASE /\ run.feed > 0 /\ ~AfterExit
           /\ position' = Corrected(position, run.feed)
           /\ Ended(~run.gaps /\ position.remaining = run.feed)
  <2>1. /\ position' \in Position /\ position'.remaining = run.feed
        /\ position'.booked = position.booked /\ position'.latched = position.latched
        /\ position'.tp = position.tp /\ position'.active = position.active
    BY <1>1, <1>3, CorrectedIs
  <2>2. position.booked \in Nat /\ position.remaining \in Nat /\ run.feed \in Nat
    BY <1>1, Bounds DEF Position
  <2>3. position.remaining # 0
    BY <1>1, <1>3, <2>2 DEF Ledger, AfterExit
  <2>4. Cut(position) => Cut(position')
    BY <1>3, <2>1, <2>2, Bounds DEF Cut, AfterExit
  <2>5. Onward(position, position')
    BY <2>1, <2>2, <2>3, <2>4 DEF Onward
  <2>6. Ledger(position', intent)
    BY <1>1, <1>3, <2>1, <2>2 DEF Ledger
  <2> QED
    BY <1>1, <1>3, <2>1, <2>5, <2>6, EndedKeeps
<1> QED
  BY <1>2, <1>3 DEF RemotePositions

LEMMA RunRaisesKeeps ==
    ASSUME IInv, RunRaises
    PROVE  IInv'
<1>1. /\ position \in Position /\ Ledger(position, intent) /\ Ended(FALSE)
      /\ UNCHANGED <<position, intent, venue>> /\ memory' = memory
  BY DEF IInv, Types, Sums, RunRaises, rows
<1>2. Onward(position, position')
  BY <1>1, KindredSelf, KindredOnward
<1> QED
  BY <1>1, <1>2, EndedKeeps

LEMMA RunStepKeeps ==
    ASSUME IInv, RunStep
    PROVE  IInv'
  BY ReadOrdersKeeps, ReadPositionsKeeps, ListIntentsKeeps, UnidentifiedKeeps,
     UnsubmittedKeeps, FilledKeeps, UnfilledKeeps, RemotePositionsKeeps, RunRaisesKeeps
     DEF RunStep

-----------------------------------------------------------------------------
(* The invariant holds *)

LEMMA InitKeeps ==
    ASSUME Init
    PROVE  IInv
<1>1. NoIntent \in Intent /\ NoOrder \in VenueOrder /\ IdleSeller \in Sellers /\ 0 \in 0..Lot
      /\ Lot \in 0..Lot
  BY Bounds DEF NoIntent, Intent, Purposes, NoOrder, VenueOrder, IdleSeller, Sellers, Phases
<1>2. /\ position \in Position /\ position.remaining = Lot /\ position.booked = 0
      /\ position.tp = None /\ position.active = None
  BY <1>1 DEF Init, Position, Actionable
<1>3. /\ intent \in [Sells -> Intent] /\ venue \in [Sells -> VenueOrder]
      /\ \A s \in Sells : intent[s] = NoIntent /\ venue[s] = NoOrder
  BY <1>1 DEF Init
<1>4. /\ run = IdleRun /\ run \in Runs /\ run.pc = "idle" /\ run.todo = {}
      /\ \A o \in Sells : run.trades[o] = 0 /\ ~run.listed[o].known
  BY IdleRunIs DEF Init
<1>5. seller = IdleSeller /\ seller.pc = "idle" /\ zero = None
  BY DEF Init, IdleSeller
<1>6. Types
  BY <1>1, <1>2, <1>3, <1>4, <1>5 DEF Types, Init
<1>7. \A s \in Sells : /\ intent[s].state = "none" /\ ~intent[s].known /\ intent[s].filled = 0
                       /\ intent[s].fills = 0 /\ venue[s].at = "none" /\ venue[s].filled = 0
                       /\ venue[s].shown = 0
  BY <1>3 DEF NoIntent, NoOrder
<1>8. IntentsOK
  BY <1>4, <1>7, Bounds DEF IntentsOK, SellOK
<1>9. AtVenue = {} /\ NoExitAtVenue
  BY <1>7 DEF AtVenue, NoExitAtVenue, ExitAtVenue
<1>10. Sums
  <2> DEFINE f == [s \in Sells |-> venue[s].filled]
             g == [s \in Sells |-> IF IsOpen(s) THEN intent[s].asked - venue[s].filled ELSE 0]
             h == [s \in Sells |-> intent[s].filled]
  <2>1. /\ f \in [Sells -> Nat] /\ \A s \in Sells : f[s] = 0
        /\ g \in [Sells -> Nat] /\ \A s \in Sells : g[s] = 0
        /\ h \in [Sells -> Nat] /\ \A s \in Sells : h[s] = 0
    BY <1>7 DEF IsOpen
  <2>2. SoldAtVenue = Total(f) /\ Offered = Total(g) /\ FilledRows(intent) = h
    BY DEF SoldAtVenue, Offered, FilledRows
  <2> HIDE DEF f, g, h
  <2>3. Total(f) = 0 /\ Total(g) = 0 /\ Total(h) = 0
    BY <2>1, TotalZero
  <2> QED
    BY <1>2, <2>2, <2>3, Bounds DEF Sums, Ledger
<1>11. SellerOK
  BY <1>2, <1>5 DEF SellerOK, LinkOK, Working, Selling, Cancelling
<1>12. ZeroOK
  BY <1>4, <1>5, <1>7 DEF ZeroOK, Unknown, Observed, Selling
<1>13. OneSell /\ LinksOK /\ Finals
  BY <1>5, <1>7, <1>9 DEF OneSell, LinksOK, LinksAreKept, Finals, NoExitAtVenue, Working, Selling
<1> QED
  BY <1>6, <1>8, <1>10, <1>11, <1>12, <1>13 DEF IInv

LEMMA SellerStepKeeps ==
    ASSUME IInv, SellerStep
    PROVE  IInv'
  BY LoadsKeep, AskRunKeeps, ResumeKeeps, ReloadKeeps, TakeProfitKeeps, BeginExitKeeps,
     SupersedeKeeps, RefuseUnknownKeeps, CancelKeeps, CancelAnsweredKeeps, SettleKeeps,
     SettledKeeps, UnsettledKeeps, SellKeeps, InsufficientKeeps, PostKeeps, FailedKeeps,
     AnswersKeep, ClearedKeeps
     DEF SellerStep

LEMMA StutterKeeps ==
    ASSUME IInv, UNCHANGED vars
    PROVE  IInv'
<1>1. /\ UNCHANGED <<intent, seller, run, zero, venue, faults>>
      /\ position' = position /\ hot' = hot
  BY DEF vars
<1>2. Kindred(position, position') /\ hot' \in {"nothing", "latched", "unlatched"}
  BY <1>1, KindredSelf DEF IInv, Types
<1> QED
  BY <1>1, <1>2, StillKeeps

LEMMA NextKeeps ==
    ASSUME IInv, [Next]_vars
    PROVE  IInv'
  BY FrameKeeps, SellerStepKeeps, RunStepKeeps, CrashKeeps, VenueKeeps, StutterKeeps DEF Next

\* In every reachable state the rows, the coroutines and the venue agree as
\* IInv says: for any number of shares and sells, whatever goes wrong together.
THEOREM InvariantHolds == Spec => []IInv
<1>1. Init => IInv
  BY InitKeeps
<1>2. IInv /\ [Next]_vars => IInv'
  BY NextKeeps
<1> QED
  BY <1>1, <1>2, PTL DEF Spec

\* Whatever fails together, the position's row, its intents, the coroutine
\* with the exit lock and the venue's orders hold values of their types; no
\* sum of shares leaves 0..Lot.
THEOREM ExitTypes == Spec => []TypeOK
<1>1. IInv => TypeOK
  BY DEF IInv, Types, TypeOK, Sellers
<1> QED
  BY <1>1, InvariantHolds, PTL

\* A sell that finalize_cancel, finalize_position_intent_failure or
\* resolve_unknown_open_exit_zero_effect closes as cancelled, failed or without
\* effect can never be filled again, and one without effect sold nothing.  The
\* second half asks that a lost answer of create_order does not meet trades
\* that are shown late: both together deceive the two observations.
THEOREM FinalsAreTrue ==
    ASSUME \A set \in FaultSets : ~({"lost_reply", "late_trades"} \subseteq set)
    PROVE  Spec => []FinalIsTrue
<1>1. IInv => FinalIsTrue
  BY DEF IInv, Types, Finals, FinalIsTrue
<1> QED
  BY <1>1, InvariantHolds, PTL

\* The first half holds whatever goes wrong together.
ClosedIsClosed ==
    \A s \in Sells : intent[s].state \in {"CANCELED", "FAILED", "ZERO_FILL"} => s \notin AtVenue

\* A sell the rows call cancelled, failed or without effect is at the venue no
\* more, whatever fails together, and however late the account's views are.
THEOREM ClosedIsNotAtVenue == Spec => []ClosedIsClosed
<1>1. IInv => ClosedIsClosed
  BY DEF IInv, Finals, ClosedIsClosed
<1> QED
  BY <1>1, InvariantHolds, PTL

\* Exits of more shares than the account has are never accepted, and proceeds
\* are never booked for shares that were not sold.
BooksAreCovered ==
    /\ SoldAtVenue + Offered <= Lot
    /\ position.booked <= SoldAtVenue
Covered == BooksAreCovered /\ {SoldAtVenue, Offered, position.booked} \subseteq Nat

LEMMA CoveredIs ==
    ASSUME IInv
    PROVE  Covered
<1>1. /\ SoldAtVenue + Offered <= Lot /\ position.booked <= Total(FilledRows(intent))
      /\ Total(FilledRows(intent)) <= SoldAtVenue /\ Offered \in Nat
      /\ Total(FilledRows(intent)) \in Nat /\ SoldAtVenue \in Nat /\ position.booked \in Nat
  BY SumTypes, Bounds DEF IInv, Sums, Ledger, Types, Position
<1> QED
  BY <1>1 DEF BooksAreCovered, Covered

\* What apply_exit_fill books never exceeds what the venue sold, and what
\* rests there never exceeds what is left: with every fault.
THEOREM BookedWasSold == Spec => []BooksAreCovered
<1>1. IInv => BooksAreCovered
  BY CoveredIs DEF Covered
<1> QED
  BY <1>1, InvariantHolds, PTL

\* A take-profit that may still be filled is the one the position's row links
\* to, so that a stop cancels it before it sells, unless what is left is dust,
\* a cancellation's answer was lost, or an earlier take-profit was cancelled
\* (finalize_cancel clears the link whatever it points to).
THEOREM TakeProfitStaysLinked == Spec => []LinksAreKept
<1>1. IInv => LinksAreKept
  BY DEF IInv, LinksOK
<1> QED
  BY <1>1, InvariantHolds, PTL

\* No second exit is offered beside one that may be filled, whatever fails: a
\* stop or an emergency close that is posted finds no other at the venue.
OneExitAtATime == \A s, o \in Sells : ExitAtVenue(s) /\ ExitAtVenue(o) => s = o

\* A step writes the rows: nothing booked is forgotten, a latched stop stays
\* latched, what was dust is, and a sell remains the kind of sell it is.
Later(p, q) == p.booked <= q.booked /\ (p.latched => q.latched) /\ (Cut(p) => Cut(q))
GoesOn ==
    /\ Later(position, position')
    /\ \A o \in Sells : intent[o].state # "none" => intent'[o].purpose = intent[o].purpose

LEMMA MethodsGoOn ==
    ASSUME NEW p \in Position, NEW s,
           NEW q, \/ q = LatchStop(p) \/ q = RequireReconciliation(p) \/ q = ClearReconciliation(p)
                  \/ q = WaitingSellable(p, s) \/ q = Unlink(p, s) \/ q = AfterFailure(p, s)
                  \/ \E success \in BOOLEAN : q = AfterCancel(p, s, success)
                  \/ \E tp \in BOOLEAN : q = Reserved(p, s, tp)
    PROVE  Later(p, q)
<1>1. p.booked \in Nat
  BY Bounds DEF Position
<1>2. q.booked = p.booked /\ q.remaining = p.remaining /\ (p.latched => q.latched)
  BY ZenonT(60) DEF LatchStop, RequireReconciliation, ClearReconciliation, WaitingSellable, Unlink,
         AfterFailure, AfterCancel, Reserved, LinkOf, Position
<1> QED
  BY <1>1, <1>2 DEF Later, Cut

LEMMA FillGoesOn ==
    ASSUME NEW p \in Position, NEW i \in [Sells -> Intent], NEW s \in Sells,
           NEW filled \in 0..Lot, NEW final
    PROVE  LET q == AfterFill(p, i, s, filled, final)
           IN  Later(p, q)
<1> DEFINE new == NewlyFilled(i[s], filled)
           before == Before(p, i)
           sold == IF new < before THEN new ELSE before
           q == AfterFill(p, i, s, filled, final)
<1>1. /\ new \in Nat /\ before \in Nat /\ p.booked \in Nat /\ p.remaining \in Nat
      /\ p.booked > 0 => before = p.remaining
  BY Bounds DEF NewlyFilled, Before, Intent, Position
<1>2. sold \in Nat
  BY <1>1
<1>3. q.booked = p.booked + sold /\ q.remaining = before - sold /\ (p.latched => q.latched)
  BY DEF AfterFill, Position
<1> HIDE DEF new, before, sold, q
<1>4. Cut(p) => Cut(q)
  BY <1>1, <1>2, <1>3, Bounds DEF Cut
<1> QED
  BY <1>1, <1>2, <1>3, <1>4 DEF q, Later

LEMMA ReserveGoesOn ==
    ASSUME IInv, seller.pc \in Working, NEW purpose, NEW asked, NEW st,
           Reserve(Min(Unused), purpose, asked, st)
    PROVE  GoesOn
<1>1. Unused # {} /\ position \in Position /\ intent \in [Sells -> Intent]
  BY DEF IInv, SellerOK, WorkOK, Types
<1>2. PICK s \in Unused : s = Min(Unused)
  BY <1>1, FirstUnused
<1> DEFINE tp == purpose = "TAKE_PROFIT"
           p == Reserved(position, s, tp)
<1>3. /\ intent' = [intent EXCEPT ![s] = [NoIntent EXCEPT !.state = st,
                                             !.purpose = purpose, !.asked = asked]]
      /\ position' = IF st # "WAITING_SELLABLE" THEN p ELSE [p EXCEPT !.sellable = 0]
  BY <1>2 DEF Reserve
<1>4. p \in Position /\ Later(position, p)
  <2>1. s \in Sells /\ tp \in BOOLEAN
    BY DEF Unused
  <2> QED
    BY <1>1, <2>1, ReservedIs, MethodsGoOn
<1> HIDE DEF p
<1>5. Later(position, position')
  BY <1>3, <1>4 DEF Position, Later, Cut
<1>6. \A o \in Sells : intent[o].state # "none" => intent'[o].purpose = intent[o].purpose
  BY <1>1, <1>3 DEF Unused
<1> QED
  BY <1>5, <1>6 DEF GoesOn

LEMMA SellerGoesOn ==
    ASSUME IInv, SellerStep
    PROVE  GoesOn
<1>1. position \in Position /\ intent \in [Sells -> Intent] /\ Later(position, position)
  BY Bounds DEF IInv, Types, Position, Later
<1>2. CASE UNCHANGED rows
  BY <1>1, <1>2 DEF GoesOn, rows
<1>3. CASE /\ UNCHANGED intent
           /\ \/ position' = position \/ position' = RequireReconciliation(position)
              \/ position' = ClearReconciliation(position)
  BY <1>1, <1>3, MethodsGoOn DEF GoesOn, rows
<1>4. ASSUME NEW s, NEW st, intent' = [intent EXCEPT ![s].state = st],
             position' = position \/ position' = WaitingSellable(position, s)
             \/ position' = AfterFailure(position, s)
             \/ (\E success \in BOOLEAN : position' = AfterCancel(position, s, success))
      PROVE  GoesOn
  <2>1. Later(position, position')
    BY <1>1, <1>4, MethodsGoOn
  <2>2. \A o \in Sells : intent'[o].purpose = intent[o].purpose
    BY <1>1, <1>4 DEF Intent
  <2> QED
    BY <2>1, <2>2 DEF GoesOn
<1>5. ASSUME LoadStop \/ LoadTakeProfit \/ LoadResume \/ LoadEmergency \/ AskRun \/ Reload
             \/ BeginExit \/ Settled \/ Post \/ Cleared \/ RefuseUnknown \/ Unsettled \/ Settle
      PROVE  GoesOn
  BY <1>3, <1>5 DEF LoadStop, LoadTakeProfit, LoadResume, LoadEmergency, Load, AskRun, Reload,
                    BeginExit, Settled, Post, Cleared, RefuseUnknown, Unsettled, Settle, rows
<1>6. ASSUME Resume \/ Supersede PROVE GoesOn
  <2>1. UNCHANGED rows \/ \E s : ClearWaiting(s)
    BY <1>6 DEF Resume, Supersede
  <2> QED
    BY <1>2, <1>4, <2>1 DEF ClearWaiting
<1>7. ASSUME TakeProfit \/ Sell PROVE GoesOn
  <2>1. /\ seller.pc \in Working
        /\ UNCHANGED rows \/ \E purpose, asked, st : Reserve(Min(Unused), purpose, asked, st)
    BY <1>7 DEF TakeProfit, Sell, SellerAt, Working
  <2> QED
    BY <1>2, <2>1, ReserveGoesOn
<1>8. ASSUME Cancel PROVE GoesOn
  <2>1. UNCHANGED rows \/ (position' = position
                 /\ \E r : intent' = [intent EXCEPT ![r].state = "CANCEL_REQUESTED"])
    BY <1>8 DEF Cancel, rows
  <2> QED
    BY <1>2, <1>4, <2>1
<1>9. ASSUME NEW success \in BOOLEAN, CancelAnswered(success) PROVE GoesOn
  BY <1>4, <1>9 DEF CancelAnswered
<1>10. ASSUME Insufficient \/ Failed PROVE GoesOn
  BY <1>4, <1>10 DEF Insufficient, Failed
<1>11. ASSUME Accepted \/ LostReply PROVE GoesOn
  <2>1. PICK s, known : Posted(s, known)
    BY <1>11 DEF Accepted, LostReply
  <2>2. position' = position \/ position' = RequireReconciliation(position)
    BY <2>1 DEF Posted
  <2>3. \A o \in Sells : intent'[o].purpose = intent[o].purpose
    BY <1>1, <2>1 DEF Posted, Intent
  <2> QED
    BY <1>1, <2>2, <2>3, MethodsGoOn DEF GoesOn
<1> QED
  BY <1>5, <1>6, <1>7, <1>8, <1>9, <1>10, <1>11 DEF SellerStep

LEMMA RunGoesOn ==
    ASSUME IInv, RunStep
    PROVE  GoesOn
<1>1. position \in Position /\ intent \in [Sells -> Intent] /\ Later(position, position)
  BY Bounds DEF IInv, Types, Position, Later
<1>2. ASSUME UNCHANGED rows PROVE GoesOn
  BY <1>1, <1>2 DEF GoesOn, rows
<1>3. ASSUME NEW s, NEW st, intent' = [intent EXCEPT ![s].state = st],
             \/ position' = position \/ position' = RequireReconciliation(position)
             \/ position' = AfterCancel(position, s, TRUE) \/ position' = Unlink(position, s)
      PROVE  GoesOn
  <2>1. Later(position, position')
    BY <1>1, <1>3, MethodsGoOn
  <2>2. \A o \in Sells : intent'[o].purpose = intent[o].purpose
    BY <1>1, <1>3 DEF Intent
  <2> QED
    BY <2>1, <2>2 DEF GoesOn
<1>4. ASSUME ReadPositions PROVE GoesOn
  BY <1>4, MakersStep DEF GoesOn, Booked, Later
<1>5. ASSUME NEW s \in Sells, Unsubmitted(s) PROVE GoesOn
  <2>1. CASE UNCHANGED rows
    BY <1>2, <2>1
  <2>2. CASE /\ intent' = [intent EXCEPT ![s].state = "ZERO_FILL"]
             /\ position' = [Unlink(position, s) EXCEPT !.state =
                                 IF position.latched THEN "EXITING" ELSE "OPEN"]
    <3>1. Unlink(position, s) \in Position /\ Later(position, Unlink(position, s))
      BY <1>1, UnlinkIs, MethodsGoOn DEF Kindred
    <3>2. Later(position, position')
      BY <2>2, <3>1 DEF Position, Later, Cut
    <3>3. \A o \in Sells : intent'[o].purpose = intent[o].purpose
      BY <1>1, <2>2 DEF Intent
    <3> QED
      BY <3>2, <3>3 DEF GoesOn
  <2> QED
    BY <1>5, <2>1, <2>2 DEF Unsubmitted, rows
<1>6. ASSUME NEW s \in Sells, Filled(s) PROVE GoesOn
  <2> DEFINE fills == intent[s].fills
             final == FilledState(s, fills, StillOpen(s))
  <2>1. CASE /\ position' = AfterFill(position, intent, s, fills, final)
             /\ intent' = [intent EXCEPT ![s] = BookedIntent(@, fills, final)]
    <3>1. fills \in 0..Lot
      BY <1>1 DEF Intent
    <3> HIDE DEF fills, final
    <3>2. Later(position, position')
      BY <1>1, <2>1, <3>1, FillGoesOn
    <3>3. \A o \in Sells : intent'[o].purpose = intent[o].purpose
      BY <1>1, <2>1 DEF Intent, BookedIntent
    <3> QED
      BY <3>2, <3>3 DEF GoesOn
  <2> QED
    BY <1>2, <1>3, <1>6, <2>1 DEF Filled
<1>7. ASSUME NEW s \in Sells, Unfilled(s) PROVE GoesOn
  <2>1. CASE /\ intent' = [intent EXCEPT ![s].state = "LIVE", ![s].filled = 0]
             /\ UNCHANGED position
    <3>1. \A o \in Sells : intent'[o].purpose = intent[o].purpose
      BY <1>1, <2>1 DEF Intent
    <3> QED
      BY <1>1, <2>1, <3>1 DEF GoesOn
  <2> QED
    BY <1>3, <1>7, <2>1 DEF Unfilled
<1>8. ASSUME RemotePositions PROVE GoesOn
  <2>1. CASE position' = position
    BY <1>2, <1>8, <2>1 DEF RemotePositions, rows
  <2>2. CASE position' = Corrected(position, run.feed) /\ ~AfterExit
    <3>1. /\ run.feed \in 0..Lot /\ UNCHANGED intent
          /\ position.booked \in Nat /\ position.remaining \in Nat
      BY <1>8, Bounds DEF IInv, Types, Runs, RemotePositions, Position
    <3>2. /\ position'.remaining = run.feed /\ position'.booked = position.booked
          /\ position'.latched = position.latched
      BY <1>1, <2>2, <3>1, CorrectedIs
    <3>3. Later(position, position')
      BY <2>2, <3>1, <3>2, Bounds DEF Later, Cut, AfterExit
    <3> QED
      BY <3>1, <3>3 DEF GoesOn
  <2> QED
    BY <1>8, <2>1, <2>2 DEF RemotePositions
<1>9. ASSUME ReadOrders \/ ListIntents \/ RunRaises
             \/ \E s \in Sells : Unidentified(s) \/ Unreadable(s)
      PROVE  GoesOn
  BY <1>2, <1>9 DEF ReadOrders, ListIntents, RunRaises, Unidentified, Unreadable
<1> QED
  BY <1>4, <1>5, <1>6, <1>7, <1>8, <1>9 DEF RunStep

LEMMA AllGoOn ==
    ASSUME IInv, [Next]_vars
    PROVE  GoesOn
<1>1. position \in Position /\ Later(position, position)
  BY Bounds DEF IInv, Types, Position, Later
<1>2. CASE FrameLatches
  BY <1>1, <1>2, MethodsGoOn DEF FrameLatches, GoesOn
<1>3. CASE RefreshHot \/ Crash \/ VenueStep \/ UNCHANGED vars
  BY <1>1, <1>3 DEF RefreshHot, Crash, VenueStep, Arrive, Fill, CancelArrives, Show, At, vars,
                    rows, GoesOn
<1> QED
  BY <1>2, <1>3, SellerGoesOn, RunGoesOn DEF Next

-----------------------------------------------------------------------------
(* The exit implements its custody *)

\* Outside of a post and of the venue's own steps nothing happens there.
LEMMA VenueStill ==
    ASSUME [Next]_vars, ~Post, ~VenueStep
    PROVE  venue' = venue
<1>1. ASSUME SellerStep PROVE venue' = venue
  BY <1>1 DEF SellerStep, LoadStop, LoadTakeProfit, LoadResume, LoadEmergency, Load, AskRun,
              Resume, Reload, TakeProfit, BeginExit, Supersede, RefuseUnknown, Cancel,
              CancelAnswered, Settle, Settled, Unsettled, Sell, Insufficient, Failed,
              Accepted, LostReply, Cleared
<1>2. ASSUME RunStep PROVE venue' = venue
  BY <1>2 DEF RunStep, ReadOrders, ReadPositions, ListIntents, Unidentified, Unsubmitted,
              Filled, Unfilled, Unreadable, RemotePositions, RunRaises
<1> QED
  BY <1>1, <1>2 DEF Next, RefreshHot, FrameLatches, Crash, vars

\* What is posted joins what may be filled.
LEMMA PostAdds ==
    ASSUME IInv, Post
    PROVE  /\ seller.pc = "posting" /\ seller.sell \in Sells
           /\ AtVenue' = AtVenue \cup {seller.sell} /\ seller.sell \notin AtVenue
           /\ SoldAtVenue' = SoldAtVenue /\ UNCHANGED <<position, intent>>
<1>1. /\ seller.pc = "posting" /\ seller.sell \in Sells /\ venue[seller.sell].at = "none"
      /\ venue \in [Sells -> VenueOrder] /\ UNCHANGED <<position, intent>>
      /\ venue' = [venue EXCEPT ![seller.sell].at = "sent"]
  BY DEF Post, SellerAt, IInv, Types, SellerOK, SellingOK, Selling, rows
<1>2. /\ venue'[seller.sell].at = "sent"
      /\ \A o \in Sells : o # seller.sell => venue'[o] = venue[o]
      /\ \A o \in Sells : venue'[o].filled = venue[o].filled
  BY <1>1 DEF VenueOrder
<1>3. SoldAtVenue' = SoldAtVenue
  BY <1>2 DEF SoldAtVenue
<1>4. AtVenue' = AtVenue \cup {seller.sell} /\ seller.sell \notin AtVenue
  BY <1>1, <1>2 DEF AtVenue
<1> QED
  BY <1>1, <1>3, <1>4

\* As long as the exit is orderly its row links to the take-profit that rests.
LEMMA OrderlyLinks ==
    ASSUME IInv, Orderly, NEW s \in AtVenue, IsTp(s)
    PROVE  position.tp = s
<1>1. Kept(s) /\ s \in Sells /\ venue[s].at # "none"
  BY DEF IInv, LinksOK, LinksAreKept, AtVenue
<1> QED
  BY <1>1 DEF Kept, Orderly, Replaced

\* A sell that is posted then finds no other.
LEMMA PostFindsNone ==
    ASSUME IInv, Post, Orderly
    PROVE  AtVenue = {}
<1>1. SUFFICES ASSUME NEW o \in AtVenue PROVE FALSE
  OBVIOUS
<1>2. seller.pc = "posting" /\ seller.sell \in Sells /\ seller.sell \notin AtVenue
  BY PostAdds
<1>3. NoExitAtVenue
  BY <1>2 DEF IInv, OneSell, Orderly
<1>4. o \in Sells /\ IsTp(o) /\ position.tp = o
  BY <1>1, <1>3, OrderlyLinks DEF NoExitAtVenue, ExitAtVenue, AtVenue
<1>5. position.tp \in {seller.sell, None}
  BY <1>2 DEF IInv, SellerOK, SellingOK, Selling
<1> QED
  BY <1>1, <1>2, <1>4, <1>5, Bounds

\* The venue's own steps only end what may be filled, and sell some of it.
LEMMA VenueTrades ==
    ASSUME IInv, VenueStep, Types', Covered'
    PROVE  /\ AtVenue' \subseteq AtVenue /\ UNCHANGED <<position, intent>>
           /\ SoldAtVenue' \in SoldAtVenue..Lot
           /\ AtVenue # {} \/ (AtVenue' = AtVenue /\ SoldAtVenue' = SoldAtVenue)
<1>1. PICK s \in Sells : Arrive(s) \/ Fill(s) \/ CancelArrives(s) \/ Show(s)
  BY DEF VenueStep
<1>2. /\ venue \in [Sells -> VenueOrder] /\ SellOK(s) /\ UNCHANGED <<position, intent>>
      /\ venue' \in [Sells -> VenueOrder] /\ venue[s].filled \in Nat /\ intent[s].asked \in Nat
  <2>1. UNCHANGED <<position, intent>>
    BY <1>1 DEF Arrive, Fill, CancelArrives, At, Show, rows
  <2>2. venue[s] \in VenueOrder /\ intent[s] \in Intent /\ SellOK(s)
    BY DEF IInv, Types, IntentsOK
  <2> QED
    BY <2>1, <2>2, Bounds DEF IInv, Types, VenueOrder, Intent
<1>3. CASE Show(s)
  <2>1. \A o \in Sells : venue'[o].at = venue[o].at /\ venue'[o].filled = venue[o].filled
    BY <1>2, <1>3 DEF Show, VenueOrder
  <2>2. AtVenue' = AtVenue
    BY <2>1 DEF AtVenue
  <2>3. SoldAtVenue' = SoldAtVenue /\ SoldAtVenue \in 0..Lot
    <3>1. SoldAtVenue' = SoldAtVenue
      BY <2>1 DEF SoldAtVenue
    <3>2. SoldAtVenue \in Nat /\ Offered \in Nat /\ SoldAtVenue + Offered <= Lot
      BY SumTypes DEF IInv, Sums
    <3> QED
      BY <3>1, <3>2, Bounds
  <2> QED
    BY <1>2, <2>2, <2>3
<1>4. CASE Arrive(s) \/ Fill(s) \/ CancelArrives(s)
  <2>1. /\ venue[s].at \in {"sent", "open"}
        /\ \E at, n : At(s, at, n) /\ n \in Nat /\ n >= venue[s].filled
    <3>1. CASE Arrive(s)
      <4>1. venue[s].at = "sent" /\ venue[s].filled = 0
        BY <1>2, <3>1 DEF Arrive, SellOK
      <4> QED
        BY <1>2, <3>1, <4>1 DEF Arrive
    <3>2. CASE Fill(s)
      <4>1. venue[s].at = "open" /\ (~IsTp(s) => venue[s].filled = 0)
        BY <1>2, <3>2 DEF Fill, IsOpen, SellOK
      <4> QED
        BY <1>2, <3>2, <4>1 DEF Fill
    <3>3. CASE CancelArrives(s)
      BY <1>2, <3>3 DEF CancelArrives, IsOpen
    <3> QED
      BY <1>4, <3>1, <3>2, <3>3
  <2>2. PICK at, n : At(s, at, n) /\ n \in Nat /\ n >= venue[s].filled
    BY <2>1
  <2>3. /\ \A o \in Sells : o # s => venue'[o] = venue[o]
        /\ venue'[s].filled >= venue[s].filled
    BY <1>2, <2>2 DEF At, VenueOrder
  <2>4. s \in AtVenue
    BY <2>1 DEF AtVenue
  <2>5. AtVenue' \subseteq AtVenue
    BY <2>3, <2>4 DEF AtVenue
  <2>6. SoldAtVenue' \in SoldAtVenue..Lot
    <3> DEFINE f == [o \in Sells |-> venue[o].filled]
               g == [o \in Sells |-> venue'[o].filled]
    <3>1. /\ f \in [Sells -> Nat] /\ g \in [Sells -> Nat]
          /\ \A o \in Sells : f[o] <= g[o]
      BY <1>2, <2>3, Bounds DEF VenueOrder
    <3>2. SoldAtVenue = Total(f) /\ SoldAtVenue' = Total(g)
      BY DEF SoldAtVenue
    <3> HIDE DEF f, g
    <3>3. Total(f) <= Total(g) /\ Total(f) \in Nat /\ Total(g) \in Nat
      BY <3>1, TotalMonotonic, TotalType
    <3>4. SoldAtVenue' + Offered' <= Lot /\ Offered' \in Nat
      BY DEF Covered, BooksAreCovered
    <3> QED
      BY <3>2, <3>3, <3>4, Bounds
  <2> QED
    BY <1>2, <2>4, <2>5, <2>6
<1> QED
  BY <1>1, <1>3, <1>4

LEMMA StepRefines ==
    ASSUME IInv, [Next]_vars, Types', Covered'
    PROVE  [Custody!Book \/ Custody!Trade \/ Custody!Offer]_(Custody!custodyVars)
<1>1. GoesOn
  BY AllGoOn
<1>2. CASE VenueStep
  <2>1. /\ AtVenue' \subseteq AtVenue /\ position' = position
        /\ SoldAtVenue' \in SoldAtVenue..Lot
        /\ AtVenue # {} \/ (AtVenue' = AtVenue /\ SoldAtVenue' = SoldAtVenue)
        /\ intent' = intent
    BY <1>2, VenueTrades
  <2>2. ExitsAtVenue' = ExitsAtVenue \cap AtVenue'
    BY <2>1 DEF ExitsAtVenue, IsTp
  <2>3. AtVenue' = AtVenue => ExitsAtVenue' = ExitsAtVenue
    BY <2>2 DEF ExitsAtVenue
  <2> QED
    BY <2>1, <2>2, <2>3 DEF Custody!Trade, Custody!custodyVars
<1>3. CASE Post
  <2>1. /\ seller.pc = "posting" /\ seller.sell \in Sells
        /\ AtVenue' = AtVenue \cup {seller.sell} /\ seller.sell \notin AtVenue
        /\ SoldAtVenue' = SoldAtVenue /\ UNCHANGED <<position, intent>>
    BY <1>3, PostAdds
  <2>2. Orderly => AtVenue = {}
    BY <1>3, PostFindsNone
  <2>3. PICK s \in Sells : s = seller.sell
    BY <2>1
  <2>4. \A o \in Sells : IsTp(o)' <=> IsTp(o)
    BY <2>1 DEF IsTp
  <2>5. ~IsTp(s) => ExitsAtVenue = {}
    BY <2>1, <2>3 DEF IInv, OneSell, NoExitAtVenue, ExitAtVenue, ExitsAtVenue, AtVenue
  <2>6. ExitsAtVenue' = ExitsAtVenue \/ (ExitsAtVenue = {} /\ ExitsAtVenue' = {s})
    <3>1. AtVenue' = AtVenue \cup {s} /\ AtVenue' \subseteq Sells
      BY <2>1, <2>3 DEF AtVenue
    <3>2. ExitsAtVenue' = {o \in AtVenue' : ~IsTp(o)}
      BY <2>4, <3>1 DEF ExitsAtVenue
    <3> QED
      BY <2>5, <3>1, <3>2 DEF ExitsAtVenue
  <2> QED
    BY <2>1, <2>2, <2>3, <2>6 DEF Custody!Offer
<1>4. CASE ~VenueStep /\ ~Post
  <2>1. venue' = venue
    BY <1>4, VenueStill
  <2>2. AtVenue' = AtVenue /\ SoldAtVenue' = SoldAtVenue
    BY <2>1 DEF AtVenue, SoldAtVenue
  <2>3. ExitsAtVenue' = ExitsAtVenue
    <3>1. \A o \in AtVenue : o \in Sells /\ intent[o].state # "none"
      BY DEF IInv, IntentsOK, SellOK, AtVenue
    <3>2. \A o \in AtVenue : IsTp(o)' <=> IsTp(o)
      BY <1>1, <3>1 DEF GoesOn, IsTp
    <3> QED
      BY <2>2, <3>2 DEF ExitsAtVenue
  <2>4. position'.booked \in position.booked..SoldAtVenue
    <3>1. /\ position.booked \in Nat /\ position'.booked \in Nat /\ SoldAtVenue' \in Nat
          /\ position'.booked <= SoldAtVenue'
      BY Bounds DEF IInv, Types, Position, Covered, BooksAreCovered
    <3> QED
      BY <1>1, <2>2, <3>1 DEF GoesOn, Later
  <2> QED
    BY <1>1, <2>2, <2>3, <2>4 DEF GoesOn, Later, Custody!Book
<1> QED
  BY <1>2, <1>3, <1>4

\* However the take-profit, the latched stop, the operator's close and the
\* reconciliation run interleave, and whatever fails together, the exit is an
\* implementation of its custody: as long as it is orderly no sell is offered
\* beside one that may be filled, and never a stop or a close beside another;
\* nothing is booked that the venue did not sell; and a latched stop stays
\* latched.
THEOREM ExitRefines == Spec => RefinesExitCustody
<1>1. Init => Custody!CustodyInit
  <2> SUFFICES ASSUME Init PROVE Custody!CustodyInit
    OBVIOUS
  <2>1. IInv /\ position.booked = 0 /\ position.latched = FALSE
    BY InitKeeps DEF Init
  <2>2. \A s \in Sells : venue[s].at = "none" /\ venue[s].filled = 0
    BY DEF Init, NoOrder
  <2>3. AtVenue = {}
    BY <2>2 DEF AtVenue
  <2>4. SoldAtVenue = 0
    <3> DEFINE f == [s \in Sells |-> venue[s].filled]
    <3>1. f \in [Sells -> Nat] /\ \A s \in Sells : f[s] = 0
      BY <2>2
    <3>2. SoldAtVenue = Total(f)
      BY DEF SoldAtVenue
    <3> HIDE DEF f
    <3> QED
      BY <3>1, <3>2, TotalZero
  <2> QED
    BY <2>1, <2>3, <2>4 DEF Custody!CustodyInit, ExitsAtVenue
<1>2. IInv /\ [Next]_vars /\ Types' /\ Covered' =>
        [Custody!Book \/ Custody!Trade \/ Custody!Offer]_(Custody!custodyVars)
  BY StepRefines
<1>3. IInv => Types /\ Covered
  BY CoveredIs DEF IInv
<1> QED
  BY <1>1, <1>2, <1>3, InvariantHolds, PTL DEF Spec, RefinesExitCustody, Custody!CustodySpec

\* A stop or an emergency close is posted beside another only if that one is
\* over: however an answer, a cancellation or the process is lost.
THEOREM OneExitOnly == Spec => []OneExitAtATime
<1>1. Init => OneExitAtATime
  BY DEF Init, OneExitAtATime, ExitAtVenue, AtVenue, NoOrder
<1>2. ASSUME IInv, [Next]_vars, Types', Covered', OneExitAtATime
      PROVE  OneExitAtATime'
  <2>1. \A o \in AtVenue : o \in Sells /\ intent[o].state # "none"
    BY <1>2 DEF IInv, IntentsOK, SellOK, AtVenue
  <2>2. \A o \in AtVenue : IsTp(o)' <=> IsTp(o)
    BY <1>2, <2>1, AllGoOn DEF GoesOn, IsTp
  <2>3. CASE Post
    <3>1. /\ seller.pc = "posting" /\ AtVenue' = AtVenue \cup {seller.sell} /\ intent' = intent
      BY <1>2, <2>3, PostAdds
    <3>2. PICK s \in Sells : s = seller.sell
      BY <1>2, <2>3, PostAdds
    <3>3. ~IsTp(s) => NoExitAtVenue
      BY <1>2, <3>1, <3>2 DEF IInv, OneSell
    <3>4. \A o \in Sells : ExitAtVenue(o)' => ExitAtVenue(o) \/ (o = s /\ ~IsTp(s))
      BY <3>1, <3>2 DEF ExitAtVenue, IsTp
    <3> QED
      BY <1>2, <3>3, <3>4 DEF OneExitAtATime, NoExitAtVenue
  <2>4. CASE ~Post
    <3>1. AtVenue' \subseteq AtVenue
      <4>1. CASE VenueStep
        BY <1>2, <4>1, VenueTrades
      <4>2. CASE ~VenueStep
        BY <1>2, <2>4, <4>2, VenueStill DEF AtVenue
      <4> QED
        BY <4>1, <4>2
    <3> QED
      BY <1>2, <2>2, <3>1 DEF OneExitAtATime, ExitAtVenue
  <2> QED
    BY <2>3, <2>4
<1>3. IInv => Types /\ Covered
  BY CoveredIs DEF IInv
<1> QED
  BY <1>1, <1>2, <1>3, InvariantHolds, PTL DEF Spec

LEMMA ReplacedStays ==
    ASSUME IInv, [Next]_vars, Types', Covered', Replaced
    PROVE  Replaced'
<1>1. PICK o, s \in Sells : /\ o # s /\ IsTp(o) /\ IsTp(s)
                            /\ venue[o].at = "canceled" /\ venue[s].at # "none"
  BY DEF Replaced
<1>2. IsTp(o)' /\ IsTp(s)'
  <2>1. intent[o].state # "none" /\ intent[s].state # "none"
    BY <1>1 DEF IInv, IntentsOK, SellOK
  <2> QED
    BY <1>1, <2>1, AllGoOn DEF GoesOn, IsTp
<1>3. venue'[o].at = "canceled" /\ venue'[s].at # "none"
  <2>1. CASE Post
    <3>1. /\ venue[seller.sell].at = "none" /\ venue \in [Sells -> VenueOrder]
          /\ venue' = [venue EXCEPT ![seller.sell].at = "sent"]
      BY <2>1 DEF Post, SellerAt, IInv, Types, SellerOK, SellingOK, Selling
    <3> QED
      BY <1>1, <3>1 DEF VenueOrder
  <2>2. CASE VenueStep
    <3>1. PICK c \in Sells : Arrive(c) \/ Fill(c) \/ CancelArrives(c) \/ Show(c)
      BY <2>2 DEF VenueStep
    <3>2. venue \in [Sells -> VenueOrder]
      BY DEF IInv, Types
    <3>3. CASE Show(c)
      BY <1>1, <3>2, <3>3 DEF Show, VenueOrder
    <3>4. CASE Arrive(c) \/ Fill(c) \/ CancelArrives(c)
      <4>1. /\ venue[c].at \in {"sent", "open"}
            /\ \E at, n : At(c, at, n) /\ at \in {"open", "matched", "canceled", "dead"}
        BY <3>4 DEF Arrive, Fill, CancelArrives, IsOpen
      <4>2. PICK at, n : At(c, at, n) /\ at \in {"open", "matched", "canceled", "dead"}
        BY <4>1
      <4> QED
        BY <1>1, <3>2, <4>1, <4>2 DEF At, VenueOrder
    <3> QED
      BY <3>1, <3>3, <3>4
  <2> QED
    BY <1>1, <2>1, <2>2, VenueStill
<1> QED
  BY <1>1, <1>2, <1>3 DEF Replaced

\* As long as the exit is orderly, a sell is posted only when no other may be
\* filled: neither a take-profit that rests nor an exit without an answer.
THEOREM OrderlyIsOneSell == Spec => [](Orderly => OneSellAtATime)
<1> DEFINE One == Orderly => \A s, o \in AtVenue : s = o
<1>1. Init => One
  BY DEF Init, AtVenue, NoOrder
<1>2. ASSUME IInv, [Next]_vars, Types', Covered', One
      PROVE  One'
  <2>1. SUFFICES ASSUME Orderly'
                 PROVE  \A s, o \in AtVenue' : s = o
    OBVIOUS
  <2>2. faults' = faults
    <3>1. ASSUME SellerStep PROVE faults' = faults
      BY <3>1 DEF SellerStep, LoadStop, LoadTakeProfit, LoadResume, LoadEmergency, Load, AskRun,
              Resume, Reload, TakeProfit, BeginExit, Supersede, RefuseUnknown, Cancel, Post,
              CancelAnswered, Settle, Settled, Unsettled, Sell, Insufficient, Failed,
              Accepted, LostReply, Cleared, memory
    <3>2. ASSUME RunStep PROVE faults' = faults
      BY <3>2 DEF RunStep, ReadOrders, ReadPositions, ListIntents, Unidentified, Unsubmitted,
              Filled, Unfilled, Unreadable, RemotePositions, RunRaises, memory
    <3>3. ASSUME VenueStep PROVE faults' = faults
      BY <3>3 DEF VenueStep, Arrive, Fill, CancelArrives, At, Show, memory
    <3> QED
      BY <1>2, <3>1, <3>2, <3>3 DEF Next, RefreshHot, FrameLatches, Crash, vars
  <2>3. Orderly
    BY <1>2, <2>1, <2>2, AllGoOn, ReplacedStays DEF Orderly, GoesOn, Later
  <2>4. CASE Post
    <3>1. /\ seller.pc = "posting" /\ seller.sell \in Sells
          /\ AtVenue' = AtVenue \cup {seller.sell} /\ seller.sell \notin AtVenue
      BY <1>2, <2>4, PostAdds
    <3>2. AtVenue = {}
      BY <1>2, <2>3, <2>4, PostFindsNone
    <3> QED
      BY <3>1, <3>2
  <2>5. CASE ~Post
    <3>1. AtVenue' \subseteq AtVenue
      <4>1. CASE VenueStep
        BY <1>2, <4>1, VenueTrades
      <4>2. CASE ~VenueStep
        BY <1>2, <2>5, <4>2, VenueStill DEF AtVenue
      <4> QED
        BY <4>1, <4>2
    <3> QED
      BY <1>2, <2>3, <3>1
  <2> QED
    BY <2>4, <2>5
<1>3. IInv => Types /\ Covered
  BY CoveredIs DEF IInv
<1>4. One => (Orderly => OneSellAtATime)
  <2> SUFFICES ASSUME \A s, o \in AtVenue : s = o PROVE OneSellAtATime
    OBVIOUS
  <2>1. CASE AtVenue = {}
    BY <2>1, FS_EmptySet DEF OneSellAtATime
  <2>2. CASE AtVenue # {}
    <3>1. PICK s : AtVenue = {s}
      BY <2>2
    <3> QED
      BY <3>1, FS_Singleton DEF OneSellAtATime
  <2> QED
    BY <2>1, <2>2
<1> HIDE DEF One
<1>5. Spec => []One
  BY <1>1, <1>2, <1>3, InvariantHolds, PTL DEF Spec
<1> QED
  BY <1>4, <1>5, PTL
=============================================================================
