---------------------------- MODULE EntryProofs ----------------------------
(***************************************************************************)
(* Proofs about EntryLifecycle, for every value of its constants: any      *)
(* number of events, tokens and attempts, any lot, with crashes and sales. *)
(***************************************************************************)
EXTENDS EntryLifecycle, FiniteSetTheorems, TLAPS

-----------------------------------------------------------------------------
(* What holds whatever the venue shows when *)

Tried(o) == intent[o].state # "none"

\* whoever works on an order works on one that was reserved, for a side
Sided ==
    /\ \A o \in Orders : Tried(o) => intent[o].side \in Sides
    /\ \A o \in Orders : venue[o].at # "none" => Tried(o)
    /\ \A e \in Events : IF position[e].state # "none" THEN position[e].side \in Sides
                        ELSE ~position[e].sold
    /\ worker.pc # "idle" => worker.order \in Orders /\ Tried(worker.order)
    /\ worker.pc \in {"reserved", "signing"} => venue[worker.order].at = "none"
    /\ \A o \in run.todo \cup run.pending : Tried(o)

\* the attempts of an event are used in order
InOrder ==
    \A o, p \in Orders :
        EventOf(o) = EventOf(p) /\ o[2] < p[2] /\ Tried(p) => Tried(o)

\* what is known of an order's shares is at most what it bought
Counted ==
    \A o \in Orders :
        /\ venue[o].at # "matched" => venue[o].filled = 0
        /\ venue[o].shown <= venue[o].filled
        /\ intent[o].fills <= venue[o].filled
        /\ run.trades[o] <= venue[o].filled

\* before a sale the account has all that was bought, and no view shows more
Backed ==
    /\ \A o \in Orders : Tried(o) /\ ~position[EventOf(o)].sold
                            => venue[o].filled <= owned[TokenOf(o)]
    /\ \A t \in Tokens : ~position[t[1]].sold
                            => feed[t] <= owned[t] /\ run.held[t] <= owned[t]

EntryInv ==
    TypeOK /\ Sided /\ InOrder /\ Counted /\ Backed /\ NoPhantomShares

-----------------------------------------------------------------------------
(* What holds when the venue is prompt *)

Used(o) == intent[o].state \notin {"none", "ZERO_FILL"}
HasBought(o) == venue[o].filled > 0
Occupied(e) ==
    \/ \E o \in Orders : EventOf(o) = e /\ IsUnresolved(o)
    \/ position[e].state \in ActiveStates

\* an event has one attempt at most that is not a zero fill: its last
OneUsed ==
    \A o, p \in Orders :
        EventOf(o) = EventOf(p) /\ o[2] < p[2] /\ Tried(p)
            => intent[o].state = "ZERO_FILL"

\* where the worker is, its order is
WorkerKnows ==
    LET o == worker.order
    IN  /\ worker.pc = "reserved" => intent[o].state = "RESERVED"
        /\ worker.pc \in {"signing", "posted"} => intent[o].state = "SUBMITTING"
        /\ worker.pc \in {"reserved", "signing"} => venue[o].at = "none"
        /\ worker.pc \in {"reserved", "signing", "posted"} => ~intent[o].known
        /\ worker.pc \in {"posted", "publishing"} => venue[o].at # "none"
        /\ worker.pc # "idle" => \A p \in Orders :
                EventOf(p) = EventOf(o) /\ Tried(p) => p[2] <= o[2]

KnownStates == {"RECONCILIATION_REQUIRED", "LIVE", "FILLED", "ZERO_FILL"}

\* what the rows know of an order that has an id, and of one that has none
KnownOrders ==
    \A o \in Orders :
        /\ intent[o].known => intent[o].state \in KnownStates
                               /\ venue[o].at \in {"open", "matched", "dead"}
        /\ o \in run.todo => intent[o].known /\ intent[o].state # "ZERO_FILL"
        /\ o \in run.pending => intent[o].known /\ venue[o].at = "matched"

\* when the grace of an order is over, a run that asks for it has its trades
GraceIsEnough ==
    \A o \in Orders : venue[o].late =>
        /\ venue[o].at \in {"matched", "dead"} /\ venue[o].shown = venue[o].filled
        /\ ~WorkerAt("posted", o)
        /\ intent[o].known =>
            \/ run.pc \in {"idle", "orders"}
            \/ run.pc = "trades" /\ run.trades[o] = venue[o].filled
            \/ intent[o].fills = venue[o].filled

MatchedBought == \A o \in Orders : venue[o].at = "matched" => HasBought(o)

\* an order that may fill is unresolved, and shares held have a row or an
\* unresolved order
Exposed ==
    /\ \A o \in Orders : Out(o) => IsUnresolved(o)
    /\ \A t \in Tokens : owned[t] > 0 => Occupied(t[1])
    /\ \A o \in run.todo : Occupied(EventOf(o))

OneOccupied == \A e, f \in Events : Occupied(e) /\ Occupied(f) => e = f

\* a view of a token's shares shows those of the event's one purchase, or none
IsView(t, shares) ==
    shares > 0 => \E o \in Orders :
        HasBought(o) /\ TokenOf(o) = t /\ venue[o].filled = shares
Viewed ==
    /\ \A t \in Tokens :
        IsView(t, owned[t]) /\ IsView(t, feed[t]) /\ IsView(t, run.held[t])
    /\ \A e \in Events : IsView(<<e, position[e].side>>, position[e].sellable)

\* a row is of the side that was bought; what was sold is gone
RowsAreBought ==
    /\ \A e \in Events : position[e].state # "none" => \E o \in Orders :
            HasBought(o) /\ TokenOf(o) = <<e, position[e].side>>
    /\ \A e \in Events : position[e].state = "none" => position[e].sellable = 0
    /\ \A e \in Events : position[e].state = "CLOSED" =>
            position[e].sold /\ position[e].remaining = 0 /\ position[e].sellable = 0
    /\ \A o \in Orders : HasBought(o) =>
            owned[TokenOf(o)] = venue[o].filled \/ position[EventOf(o)].sold

PromptInv ==
    /\ OneUsed /\ WorkerKnows /\ KnownOrders /\ GraceIsEnough /\ MatchedBought
    /\ ZeroFillIsTrue /\ Exposed /\ OneOccupied /\ Viewed /\ RowsAreBought

-----------------------------------------------------------------------------
(* Orders and tokens *)

LEMMA OrderFacts ==
    ASSUME NEW o \in Orders
    PROVE  EventOf(o) \in Events /\ o[2] \in Attempts /\ o[2] \in Nat
           /\ o = <<EventOf(o), o[2]>> /\ o # None
  BY EntryAssumption DEF Orders, Attempts, EventOf

LEMMA SameOrder ==
    ASSUME NEW o \in Orders, NEW p \in Orders,
           EventOf(o) = EventOf(p), o[2] = p[2]
    PROVE  o = p
  BY DEF Orders, EventOf

LEMMA TokenFacts ==
    ASSUME NEW t \in Tokens
    PROVE  t[1] \in Events /\ t[2] \in Sides /\ t = <<t[1], t[2]>>
  BY DEF Tokens

LEMMA TokenOfFacts ==
    ASSUME NEW o \in Orders, intent[o].side \in Sides
    PROVE  TokenOf(o) \in Tokens /\ TokenOf(o)[1] = EventOf(o)
           /\ TokenOf(o)[2] = intent[o].side
  BY OrderFacts DEF Tokens, TokenOf

IntentStates == {"none"} \cup Final \cup Unresolved

LEMMA IntentStatesAre ==
    IntentStates = {"none", "FILLED", "ZERO_FILL", "REJECTED", "RESERVED",
                    "SUBMITTING", "RECONCILIATION_REQUIRED", "LIVE"}
  BY DEF IntentStates, Final, Unresolved

LEMMA IntentType ==
    ASSUME NEW i \in Intent
    PROVE  /\ i.state \in IntentStates /\ i.side \in Sides \cup {None}
           /\ i.known \in BOOLEAN /\ i.filled \in Nat /\ i.fills \in 0..Lot
           /\ \A s \in IntentStates : [i EXCEPT !.state = s] \in Intent
           /\ \A n \in 0..Lot : [i EXCEPT !.fills = n] \in Intent
           /\ \A s \in IntentStates, n \in Nat :
                  [i EXCEPT !.state = s, !.filled = n] \in Intent
           /\ \A s \in IntentStates, b \in BOOLEAN :
                  [i EXCEPT !.state = s, !.known = b] \in Intent
  BY DEF Intent, IntentStates

LEMMA CountTypes ==
    /\ \A i \in Intent : i.fills \in Nat /\ i.filled \in Nat
    /\ \A v \in VenueOrder : v.filled \in Nat /\ v.shown \in Nat
  BY EntryAssumption DEF Intent, VenueOrder

LEMMA NoneTypes ==
    /\ NoIntent \in Intent /\ NoIntent.state = "none"
    /\ NoPosition \in Position /\ NoPosition.state = "none"
    /\ NoOrder \in VenueOrder /\ NoOrder.at = "none" /\ NoOrder.filled = 0
    /\ NoOrder.shown = 0 /\ ~NoOrder.late
  <1>1. NoIntent \in Intent /\ NoIntent.state = "none"
    BY EntryAssumption DEF NoIntent, Intent
  <1>2. NoPosition \in Position /\ NoPosition.state = "none"
    BY DEF NoPosition, Position
  <1>3. /\ NoOrder \in VenueOrder /\ NoOrder.at = "none" /\ NoOrder.filled = 0
        /\ NoOrder.shown = 0 /\ ~NoOrder.late
    BY EntryAssumption DEF NoOrder, VenueOrder
  <1>. QED BY <1>1, <1>2, <1>3

LEMMA ReservedType ==
    ASSUME NEW side \in Sides
    PROVE  LET i == [NoIntent EXCEPT !.state = "RESERVED", !.side = side]
           IN  /\ i \in Intent /\ i.state = "RESERVED" /\ i.side = side
               /\ ~i.known /\ i.filled = 0 /\ i.fills = 0
  <1>1. NoIntent \in Intent /\ ~NoIntent.known /\ NoIntent.filled = 0 /\ NoIntent.fills = 0
    BY NoneTypes DEF NoIntent
  <1>. QED BY <1>1 DEF Intent, Unresolved

-----------------------------------------------------------------------------
(* What the steps on the rows do, field by field *)

\* the rows of two moments differ in what an order is called, and no more
SameFills ==
    \A p \in Orders :
        /\ intent'[p].side = intent[p].side /\ intent'[p].fills = intent[p].fills
        /\ Tried(p)' <=> Tried(p)

LEMMA SetStateEffect ==
    ASSUME TypeOK, NEW o \in Orders, Tried(o), NEW s \in Final \cup Unresolved,
           SetState(o, s)
    PROVE  /\ intent' \in [Orders -> Intent] /\ SameFills
           /\ \A p \in Orders :
                 /\ p # o => intent'[p] = intent[p]
                 /\ intent'[p].known = intent[p].known
                 /\ intent'[p].filled = intent[p].filled
           /\ intent'[o].state = s
           /\ UNCHANGED <<event, position>>
  <1>1. intent \in [Orders -> Intent] /\ intent' = [intent EXCEPT ![o].state = s]
    BY DEF TypeOK, SetState
  <1>2. s \in IntentStates /\ s # "none" /\ intent[o] \in Intent
    BY <1>1 DEF IntentStates, Final, Unresolved
  <1>3. [intent[o] EXCEPT !.state = s] \in Intent
    BY <1>2, IntentType
  <1>4. UNCHANGED <<event, position>>
    BY DEF SetState
  <1>. QED BY <1>1, <1>2, <1>3, <1>4 DEF SameFills, Tried, Intent

LEMMA MarkZeroFillEffect ==
    ASSUME TypeOK, NEW o \in Orders, Tried(o), MarkZeroFill(o)
    PROVE  /\ intent' \in [Orders -> Intent] /\ SameFills
           /\ \A p \in Orders :
                 /\ p # o => intent'[p] = intent[p]
                 /\ intent'[p].known = intent[p].known
                 /\ intent'[p].filled = intent[p].filled
           /\ intent'[o].state = "ZERO_FILL"
           /\ intent[o].fills = 0
           /\ event' = [event EXCEPT ![EventOf(o)] = "ENTRY_ZERO_FILL"]
           /\ UNCHANGED position
  <1>1. /\ intent \in [Orders -> Intent]
        /\ intent' = [intent EXCEPT ![o].state = "ZERO_FILL"]
    BY DEF TypeOK, MarkZeroFill
  <1>2. "ZERO_FILL" \in IntentStates /\ intent[o] \in Intent
    BY <1>1 DEF IntentStates, Final
  <1>3. [intent[o] EXCEPT !.state = "ZERO_FILL"] \in Intent
    BY <1>2, IntentType
  <1>4. /\ event' = [event EXCEPT ![EventOf(o)] = "ENTRY_ZERO_FILL"]
        /\ UNCHANGED position /\ intent[o].fills = 0
    BY DEF MarkZeroFill, NoFill
  <1>. QED BY <1>1, <1>2, <1>3, <1>4 DEF SameFills, Tried, Intent

LEMMA OpenPositionEffect ==
    ASSUME TypeOK, NEW o \in Orders, Tried(o), NEW shares \in Nat,
           OpenPosition(o, shares)
    PROVE  LET e == EventOf(o)
           IN  /\ intent' \in [Orders -> Intent] /\ SameFills
               /\ \A p \in Orders :
                     /\ p # o => intent'[p] = intent[p]
                     /\ intent'[p].known = intent[p].known
               /\ intent'[o].state = "FILLED"
               /\ event' \in [Events -> {event[f] : f \in Events} \cup {"OPEN", "DUST"}]
               /\ position' \in [Events -> Position]
               /\ \A f \in Events : f # e => position'[f] = position[f]
               /\ position'[e].state \in {"OPEN", "DUST"}
               /\ position'[e].remaining = shares /\ position'[e].sellable = 0
               /\ position[e].state # "none" =>
                     /\ position'[e].side = position[e].side
                     /\ position'[e].sold = position[e].sold
               /\ position[e].state = "none" =>
                     position'[e].side = intent[o].side /\ ~position'[e].sold
  <1> DEFINE e == EventOf(o)
             state == IF shares < MinOrder THEN "DUST" ELSE "OPEN"
             old == IF position[e].state # "none" THEN position[e]
                    ELSE [NoPosition EXCEPT !.side = intent[o].side, !.acquired = shares]
             new == [old EXCEPT !.state = state, !.remaining = shares, !.sellable = 0]
  <1>1. /\ intent \in [Orders -> Intent] /\ position \in [Events -> Position]
        /\ e \in Events /\ event \in [Events -> {event[f] : f \in Events}]
    BY OrderFacts DEF TypeOK
  <1>2. /\ intent' = [intent EXCEPT ![o].state = "FILLED", ![o].filled = shares]
        /\ position' = [position EXCEPT ![e] = new]
        /\ event' = [event EXCEPT ![e] = state]
    BY DEF OpenPosition
  <1>3. "FILLED" \in IntentStates /\ intent[o] \in Intent
    BY <1>1 DEF IntentStates, Final
  <1>4. [intent[o] EXCEPT !.state = "FILLED", !.filled = shares] \in Intent
    BY <1>3, IntentType
  <1>5. /\ old \in Position
        /\ position[e].state # "none" => old = position[e]
        /\ position[e].state = "none" => old.side = intent[o].side /\ ~old.sold
    <2>1. NoPosition \in Position /\ ~NoPosition.sold
      BY NoneTypes DEF NoPosition
    <2>2. intent[o].side \in Sides \cup {None}
      BY <1>3, IntentType
    <2>. QED BY <1>1, <2>1, <2>2 DEF Position
  <1>6. state \in {"OPEN", "DUST"}
    OBVIOUS
  <1> HIDE DEF old, state
  <1>7. /\ new \in Position /\ new.state = state /\ new.remaining = shares
        /\ new.sellable = 0 /\ new.side = old.side /\ new.sold = old.sold
    BY <1>5, <1>6 DEF Position, ActiveStates
  <1> HIDE DEF new, e
  <1>8. /\ position' \in [Events -> Position] /\ position'[e] = new
        /\ \A f \in Events : f # e => position'[f] = position[f]
        /\ event' \in [Events -> {event[f] : f \in Events} \cup {"OPEN", "DUST"}]
    BY <1>1, <1>2, <1>6, <1>7
  <1>9. /\ intent' \in [Orders -> Intent] /\ SameFills
        /\ \A p \in Orders :
              /\ p # o => intent'[p] = intent[p]
              /\ intent'[p].known = intent[p].known
        /\ intent'[o].state = "FILLED"
    BY <1>1, <1>2, <1>3, <1>4 DEF SameFills, Tried, Intent
  <1>. QED BY <1>5, <1>6, <1>7, <1>8, <1>9 DEF e

-----------------------------------------------------------------------------
(* The worker's steps keep EntryInv *)

LEMMA WorkerType ==
    ASSUME NEW o \in Orders,
           NEW pc \in {"idle", "reserved", "signing", "posted", "publishing"}
    PROVE  /\ WorkerGoes(pc, o) =>
                /\ worker' \in Worker
                /\ worker'.pc = pc /\ worker'.order = o
           /\ WorkerDone =>
                /\ worker' \in Worker
                /\ worker'.pc = "idle"
  BY DEF WorkerGoes, WorkerDone, IdleWorker, Worker

\* a step that changes what orders are called
LEMMA StatesKeep ==
    ASSUME EntryInv, TypeOK', SameFills, UNCHANGED <<position, run, world>>,
           worker'.pc # "idle" => worker'.order \in Orders /\ Tried(worker'.order),
           worker'.pc \in {"reserved", "signing"} =>
               worker.pc \in {"reserved", "signing"} /\ worker'.order = worker.order
    PROVE  EntryInv'
  <1> USE DEF SameFills, world
  <1>1. \A o \in Orders : TokenOf(o)' = TokenOf(o)
    BY DEF TokenOf
  <1>2. Sided'
    <2>1. run'.todo \subseteq Orders /\ run'.pending \subseteq Orders
      BY DEF TypeOK, Run
    <2>. QED BY <2>1 DEF EntryInv, Sided, Tried
  <1>3. InOrder'
    BY DEF EntryInv, InOrder
  <1>4. Counted'
    BY DEF EntryInv, Counted
  <1>5. Backed'
    BY <1>1 DEF EntryInv, Backed
  <1>6. NoPhantomShares'
    BY DEF EntryInv, NoPhantomShares
  <1>. QED BY <1>2, <1>3, <1>4, <1>5, <1>6 DEF EntryInv

LEMMA WorkerAtFacts ==
    ASSUME EntryInv, NEW o \in Orders,
           NEW pc \in {"reserved", "signing", "posted", "publishing"}, WorkerAt(pc, o)
    PROVE  Tried(o) /\ worker.pc = pc /\ worker.order = o
  BY DEF EntryInv, Sided, WorkerAt

LEMMA SettlingKeeps ==
    ASSUME EntryInv, NEW o \in Orders, Tried(o),
           \/ MarkZeroFill(o)
           \/ \E s \in Final \cup Unresolved : SetState(o, s),
           UNCHANGED <<run, world>>,
           \/ WorkerDone
           \/ WorkerAt("reserved", o) /\ WorkerGoes("signing", o)
           \/ WorkerGoes("publishing", o)
    PROVE  EntryInv'
  <1>1. /\ intent' \in [Orders -> Intent] /\ SameFills /\ UNCHANGED position
        /\ event' = event \/ event' = [event EXCEPT ![EventOf(o)] = "ENTRY_ZERO_FILL"]
    BY SetStateEffect, MarkZeroFillEffect DEF EntryInv
  <1>2. /\ worker' \in Worker
        /\ worker'.pc # "idle" => worker'.order = o
        /\ worker'.pc \in {"reserved", "signing"} =>
               worker.pc \in {"reserved", "signing"} /\ worker'.order = worker.order
    BY WorkerType DEF WorkerAt
  <1>3. TypeOK'
    BY <1>1, <1>2 DEF EntryInv, TypeOK, world, EventState
  <1>. QED BY <1>1, <1>2, <1>3, StatesKeep

LEMMA AcceptedKeeps ==
    ASSUME EntryInv, NEW o \in Orders, Accepted(o)
    PROVE  EntryInv'
  <1>1. Tried(o)
    BY WorkerAtFacts DEF Accepted
  <1>2. /\ intent \in [Orders -> Intent]
        /\ intent' = [intent EXCEPT ![o].state = "RECONCILIATION_REQUIRED",
                                    ![o].known = TRUE]
        /\ UNCHANGED <<event, position, run, world>> /\ WorkerGoes("publishing", o)
    BY DEF Accepted, EntryInv, TypeOK
  <1>3. [intent[o] EXCEPT !.state = "RECONCILIATION_REQUIRED", !.known = TRUE] \in Intent
    BY <1>2, IntentType DEF IntentStates, Unresolved
  <1>4. intent' \in [Orders -> Intent] /\ SameFills
    BY <1>1, <1>2, <1>3 DEF SameFills, Tried, Intent
  <1>5. TypeOK'
    BY <1>2, <1>4, WorkerType DEF EntryInv, TypeOK, world
  <1>. QED BY <1>1, <1>2, <1>4, <1>5, WorkerType, StatesKeep

LEMMA SkipKeeps ==
    ASSUME EntryInv, NEW e \in Events, Skip(e)
    PROVE  EntryInv'
  <1>1. /\ UNCHANGED <<intent, position, worker, run, world>>
        /\ event' = [event EXCEPT ![e] = "SKIPPED"]
    BY DEF Skip
  <1>2. TypeOK'
    BY <1>1 DEF EntryInv, TypeOK, world, EventState
  <1>3. SameFills
    BY <1>1 DEF SameFills, Tried
  <1>. QED BY <1>1, <1>2, <1>3, StatesKeep DEF EntryInv, Sided

LEMMA PostKeeps ==
    ASSUME EntryInv, NEW o \in Orders, Post(o)
    PROVE  EntryInv'
  <1>1. Tried(o)
    BY WorkerAtFacts DEF Post
  <1>2. /\ venue' = [venue EXCEPT ![o].at = "sent"]
        /\ WorkerGoes("posted", o) /\ UNCHANGED <<event, intent, position, run, owned, feed>>
    BY DEF Post, rows
  <1>3. venue \in [Orders -> VenueOrder]
    BY DEF EntryInv, TypeOK
  <1>4. [venue[o] EXCEPT !.at = "sent"] \in VenueOrder
    BY <1>3 DEF VenueOrder
  <1>5. TypeOK'
    BY <1>2, <1>3, <1>4, WorkerType DEF EntryInv, TypeOK
  <1>6. /\ venue[o].at = "none" /\ venue'[o].at = "sent"
        /\ \A p \in Orders : /\ p # o => venue'[p] = venue[p]
                             /\ venue'[p].filled = venue[p].filled
                             /\ venue'[p].shown = venue[p].shown
    BY <1>2, <1>3, WorkerAtFacts DEF Post, EntryInv, Sided, VenueOrder
  <1>7. Sided'
    BY <1>1, <1>2, <1>6, WorkerType DEF EntryInv, Sided, Tried
  <1>8. Counted'
    BY <1>2, <1>6 DEF EntryInv, Counted
  <1>9. Backed' /\ InOrder' /\ NoPhantomShares'
    BY <1>2, <1>6 DEF EntryInv, Backed, InOrder, NoPhantomShares, Tried, TokenOf
  <1>. QED BY <1>5, <1>7, <1>8, <1>9 DEF EntryInv

\* the trades of a run, and the shares it holds, are what the venue has
RunReads ==
    /\ \A o \in run'.todo \cup run'.pending : Tried(o)
    /\ \A o \in Orders : run'.trades[o] <= venue[o].filled
    /\ \A t \in Tokens : ~position[t[1]].sold => run'.held[t] <= owned[t]

\* a step on the rows that counts no fill
LEMMA RowsKeep ==
    ASSUME EntryInv, TypeOK', SameFills, UNCHANGED world,
           worker' = worker \/ worker' = IdleWorker, RunReads,
           \A e \in Events :
               /\ position'[e].sold <=> position[e].sold
               /\ IF position'[e].state # "none" THEN position'[e].side \in Sides
                  ELSE ~position'[e].sold,
           NoPhantomShares'
    PROVE  EntryInv'
  <1> USE DEF SameFills, world, RunReads
  <1>1. \A o \in Orders : TokenOf(o)' = TokenOf(o)
    BY DEF TokenOf
  <1>2. Sided'
    <2>1. run'.todo \subseteq Orders /\ run'.pending \subseteq Orders
      BY DEF TypeOK, Run
    <2>2. worker'.pc # "idle" => worker' = worker
      BY DEF IdleWorker
    <2>. QED BY <2>1, <2>2 DEF EntryInv, Sided, Tried
  <1>3. InOrder'
    BY DEF EntryInv, InOrder
  <1>4. Counted'
    BY DEF EntryInv, Counted
  <1>5. Backed'
    BY <1>1, OrderFacts, TokenFacts DEF EntryInv, Backed
  <1>. QED BY <1>2, <1>3, <1>4, <1>5 DEF EntryInv

\* open_position with shares the account has, or that it sold
LEMMA OpeningKeeps ==
    ASSUME EntryInv, NEW o \in Orders, Tried(o), NEW shares \in Nat,
           OpenPosition(o, shares), UNCHANGED world,
           worker' = worker \/ worker' = IdleWorker, RunReads,
           run' \in Run,
           ~position[EventOf(o)].sold => shares <= owned[TokenOf(o)]
    PROVE  EntryInv'
  <1> DEFINE e == EventOf(o)
  <1>1. /\ intent' \in [Orders -> Intent] /\ SameFills
        /\ event' \in [Events -> {event[f] : f \in Events} \cup {"OPEN", "DUST"}]
        /\ position' \in [Events -> Position]
        /\ \A f \in Events : f # e => position'[f] = position[f]
        /\ position'[e].state \in {"OPEN", "DUST"}
        /\ position'[e].remaining = shares
        /\ position[e].state # "none" =>
              /\ position'[e].side = position[e].side
              /\ position'[e].sold = position[e].sold
        /\ position[e].state = "none" =>
              position'[e].side = intent[o].side /\ ~position'[e].sold
    BY OpenPositionEffect DEF EntryInv
  <1>2. event' \in [Events -> EventState]
    BY <1>1 DEF EntryInv, TypeOK, EventState
  <1>3. worker' \in Worker
    BY DEF EntryInv, TypeOK, IdleWorker, Worker
  <1>4. TypeOK'
    BY <1>1, <1>2, <1>3 DEF EntryInv, TypeOK, world
  <1>5. /\ e \in Events /\ intent[o].side \in Sides
        /\ TokenOf(o) = <<e, intent[o].side>>
    BY OrderFacts DEF EntryInv, Sided, TokenOf
  <1>6. \A f \in Events :
            /\ position'[f].sold <=> position[f].sold
            /\ IF position'[f].state # "none" THEN position'[f].side \in Sides
               ELSE ~position'[f].sold
    BY <1>1, <1>5 DEF EntryInv, Sided
  <1>7. ~position'[e].sold => \E side \in Sides : position'[e].remaining <= owned[<<e, side>>]
    BY <1>1, <1>5, <1>6
  <1>8. NoPhantomShares'
    BY <1>1, <1>6, <1>7 DEF EntryInv, NoPhantomShares, world
  <1>. QED BY <1>1, <1>4, <1>6, <1>8, RowsKeep

LEMMA PublishKeeps ==
    ASSUME EntryInv, NEW o \in Orders, Publish(o)
    PROVE  EntryInv'
  <1>1. Tried(o) /\ UNCHANGED <<run, world>> /\ WorkerDone
    BY WorkerAtFacts DEF Publish
  <1>2. RunReads /\ worker' = IdleWorker
    BY <1>1 DEF RunReads, EntryInv, Sided, Counted, Backed, WorkerDone
  <1>3. PICK shares \in Evidence(o) \cap (0..Lot) :
            IF shares > 0 /\ ~HasPosition(TokenOf(o))
            THEN OpenPosition(o, shares) ELSE UNCHANGED rows
    BY DEF Publish
  <1>4. shares \in Nat /\ shares <= owned[TokenOf(o)]
    <2>1. owned[TokenOf(o)] \in Nat
      BY <1>1, TokenOfFacts DEF EntryInv, TypeOK, Sided
    <2>. QED BY <2>1, EntryAssumption DEF Evidence
  <1>5. CASE OpenPosition(o, shares)
    <2>1. run' \in Run
      BY <1>1 DEF EntryInv, TypeOK
    <2>. QED BY <1>1, <1>2, <1>4, <1>5, <2>1, OpeningKeeps
  <1>6. CASE UNCHANGED rows
    <2>1. SameFills
      BY <1>6 DEF SameFills, rows, Tried
    <2>2. TypeOK'
      BY <1>1, <1>2, <1>6 DEF EntryInv, TypeOK, rows, world, IdleWorker, Worker
    <2>. QED BY <1>1, <1>2, <1>6, <2>1, <2>2, StatesKeep DEF rows, IdleWorker
  <1>. QED BY <1>3, <1>5, <1>6

-----------------------------------------------------------------------------
(* The attempts of an event *)

LEMMA FirstAttempts ==
    ASSUME NEW e, NEW k \in Nat
    PROVE  /\ IsFiniteSet({<<e, i>> : i \in 1..k})
           /\ Cardinality({<<e, i>> : i \in 1..k}) = k
  <1> DEFINE S == {<<e, i>> : i \in 1..k}
             f == [i \in 1..k |-> <<e, i>>]
  <1>1. f \in Bijection(1..k, S)
    BY DEF Bijection, Injection, Surjection, IsInjective
  <1>2. IsFiniteSet(1..k) /\ Cardinality(1..k) = k
    BY FS_Interval
  <1>3. ExistsBijection(1..k, S)
    BY <1>1 DEF ExistsBijection
  <1>. QED BY <1>2, <1>3, FS_Bijection

\* the next attempt, by the count of the earlier ones, is the next by number
LEMMA NextAttempt ==
    ASSUME TypeOK, InOrder, NEW o \in Orders,
           Cardinality(TriedOf(EventOf(o))) = o[2] - 1
    PROVE  \A p \in Orders : EventOf(p) = EventOf(o) => (Tried(p) <=> p[2] < o[2])
  <1> DEFINE e == EventOf(o)
             T == TriedOf(e)
             Upto(k) == {<<e, i>> : i \in 1..k}
  <1>1. e \in Events /\ o[2] \in Nat /\ o[2] \in Attempts
    BY OrderFacts
  <1>2. \A p \in Orders : p \in T <=> EventOf(p) = e /\ Tried(p)
    BY DEF TriedOf, Tried
  <1>3. T \subseteq Orders /\ \A p \in T : EventOf(p) = e
    BY DEF TriedOf
  <1>4. \A k \in Nat : \A p \in Upto(k) : p[2] \in 1..k /\ p[1] = e
    OBVIOUS
  <1>5. \A p \in Orders, k \in Nat : EventOf(p) = e /\ p[2] <= k => p \in Upto(k)
    BY OrderFacts DEF Attempts
  <1>6. \A k \in Attempts : \A p \in Upto(k) : p \in Orders /\ EventOf(p) = e
    BY <1>1, EntryAssumption DEF Orders, Attempts, EventOf
  <1> HIDE DEF T, Upto
  <1>7. IsFiniteSet(T)
    <2>1. T \subseteq Upto(MaxAttempts)
      BY <1>3, <1>5, OrderFacts, EntryAssumption DEF Attempts
    <2>2. IsFiniteSet(Upto(MaxAttempts))
      BY FirstAttempts, EntryAssumption DEF Upto
    <2>. QED BY <2>1, <2>2, FS_Subset
  <1>8. ASSUME NEW p \in Orders, EventOf(p) = e, Tried(p), p[2] >= o[2]
        PROVE  FALSE
    <2>1. Upto(o[2]) \subseteq T
      <3>1. ASSUME NEW q \in Upto(o[2]) PROVE q \in T
        <4>1. q \in Orders /\ EventOf(q) = e /\ q[2] \in Nat /\ q[2] <= o[2]
          BY <1>1, <1>4, <1>6, OrderFacts
        <4>2. CASE q[2] = p[2]
          BY <4>1, <4>2, <1>8, <1>2, SameOrder
        <4>3. CASE q[2] # p[2]
          <5>1. q[2] < p[2]
            BY <4>1, <4>3, <1>1, <1>8, OrderFacts
          <5>. QED BY <4>1, <5>1, <1>2, <1>8 DEF InOrder
        <4>. QED BY <4>2, <4>3
      <3>. QED BY <3>1
    <2>2. Cardinality(Upto(o[2])) = o[2] /\ IsFiniteSet(Upto(o[2]))
      BY <1>1, FirstAttempts DEF Upto
    <2>3. o[2] <= Cardinality(T)
      BY <2>1, <2>2, <1>7, FS_Subset
    <2>. QED BY <2>3, <1>1 DEF T
  <1>9. T \subseteq Upto(o[2] - 1)
    <2>1. ASSUME NEW p \in T PROVE p \in Upto(o[2] - 1)
      <3>1. p \in Orders /\ EventOf(p) = e /\ Tried(p) /\ p[2] \in Nat
        BY <1>2, <1>3, OrderFacts
      <3>2. p[2] < o[2]
        BY <3>1, <1>1, <1>8
      <3>. QED BY <3>1, <3>2, <1>1, <1>5 DEF Attempts
    <2>. QED BY <2>1
  <1>10. T = Upto(o[2] - 1)
    <2>1. o[2] - 1 \in Nat
      BY <1>1 DEF Attempts
    <2>2. Cardinality(Upto(o[2] - 1)) = o[2] - 1 /\ IsFiniteSet(Upto(o[2] - 1))
      BY <2>1, FirstAttempts DEF Upto
    <2>3. Cardinality(T) = o[2] - 1
      BY DEF T
    <2>. QED BY <2>2, <2>3, <1>9, FS_Subset
  <1>11. ASSUME NEW p \in Orders, EventOf(p) = e, p[2] < o[2]
         PROVE  Tried(p)
    <2>1. p \in Upto(o[2] - 1)
      BY <1>1, <1>5, <1>11, OrderFacts DEF Attempts
    <2>. QED BY <2>1, <1>2, <1>10
  <1>12. ASSUME NEW p \in Orders, EventOf(p) = e, Tried(p)
         PROVE  p[2] < o[2]
    BY <1>1, <1>8, <1>12, OrderFacts
  <1>. QED BY <1>11, <1>12

LEMMA ReserveKeeps ==
    ASSUME EntryInv, NEW o \in Orders, NEW side \in Sides, Reserve(o, side)
    PROVE  EntryInv'
  <1> DEFINE new == [NoIntent EXCEPT !.state = "RESERVED", !.side = side]
  <1>1. /\ worker.pc = "idle" /\ Cardinality(TriedOf(EventOf(o))) = o[2] - 1
        /\ event' = [event EXCEPT ![EventOf(o)] = "ENTRY_INTENT_RESERVED"]
        /\ intent' = [intent EXCEPT ![o] = new]
        /\ WorkerGoes("reserved", o)
        /\ UNCHANGED <<position, run, world>>
    BY DEF Reserve
  <1>2. new \in Intent /\ new.state = "RESERVED" /\ new.side = side /\ new.fills = 0
    BY ReservedType
  <1> HIDE DEF new
  <1>3. \A p \in Orders : EventOf(p) = EventOf(o) => (Tried(p) <=> p[2] < o[2])
    BY <1>1, NextAttempt DEF EntryInv
  <1>4. ~Tried(o) /\ venue[o].at = "none" /\ venue[o].filled = 0
    BY <1>3, OrderFacts DEF EntryInv, Sided, Counted
  <1>5. \A p \in Orders : p # o => intent'[p] = intent[p]
    BY <1>1 DEF EntryInv, TypeOK
  <1>6. intent'[o] = new /\ intent' \in [Orders -> Intent]
    BY <1>1, <1>2 DEF EntryInv, TypeOK
  <1>7. \A p \in Orders : Tried(p)' <=> p = o \/ Tried(p)
    BY <1>2, <1>5, <1>6 DEF Tried
  <1>8. TypeOK'
    BY <1>1, <1>6, WorkerType DEF EntryInv, TypeOK, world, EventState
  <1>9. Sided'
    <2>1. run.todo \subseteq Orders /\ run.pending \subseteq Orders
      BY DEF EntryInv, TypeOK, Run
    <2>. QED BY <1>1, <1>2, <1>4, <1>5, <1>6, <1>7, <2>1, WorkerType DEF EntryInv, Sided, world
  <1>10. InOrder'
    BY <1>3, <1>7, OrderFacts DEF EntryInv, InOrder
  <1>11. Counted'
    BY <1>1, <1>2, <1>4, <1>5, <1>6 DEF EntryInv, Counted, world, TypeOK, VenueOrder
  <1>12. Backed'
    <2>1. \A p \in Orders : p # o => TokenOf(p)' = TokenOf(p)
      BY <1>5 DEF TokenOf
    <2>2. TokenOf(o)' \in Tokens
      BY <1>2, <1>6, OrderFacts DEF TokenOf, Tokens
    <2>. QED BY <1>1, <1>4, <1>7, <2>1, <2>2 DEF EntryInv, Backed, world, TypeOK
  <1>13. NoPhantomShares'
    BY <1>1 DEF EntryInv, NoPhantomShares, world
  <1>. QED BY <1>8, <1>9, <1>10, <1>11, <1>12, <1>13 DEF EntryInv

LEMMA WorkerStepKeeps ==
    ASSUME EntryInv, NEW o \in Orders, WorkerStep(o)
    PROVE  EntryInv'
  <1>1. CASE Abort(o)
    BY <1>1, WorkerAtFacts, SettlingKeeps DEF Abort
  <1>2. CASE Refuse(o)
    BY <1>2, WorkerAtFacts, SettlingKeeps DEF Refuse, Final
  <1>3. CASE Submit(o)
    BY <1>3, WorkerAtFacts, SettlingKeeps DEF Submit, Unresolved
  <1>4. CASE NotSubmitted(o)
    BY <1>4, WorkerAtFacts, SettlingKeeps DEF NotSubmitted, Final
  <1>5. CASE NotFilled(o)
    BY <1>5, WorkerAtFacts, SettlingKeeps DEF NotFilled, Final
  <1>6. CASE Unknown(o)
    BY <1>6, WorkerAtFacts, SettlingKeeps DEF Unknown, Unresolved
  <1>. QED BY <1>1, <1>2, <1>3, <1>4, <1>5, <1>6, PostKeeps, AcceptedKeeps, PublishKeeps
           DEF WorkerStep

-----------------------------------------------------------------------------
(* The run's steps, sales and crashes keep EntryInv *)

\* a step of the run that leaves the rows alone
LEMMA RunOnlyKeeps ==
    ASSUME EntryInv, run' \in Run, RunReads, UNCHANGED <<rows, worker, world>>
    PROVE  EntryInv'
  <1>1. TypeOK' /\ SameFills /\ NoPhantomShares'
    BY DEF EntryInv, TypeOK, SameFills, NoPhantomShares, rows, world, Tried
  <1>. QED BY <1>1, RowsKeep DEF EntryInv, Sided, rows

LEMMA IdleRunType ==
    /\ IdleRun \in Run /\ IdleRun.todo = {} /\ IdleRun.pending = {}
    /\ \A o \in Orders : IdleRun.trades[o] = 0
    /\ \A t \in Tokens : IdleRun.held[t] = 0
  BY EntryAssumption DEF IdleRun, Run

\* what an idle run has read
LEMMA RunEndReads ==
    ASSUME EntryInv, run' = IdleRun
    PROVE  run' \in Run /\ RunReads
  <1>1. /\ \A o \in Orders : venue[o].filled \in Nat
        /\ \A t \in Tokens : owned[t] \in Nat
    BY EntryAssumption DEF EntryInv, TypeOK, VenueOrder
  <1>. QED BY <1>1, IdleRunType DEF RunReads

LEMMA RunFrame ==
    ASSUME EntryInv, run' \in Run, run'.trades = run.trades, run'.held = run.held,
           \A o \in run'.todo \cup run'.pending : Tried(o)
    PROVE  RunReads
  BY DEF RunReads, EntryInv, Counted, Backed

LEMMA RunReadsKeep ==
    ASSUME EntryInv,
           \/ ReadOpenOrders \/ ReadTrades \/ ListUnresolved \/ RemotePositions
           \/ EndRun \/ RunRaises
           \/ \E o \in Orders : Undecided(o)
    PROVE  EntryInv'
  <1>1. run \in Run
    BY DEF EntryInv, TypeOK
  <1>2. CASE ReadOpenOrders
    <2>1. UNCHANGED <<rows, worker, world>>
      BY <1>2 DEF ReadOpenOrders
    <2>2. /\ run' \in Run /\ run'.trades = IdleRun.trades /\ run'.held = IdleRun.held
          /\ run'.todo = {} /\ run'.pending = {}
      BY <1>2, IdleRunType DEF ReadOpenOrders, Run
    <2>3. RunReads
      <3>1. /\ \A o \in Orders : venue[o].filled \in Nat
            /\ \A t \in Tokens : owned[t] \in Nat
        BY EntryAssumption DEF EntryInv, TypeOK, VenueOrder
      <3>. QED BY <2>2, <3>1, IdleRunType DEF RunReads
    <2>. QED BY <2>1, <2>2, <2>3, RunOnlyKeeps
  <1>3. CASE ReadTrades
    <2>1. UNCHANGED <<rows, worker, world>>
      BY <1>3 DEF ReadTrades
    <2>2. [o \in Orders |-> venue[o].shown] \in [Orders -> 0..Lot]
      BY DEF EntryInv, TypeOK, VenueOrder
    <2>3. /\ run' \in Run /\ run'.trades = [o \in Orders |-> venue[o].shown]
          /\ run'.held = run.held /\ run'.todo = run.todo /\ run'.pending = run.pending
      BY <1>1, <1>3, <2>2 DEF ReadTrades, Run
    <2>4. RunReads
      BY <2>3 DEF RunReads, EntryInv, Sided, Counted, Backed
    <2>. QED BY <2>1, <2>3, <2>4, RunOnlyKeeps
  <1>4. CASE ListUnresolved
    <2>1. UNCHANGED <<rows, worker, world>>
      BY <1>4 DEF ListUnresolved
    <2>2. /\ run' \in Run /\ run'.trades = run.trades /\ run'.held = run.held
          /\ run'.pending = run.pending
          /\ run'.todo = {o \in Orders : IsUnresolved(o) /\ intent[o].known}
      BY <1>1, <1>4 DEF ListUnresolved, Run
    <2>3. \A o \in Orders : IsUnresolved(o) => Tried(o)
      BY DEF IsUnresolved, Unresolved, Tried
    <2>4. RunReads
      BY <2>2, <2>3, RunFrame DEF EntryInv, Sided
    <2>. QED BY <2>1, <2>2, <2>4, RunOnlyKeeps
  <1>5. CASE RemotePositions
    <2>1. UNCHANGED <<rows, worker, world>>
      BY <1>5 DEF RemotePositions
    <2>2. /\ run' \in Run /\ run'.trades = run.trades /\ run'.held = run.held
          /\ run'.pending = run.pending /\ run'.todo = run.todo
      BY <1>1, <1>5 DEF RemotePositions, RunGoes, Run
    <2>3. RunReads
      BY <2>2, RunFrame DEF EntryInv, Sided
    <2>. QED BY <2>1, <2>2, <2>3, RunOnlyKeeps
  <1>6. CASE EndRun \/ RunRaises
    <2>1. UNCHANGED <<rows, worker, world>> /\ run' = IdleRun
      BY <1>6 DEF EndRun, RunRaises, RunFails
    <2>. QED BY <2>1, RunEndReads, RunOnlyKeeps
  <1>7. ASSUME NEW o \in Orders, Undecided(o)
        PROVE  EntryInv'
    <2>1. UNCHANGED <<rows, worker, world>>
      BY <1>7 DEF Undecided
    <2>2. /\ run' \in Run /\ run'.trades = run.trades /\ run'.held = run.held
          /\ run'.pending = run.pending /\ run'.todo = run.todo \ {o}
      BY <1>1, <1>7 DEF Undecided, Run
    <2>3. RunReads
      BY <2>2, RunFrame DEF EntryInv, Sided
    <2>. QED BY <2>1, <2>2, <2>3, RunOnlyKeeps
  <1>. QED BY <1>2, <1>3, <1>4, <1>5, <1>6, <1>7

LEMMA ReadPositionsKeeps ==
    ASSUME EntryInv, ReadPositions
    PROVE  EntryInv'
  <1>1. /\ run \in Run /\ intent \in [Orders -> Intent] /\ feed \in [Tokens -> Nat]
        /\ owned \in [Tokens -> Nat] /\ venue \in [Orders -> VenueOrder]
    BY DEF EntryInv, TypeOK
  <1>2. /\ UNCHANGED <<event, position, worker, world>>
        /\ run' = [run EXCEPT !.pc = "positions", !.held = feed]
        /\ intent' = [o \in Orders |-> IF intent[o].known THEN AddFill(o) ELSE intent[o]]
    BY DEF ReadPositions
  <1>3. /\ run' \in Run /\ run'.trades = run.trades /\ run'.held = feed
        /\ run'.todo = run.todo /\ run'.pending = run.pending
    BY <1>1, <1>2 DEF Run
  <1>4. ASSUME NEW o \in Orders
        PROVE  /\ AddFill(o) \in Intent /\ AddFill(o).state = intent[o].state
               /\ AddFill(o).side = intent[o].side
               /\ AddFill(o).fills <= venue[o].filled
    <2>1. intent[o] \in Intent /\ run.trades[o] \in 0..Lot /\ intent[o].fills \in 0..Lot
      BY <1>1, IntentType DEF Run
    <2>2. Greater(intent[o].fills, run.trades[o]) \in 0..Lot
      BY <2>1 DEF Greater
    <2>3. Greater(intent[o].fills, run.trades[o]) <= venue[o].filled
      BY <2>1, <1>1 DEF Greater, EntryInv, Counted, VenueOrder
    <2>4. AddFill(o) = [intent[o] EXCEPT !.fills = Greater(intent[o].fills, run.trades[o])]
      BY DEF AddFill
    <2>5. ASSUME NEW n \in 0..Lot
          PROVE  LET i == [intent[o] EXCEPT !.fills = n]
                 IN  /\ i \in Intent /\ i.state = intent[o].state
                     /\ i.side = intent[o].side /\ i.fills = n
      BY <2>1 DEF Intent
    <2>. QED BY <2>2, <2>3, <2>4, <2>5
  <1>5. \A o \in Orders : /\ intent'[o].state = intent[o].state
                          /\ intent'[o].side = intent[o].side
                          /\ intent'[o].fills <= venue[o].filled
    BY <1>2, <1>4 DEF EntryInv, Counted
  <1>6. intent' \in [Orders -> Intent]
    BY <1>1, <1>2, <1>4
  <1>7. TypeOK'
    BY <1>2, <1>3, <1>6 DEF EntryInv, TypeOK, world
  <1>8. \A o \in Orders : (Tried(o)' <=> Tried(o)) /\ TokenOf(o)' = TokenOf(o)
    BY <1>5 DEF Tried, TokenOf
  <1>9. Sided'
    <2>1. run.todo \subseteq Orders /\ run.pending \subseteq Orders
      BY <1>1 DEF Run
    <2>. QED BY <1>2, <1>3, <1>5, <1>8, <2>1 DEF EntryInv, Sided, world
  <1>10. InOrder' /\ NoPhantomShares'
    BY <1>2, <1>8 DEF EntryInv, InOrder, NoPhantomShares, world
  <1>11. Counted'
    BY <1>2, <1>3, <1>5 DEF EntryInv, Counted, world
  <1>12. Backed'
    BY <1>2, <1>3, <1>8 DEF EntryInv, Backed, world
  <1>. QED BY <1>7, <1>9, <1>10, <1>11, <1>12 DEF EntryInv

\* an order's fills are shares the account has, until it sells some
LEMMA FillsAreOwned ==
    ASSUME EntryInv, NEW o \in Orders, Tried(o), ~position[EventOf(o)].sold
    PROVE  /\ intent[o].fills \in Nat
           /\ intent[o].fills <= owned[TokenOf(o)]
  <1>1. intent[o] \in Intent /\ venue[o] \in VenueOrder /\ owned[TokenOf(o)] \in Nat
    BY TokenOfFacts DEF EntryInv, TypeOK, Sided
  <1>2. intent[o].fills \in Nat /\ venue[o].filled \in Nat
    BY <1>1, CountTypes
  <1>3. intent[o].fills <= venue[o].filled /\ venue[o].filled <= owned[TokenOf(o)]
    BY DEF EntryInv, Counted, Backed
  <1>. QED BY <1>1, <1>2, <1>3

LEMMA ResolveKeeps ==
    ASSUME EntryInv, NEW o \in Orders, Resolve(o)
    PROVE  EntryInv'
  <1> DEFINE listed == [run EXCEPT !.todo = @ \ {o}]
             Opens1 == intent[o].fills > 0 /\ OpenPosition(o, intent[o].fills) /\ run' = listed
             Waits == /\ intent[o].fills = 0 /\ ~StillOpen(o) /\ HandedOff(o)
                      /\ run' = [listed EXCEPT !.pending = @ \cup {o}]
                      /\ UNCHANGED rows
             Zero == MarkZeroFill(o) /\ run' = listed
             Fails == RunFails /\ UNCHANGED rows
             Live == /\ intent' = [intent EXCEPT ![o].state = "LIVE", ![o].filled = 0]
                     /\ run' = listed /\ UNCHANGED <<event, position>>
  <1>1. /\ o \in run.todo /\ UNCHANGED <<worker, world>>
        /\ Opens1 \/ Waits \/ Zero \/ Fails \/ Live
    BY DEF Resolve
  <1>2. run \in Run /\ Tried(o)
    BY <1>1 DEF EntryInv, TypeOK, Sided
  <1>3. /\ listed \in Run /\ listed.trades = run.trades /\ listed.held = run.held
        /\ listed.pending = run.pending /\ listed.todo = run.todo \ {o}
    BY <1>2 DEF Run
  <1>4. run' = listed => run' \in Run /\ RunReads
    <2> HIDE DEF listed
    <2>. QED BY <1>3, RunFrame DEF EntryInv, Sided
  <1>5. CASE Opens1
    <2>1. /\ intent[o].fills \in Nat
          /\ ~position[EventOf(o)].sold => intent[o].fills <= owned[TokenOf(o)]
      BY <1>2, FillsAreOwned, CountTypes DEF EntryInv, TypeOK
    <2>2. UNCHANGED world /\ worker' = worker
      BY <1>1
    <2>. QED BY <1>2, <1>4, <1>5, <2>1, <2>2, OpeningKeeps
  <1>6. CASE Waits
    <2>1. [listed EXCEPT !.pending = @ \cup {o}] \in Run
          /\ [listed EXCEPT !.pending = @ \cup {o}].pending = listed.pending \cup {o}
          /\ [listed EXCEPT !.pending = @ \cup {o}].todo = listed.todo
          /\ [listed EXCEPT !.pending = @ \cup {o}].trades = listed.trades
          /\ [listed EXCEPT !.pending = @ \cup {o}].held = listed.held
      <3> HIDE DEF listed
      <3>. QED BY <1>3 DEF Run
    <2> HIDE DEF listed
    <2>2. run' \in Run /\ RunReads
      BY <1>2, <1>3, <1>6, <2>1, RunFrame DEF EntryInv, Sided
    <2>. QED BY <1>1, <1>6, <2>2, RunOnlyKeeps
  <1>7. CASE Zero
    <2> HIDE DEF listed
    <2>1. /\ intent' \in [Orders -> Intent] /\ SameFills /\ UNCHANGED position
          /\ event' = [event EXCEPT ![EventOf(o)] = "ENTRY_ZERO_FILL"]
      BY <1>2, <1>7, MarkZeroFillEffect DEF EntryInv
    <2>2. TypeOK'
      BY <1>1, <1>4, <1>7, <2>1 DEF EntryInv, TypeOK, world, EventState
    <2>. QED BY <1>1, <1>4, <1>7, <2>1, <2>2, RowsKeep DEF EntryInv, Sided, NoPhantomShares, world
  <1>8. CASE Fails
    <2>. QED BY <1>1, <1>8, RunEndReads, RunOnlyKeeps DEF RunFails
  <1>9. CASE Live
    <2> HIDE DEF listed
    <2>1. [intent[o] EXCEPT !.state = "LIVE", !.filled = 0] \in Intent
      BY IntentType DEF EntryInv, TypeOK, IntentStates, Unresolved
    <2>2. intent' \in [Orders -> Intent] /\ SameFills
      BY <1>2, <1>9, <2>1 DEF EntryInv, TypeOK, SameFills, Tried, Intent
    <2>3. TypeOK'
      BY <1>1, <1>4, <1>9, <2>2 DEF EntryInv, TypeOK, world
    <2>. QED BY <1>1, <1>4, <1>9, <2>2, <2>3, RowsKeep DEF EntryInv, Sided, NoPhantomShares, world
  <1>. QED BY <1>1, <1>5, <1>6, <1>7, <1>8, <1>9

\* one row changes, and what it claims is what the account has
LEMMA RowKeeps ==
    ASSUME EntryInv, NEW e \in Events, NEW p \in Position,
           position' = [position EXCEPT ![e] = p],
           event' \in [Events -> EventState],
           UNCHANGED <<intent, worker, world>>, run' \in Run, RunReads,
           p.state # "none", p.side \in Sides, p.sold <=> position[e].sold,
           ~p.sold => \E side \in Sides : p.remaining <= owned[<<e, side>>]
    PROVE  EntryInv'
  <1>1. /\ position' \in [Events -> Position] /\ position'[e] = p
        /\ \A f \in Events : f # e => position'[f] = position[f]
    BY DEF EntryInv, TypeOK
  <1>2. TypeOK'
    BY <1>1 DEF EntryInv, TypeOK, world
  <1>3. SameFills
    BY DEF SameFills, Tried
  <1>4. \A f \in Events :
            /\ position'[f].sold <=> position[f].sold
            /\ IF position'[f].state # "none" THEN position'[f].side \in Sides
               ELSE ~position'[f].sold
    BY <1>1 DEF EntryInv, Sided
  <1>5. NoPhantomShares'
    BY <1>1 DEF EntryInv, NoPhantomShares, world
  <1>. QED BY <1>2, <1>3, <1>4, <1>5, RowsKeep

LEMMA CorrectedEffect ==
    ASSUME NEW p \in Position, NEW shares \in Nat
    PROVE  /\ Corrected(p, shares) \in Position
           /\ Corrected(p, shares).state = IF p.remaining = shares THEN p.state ELSE "OPEN"
           /\ Corrected(p, shares).side = p.side
           /\ Corrected(p, shares).sold = p.sold
           /\ Corrected(p, shares).remaining = shares
           /\ Corrected(p, shares).sellable = shares
  <1> DEFINE state == IF p.remaining = shares THEN p.state ELSE "OPEN"
             acquired == IF p.remaining = shares THEN p.acquired
                         ELSE Greater(p.acquired, shares)
  <1>1. state \in {"none", "CLOSED"} \cup ActiveStates /\ acquired \in Nat
    BY DEF Position, ActiveStates, Greater
  <1>2. Corrected(p, shares) = [p EXCEPT !.state = state, !.acquired = acquired,
                                         !.remaining = shares, !.sellable = shares]
    BY DEF Corrected
  <1> HIDE DEF acquired, state
  <1>3. /\ [p EXCEPT !.state = state, !.acquired = acquired,
                    !.remaining = shares, !.sellable = shares] \in Position
        /\ Corrected(p, shares).state = state
        /\ Corrected(p, shares).side = p.side
        /\ Corrected(p, shares).sold = p.sold
        /\ Corrected(p, shares).remaining = shares
        /\ Corrected(p, shares).sellable = shares
    BY <1>1, <1>2 DEF Position
  <1>. QED BY <1>2, <1>3 DEF state

\* what RemotePosition does to the run that does not fail
LEMMA HeldIsUsed ==
    ASSUME EntryInv, NEW t \in Tokens, run' = [run EXCEPT !.held[t] = 0]
    PROVE  /\ run' \in Run /\ RunReads
           /\ run'.pc = run.pc /\ run'.todo = run.todo /\ run'.pending = run.pending
           /\ run'.trades = run.trades /\ run'.held[t] = 0
           /\ \A u \in Tokens : u # t => run'.held[u] = run.held[u]
  <1>1. run \in Run /\ run.held \in [Tokens -> Nat] /\ owned \in [Tokens -> Nat]
    BY DEF EntryInv, TypeOK, Run
  <1>2. /\ run' \in Run /\ run'.pc = run.pc /\ run'.todo = run.todo
        /\ run'.pending = run.pending
        /\ run'.trades = run.trades /\ run'.held = [run.held EXCEPT ![t] = 0]
    BY <1>1 DEF Run
  <1>3. /\ run'.held[t] = 0
        /\ \A u \in Tokens : u # t => run'.held[u] = run.held[u]
    BY <1>1, <1>2
  <1>4. RunReads
    BY <1>1, <1>2, <1>3 DEF RunReads, EntryInv, Sided, Counted, Backed
  <1>. QED BY <1>2, <1>3, <1>4

LEMMA RemotePositionKeeps ==
    ASSUME EntryInv, NEW t \in Tokens, RemotePosition(t)
    PROVE  EntryInv'
  <1> DEFINE e == t[1]
             shares == run.held[t]
             next == run' = [run EXCEPT !.held[t] = 0]
             Fill == (\E o \in PendingFor(t) : OpenPosition(o, shares)) /\ next
             Correct == /\ HasPosition(t)
                        /\ position' = [position EXCEPT ![e] = Corrected(@, shares)]
                        /\ next /\ UNCHANGED <<event, intent>>
             Skips == next /\ UNCHANGED rows
             new == [state |-> "OPEN", side |-> t[2], acquired |-> shares,
                     remaining |-> shares, sellable |-> shares, sold |-> FALSE]
             Recover == /\ position[e].state = "none"
                        /\ position' = [position EXCEPT ![e] = new]
                        /\ event' = [event EXCEPT ![e] = "RECOVERED_REMOTE_POSITION"]
                        /\ next /\ UNCHANGED intent
             Fails == RunFails /\ UNCHANGED rows
  <1>1. /\ UNCHANGED <<worker, world>>
        /\ Fill \/ Correct \/ Skips \/ Recover \/ Fails
    BY DEF RemotePosition
  <1>2. /\ e \in Events /\ t[2] \in Sides /\ t = <<e, t[2]>>
        /\ shares \in Nat /\ position[e] \in Position
        /\ ~position[e].sold => shares <= owned[t]
    BY TokenFacts DEF EntryInv, TypeOK, Run, Backed
  <1>3. next => run' \in Run /\ RunReads
    BY HeldIsUsed
  <1>4. CASE Fill
    <2>1. PICK o \in PendingFor(t) : OpenPosition(o, shares)
      BY <1>4
    <2>2. o \in Orders /\ Tried(o) /\ TokenOf(o) = t
      BY DEF PendingFor, EntryInv, TypeOK, Run, Sided
    <2>3. EventOf(o) = e
      BY <2>2, TokenOfFacts DEF EntryInv, Sided
    <2>4. UNCHANGED world /\ worker' = worker
      BY <1>1
    <2> HIDE DEF e, shares
    <2>. QED BY <1>2, <1>3, <1>4, <2>1, <2>2, <2>3, <2>4, OpeningKeeps
  <1>5. CASE Correct
    <2>1. /\ Corrected(position[e], shares) \in Position
          /\ Corrected(position[e], shares).side = position[e].side
          /\ Corrected(position[e], shares).sold = position[e].sold
          /\ Corrected(position[e], shares).remaining = shares
          /\ Corrected(position[e], shares).state # "none"
      BY <1>2, <1>5, CorrectedEffect DEF HasPosition
    <2>2. position' = [position EXCEPT ![e] = Corrected(position[e], shares)]
      BY <1>5
    <2>3. position[e].side \in Sides /\ event' \in [Events -> EventState]
      BY <1>2, <1>5 DEF HasPosition, EntryInv, TypeOK, Sided
    <2>4. ~position[e].sold => \E side \in Sides : shares <= owned[<<e, side>>]
      BY <1>2
    <2>5. UNCHANGED <<intent, worker, world>> /\ run' \in Run /\ RunReads
      BY <1>1, <1>3, <1>5
    <2> HIDE DEF e, shares
    <2>. QED BY <1>2, <2>1, <2>2, <2>3, <2>4, <2>5, RowKeeps
  <1>6. CASE Skips
    BY <1>1, <1>3, <1>6, RunOnlyKeeps
  <1>7. CASE Recover
    <2>1. /\ new \in Position /\ new.state # "none" /\ new.side = t[2]
          /\ ~new.sold /\ new.remaining = shares
      <3> HIDE DEF shares, e
      <3>. QED BY <1>2 DEF Position, ActiveStates
    <2>2. ~position[e].sold
      BY <1>2, <1>7 DEF EntryInv, Sided
    <2>3. event' \in [Events -> EventState]
      BY <1>2, <1>7 DEF EntryInv, TypeOK, EventState
    <2>4. UNCHANGED <<intent, worker, world>> /\ run' \in Run /\ RunReads
      BY <1>1, <1>3, <1>7
    <2>5. position' = [position EXCEPT ![e] = new]
      BY <1>7
    <2> HIDE DEF new, shares, e
    <2>. QED BY <1>2, <2>1, <2>2, <2>3, <2>4, <2>5, RowKeeps
  <1>8. CASE Fails
    BY <1>1, <1>8, RunEndReads, RunOnlyKeeps DEF RunFails
  <1>. QED BY <1>1, <1>4, <1>5, <1>6, <1>7, <1>8

LEMMA RunStepKeeps ==
    ASSUME EntryInv, RunStep
    PROVE  EntryInv'
  BY ReadPositionsKeeps, RunReadsKeep, ResolveKeeps, RemotePositionKeeps DEF RunStep

LEMMA CrashKeeps ==
    ASSUME EntryInv, Crash
    PROVE  EntryInv'
  <1>1. worker' = IdleWorker /\ run' = IdleRun /\ UNCHANGED <<rows, world>>
    BY DEF Crash
  <1>2. run' \in Run /\ RunReads
    BY <1>1, RunEndReads
  <1>3. worker' \in Worker
    BY <1>1 DEF IdleWorker, Worker
  <1>4. TypeOK' /\ SameFills /\ NoPhantomShares'
    BY <1>1, <1>2, <1>3
       DEF EntryInv, TypeOK, SameFills, NoPhantomShares, rows, world, Tried
  <1>. QED BY <1>1, <1>2, <1>4, RowsKeep DEF EntryInv, Sided, rows

LEMMA SellOutKeeps ==
    ASSUME EntryInv, NEW e \in Events, SellOut(e)
    PROVE  EntryInv'
  <1> DEFINE t == <<e, position[e].side>>
             shares == position[e].sellable
             new == [position[e] EXCEPT !.state = "CLOSED", !.remaining = 0,
                                        !.sellable = 0, !.sold = TRUE]
  <1>1. /\ position[e].state = "OPEN" /\ shares <= owned[t]
        /\ owned' = [owned EXCEPT ![t] = @ - shares]
        /\ position' = [position EXCEPT ![e] = new]
        /\ event' = [event EXCEPT ![e] = "CLOSED"]
        /\ UNCHANGED <<intent, worker, run, venue, feed>>
    BY DEF SellOut
  <1>2. position[e] \in Position /\ t \in Tokens /\ owned \in [Tokens -> Nat]
        /\ position[e].side \in Sides
    BY <1>1 DEF EntryInv, TypeOK, Sided, Tokens
  <1>3. shares \in Nat /\ owned[t] \in Nat
    BY <1>2 DEF Position
  <1>4. /\ new \in Position /\ new.state = "CLOSED" /\ new.sold
        /\ new.side = position[e].side /\ new.remaining = 0
    BY <1>2 DEF Position
  <1> HIDE DEF new, shares
  <1>5. /\ owned' \in [Tokens -> Nat]
        /\ \A u \in Tokens : u[1] # e => owned'[u] = owned[u]
    <2>1. owned[t] - shares \in Nat
      BY <1>1, <1>3
    <2>2. t[1] = e
      OBVIOUS
    <2> HIDE DEF t
    <2>. QED BY <1>1, <1>2, <2>1, <2>2
  <1>6. /\ position' \in [Events -> Position] /\ position'[e] = new
        /\ \A f \in Events : f # e => position'[f] = position[f]
    BY <1>1, <1>4 DEF EntryInv, TypeOK
  <1>7. TypeOK'
    BY <1>1, <1>5, <1>6 DEF EntryInv, TypeOK, EventState
  <1>8. Sided'
    <2>1. run.todo \subseteq Orders /\ run.pending \subseteq Orders
      BY DEF EntryInv, TypeOK, Run
    <2>. QED BY <1>1, <1>2, <1>4, <1>6, <2>1 DEF EntryInv, Sided, Tried
  <1>9. InOrder' /\ Counted'
    BY <1>1 DEF EntryInv, InOrder, Counted, Tried
  <1>10. Backed'
    <2>1. \A o \in Orders : TokenOf(o)' = TokenOf(o) /\ (Tried(o)' <=> Tried(o))
      BY <1>1 DEF TokenOf, Tried
    <2>2. \A o \in Orders : Tried(o) => TokenOf(o) \in Tokens /\ TokenOf(o)[1] = EventOf(o)
      BY TokenOfFacts DEF EntryInv, Sided
    <2>. QED BY <1>1, <1>4, <1>5, <1>6, <2>1, <2>2, OrderFacts, TokenFacts
            DEF EntryInv, Backed
  <1>11. NoPhantomShares'
    <2>1. \A f \in Events, side \in Sides : f # e => owned'[<<f, side>>] = owned[<<f, side>>]
      BY <1>5 DEF Tokens
    <2>. QED BY <1>4, <1>6, <2>1 DEF EntryInv, NoPhantomShares
  <1>. QED BY <1>7, <1>8, <1>9, <1>10, <1>11 DEF EntryInv

-----------------------------------------------------------------------------
(* The venue's steps keep EntryInv *)

\* an order goes on, without a fill
LEMMA OrderGoesOn ==
    ASSUME EntryInv, NEW o \in Orders, NEW v \in VenueOrder,
           venue' = [venue EXCEPT ![o] = v],
           UNCHANGED <<rows, worker, run, owned, feed>>,
           venue[o].at # "none", v.at # "none", v.filled = venue[o].filled,
           v.at # "matched" => v.filled = 0, v.shown <= v.filled
    PROVE  EntryInv'
  <1>1. /\ venue' \in [Orders -> VenueOrder] /\ venue'[o] = v
        /\ \A p \in Orders : p # o => venue'[p] = venue[p]
    BY DEF EntryInv, TypeOK
  <1>2. UNCHANGED <<event, intent, position, worker, run, owned, feed>>
    BY DEF rows
  <1>3. TypeOK'
    BY <1>1, <1>2 DEF EntryInv, TypeOK
  <1>4. Sided' /\ InOrder' /\ NoPhantomShares'
    BY <1>1, <1>2 DEF EntryInv, Sided, InOrder, NoPhantomShares, Tried
  <1>5. Counted' /\ Backed'
    BY <1>1, <1>2 DEF EntryInv, Counted, Backed, Tried, TokenOf
  <1>. QED BY <1>3, <1>4, <1>5 DEF EntryInv

LEMMA OpensKeeps ==
    ASSUME EntryInv, NEW o \in Orders, Opens(o) \/ Dies(o) \/ GraceEnds(o)
    PROVE  EntryInv'
  <1>1. venue[o] \in VenueOrder /\ venue[o].at # "none"
    BY DEF EntryInv, TypeOK, Opens, Dies, GraceEnds
  <1>2. /\ venue[o].at # "matched" => venue[o].filled = 0
        /\ venue[o].shown <= venue[o].filled
    BY DEF EntryInv, Counted
  <1>3. UNCHANGED <<rows, worker, run, owned, feed>>
    BY DEF Opens, Dies, GraceEnds
  <1>4. ASSUME NEW at \in {"open", "dead"}, venue[o].at \in {"sent", "open"},
               venue' = [venue EXCEPT ![o].at = at]
        PROVE  EntryInv'
    <2>1. /\ [venue[o] EXCEPT !.at = at] \in VenueOrder
          /\ [venue[o] EXCEPT !.at = at].at = at
          /\ [venue[o] EXCEPT !.at = at].filled = venue[o].filled
          /\ [venue[o] EXCEPT !.at = at].shown = venue[o].shown
      BY <1>1 DEF VenueOrder
    <2>. QED BY <1>1, <1>2, <1>3, <1>4, <2>1, OrderGoesOn
  <1>5. CASE Opens(o)
    BY <1>4, <1>5 DEF Opens
  <1>6. CASE Dies(o)
    BY <1>4, <1>6 DEF Dies
  <1>7. CASE GraceEnds(o)
    <2>1. /\ [venue[o] EXCEPT !.late = TRUE] \in VenueOrder
          /\ [venue[o] EXCEPT !.late = TRUE].at = venue[o].at
          /\ [venue[o] EXCEPT !.late = TRUE].filled = venue[o].filled
          /\ [venue[o] EXCEPT !.late = TRUE].shown = venue[o].shown
      BY <1>1 DEF VenueOrder
    <2>. QED BY <1>1, <1>2, <1>3, <1>7, <2>1, OrderGoesOn DEF GraceEnds
  <1>. QED BY <1>5, <1>6, <1>7

\* a view of m shares of n goes towards n
LEMMA ShownFacts ==
    ASSUME NEW m \in Nat, NEW n \in Nat, m <= n, m # n
    PROVE  Shown(m, n) \in Nat /\ Shown(m, n) <= n
           /\ (PromptVenue => Shown(m, n) = n)
  BY DEF Shown

LEMMA ShowTradeKeeps ==
    ASSUME EntryInv, NEW o \in Orders, ShowTrade(o)
    PROVE  EntryInv'
  <1> DEFINE n == Shown(venue[o].shown, venue[o].filled)
             new == [venue[o] EXCEPT !.shown = n]
  <1>1. /\ venue[o] \in VenueOrder /\ venue[o].shown \in Nat /\ venue[o].filled \in 0..Lot
        /\ venue[o].shown <= venue[o].filled /\ venue[o].filled \in Nat
    BY CountTypes DEF EntryInv, TypeOK, Counted, VenueOrder
  <1>2. /\ venue' = [venue EXCEPT ![o] = new] /\ venue[o].shown # venue[o].filled
        /\ UNCHANGED <<rows, worker, run, owned, feed>>
    BY DEF ShowTrade
  <1>3. n \in Nat /\ n <= venue[o].filled /\ n \in 0..Lot
    BY <1>1, <1>2, ShownFacts, EntryAssumption
  <1> HIDE DEF n
  <1>4. /\ new \in VenueOrder /\ new.at = venue[o].at /\ new.filled = venue[o].filled
        /\ new.shown = n
    BY <1>1, <1>3 DEF VenueOrder
  <1>5. /\ venue[o].at # "matched" => venue[o].filled = 0
        /\ venue[o].at # "none"
    BY <1>1, <1>2 DEF EntryInv, Counted
  <1> HIDE DEF new
  <1>. QED BY <1>2, <1>3, <1>4, <1>5, OrderGoesOn

LEMMA ShowPositionKeeps ==
    ASSUME EntryInv, NEW t \in Tokens, ShowPosition(t)
    PROVE  EntryInv'
  <1>1. /\ feed' = [feed EXCEPT ![t] = Shown(feed[t], owned[t])]
        /\ feed[t] # owned[t] /\ UNCHANGED <<event, intent, position, worker, run, venue, owned>>
    BY DEF ShowPosition, rows
  <1>2. feed \in [Tokens -> Nat] /\ owned[t] \in Nat /\ feed[t] \in Nat
    BY DEF EntryInv, TypeOK
  <1>3. /\ Shown(feed[t], owned[t]) \in Nat
        /\ feed[t] <= owned[t] => Shown(feed[t], owned[t]) <= owned[t]
    BY <1>1, <1>2 DEF Shown
  <1>4. /\ feed' \in [Tokens -> Nat] /\ feed'[t] = Shown(feed[t], owned[t])
        /\ \A u \in Tokens : u # t => feed'[u] = feed[u]
    BY <1>1, <1>2, <1>3
  <1>5. TypeOK'
    BY <1>1, <1>4 DEF EntryInv, TypeOK
  <1>6. Sided' /\ InOrder' /\ Counted' /\ NoPhantomShares'
    BY <1>1 DEF EntryInv, Sided, InOrder, Counted, NoPhantomShares, Tried
  <1>7. Backed'
    BY <1>1, <1>3, <1>4 DEF EntryInv, Backed, Tried, TokenOf
  <1>. QED BY <1>5, <1>6, <1>7 DEF EntryInv

\* what an order buys is added to the shares of its token
LEMMA FillsEffect ==
    ASSUME EntryInv, NEW o \in Orders, Fills(o)
    PROVE  \E shares \in 1..Lot :
              /\ venue' \in [Orders -> VenueOrder]
              /\ venue[o].at \in {"sent", "open"} /\ venue'[o].at = "matched"
              /\ venue[o].filled = 0 /\ venue'[o].filled = shares
              /\ venue'[o].shown = venue[o].shown /\ venue'[o].late = venue[o].late
              /\ \A p \in Orders : p # o => venue'[p] = venue[p]
              /\ TokenOf(o) \in Tokens /\ owned' \in [Tokens -> Nat]
              /\ owned'[TokenOf(o)] = owned[TokenOf(o)] + shares
              /\ \A u \in Tokens : u # TokenOf(o) => owned'[u] = owned[u]
              /\ UNCHANGED <<event, intent, position, worker, run, feed>>
  <1>1. PICK shares \in 1..Lot :
            /\ venue' = [venue EXCEPT ![o].at = "matched", ![o].filled = shares]
            /\ owned' = [owned EXCEPT ![TokenOf(o)] = @ + shares]
    BY DEF Fills
  <1>2. /\ venue \in [Orders -> VenueOrder] /\ venue[o].at \in {"sent", "open"}
        /\ owned \in [Tokens -> Nat] /\ UNCHANGED <<event, intent, position, worker, run, feed>>
    BY DEF Fills, EntryInv, TypeOK, rows
  <1>3. TokenOf(o) \in Tokens /\ owned[TokenOf(o)] \in Nat
    BY <1>2, TokenOfFacts DEF EntryInv, Sided
  <1>4. venue[o].filled = 0
    BY <1>2 DEF EntryInv, Counted
  <1>5. shares \in 0..Lot /\ shares \in Nat
    BY EntryAssumption
  <1>6. LET v == [venue[o] EXCEPT !.at = "matched", !.filled = shares]
        IN  /\ v \in VenueOrder /\ v.at = "matched" /\ v.filled = shares
            /\ v.shown = venue[o].shown /\ v.late = venue[o].late
    BY <1>2, <1>5 DEF VenueOrder
  <1>7. /\ venue' \in [Orders -> VenueOrder]
        /\ venue'[o] = [venue[o] EXCEPT !.at = "matched", !.filled = shares]
        /\ \A p \in Orders : p # o => venue'[p] = venue[p]
    BY <1>1, <1>2, <1>6
  <1>8. /\ owned' \in [Tokens -> Nat]
        /\ owned'[TokenOf(o)] = owned[TokenOf(o)] + shares
        /\ \A u \in Tokens : u # TokenOf(o) => owned'[u] = owned[u]
    BY <1>1, <1>2, <1>3, <1>5
  <1>. QED BY <1>2, <1>3, <1>4, <1>6, <1>7, <1>8

LEMMA FillsKeeps ==
    ASSUME EntryInv, NEW o \in Orders, Fills(o)
    PROVE  EntryInv'
  <1>1. PICK shares \in 1..Lot :
              /\ venue' \in [Orders -> VenueOrder]
              /\ venue[o].at \in {"sent", "open"} /\ venue'[o].at = "matched"
              /\ venue[o].filled = 0 /\ venue'[o].filled = shares
              /\ venue'[o].shown = venue[o].shown
              /\ \A p \in Orders : p # o => venue'[p] = venue[p]
              /\ TokenOf(o) \in Tokens /\ owned' \in [Tokens -> Nat]
              /\ owned'[TokenOf(o)] = owned[TokenOf(o)] + shares
              /\ \A u \in Tokens : u # TokenOf(o) => owned'[u] = owned[u]
              /\ UNCHANGED <<event, intent, position, worker, run, feed>>
    BY FillsEffect
  <1>2. shares \in Nat /\ \A u \in Tokens : owned[u] \in Nat /\ owned'[u] \in Nat
                                            /\ owned[u] <= owned'[u]
    BY <1>1 DEF EntryInv, TypeOK
  <1>3. TypeOK'
    BY <1>1 DEF EntryInv, TypeOK
  <1>4. Sided' /\ InOrder'
    BY <1>1 DEF EntryInv, Sided, InOrder, Tried
  <1>5. \A p \in Orders : /\ venue[p].filled \in Nat /\ venue'[p].filled \in Nat
                          /\ venue[p].shown \in Nat /\ intent[p].fills \in Nat
                          /\ run.trades[p] \in Nat /\ venue[p].filled <= venue'[p].filled
    BY <1>1, <1>2, CountTypes, EntryAssumption DEF EntryInv, TypeOK, Run
  <1>6. Counted'
    BY <1>1, <1>5, <1>2 DEF EntryInv, Counted
  <1>7. Backed'
    <2>1. \A p \in Orders : TokenOf(p)' = TokenOf(p) /\ (Tried(p)' <=> Tried(p))
      BY <1>1 DEF TokenOf, Tried
    <2>2. \A p \in Orders : Tried(p) => TokenOf(p) \in Tokens
      BY TokenOfFacts DEF EntryInv, Sided
    <2>3. \A u \in Tokens : feed[u] \in Nat /\ run.held[u] \in Nat
      BY DEF EntryInv, TypeOK, Run
    <2>. QED BY <1>1, <1>2, <1>5, <2>1, <2>2, <2>3 DEF EntryInv, Backed
  <1>8. NoPhantomShares'
    <2>1. \A e \in Events, side \in Sides :
              /\ owned[<<e, side>>] \in Nat /\ owned'[<<e, side>>] \in Nat
              /\ owned[<<e, side>>] <= owned'[<<e, side>>]
      BY <1>2 DEF Tokens
    <2>2. \A e \in Events : position[e].remaining \in Nat
      BY DEF EntryInv, TypeOK, Position
    <2>. QED BY <1>1, <2>1, <2>2 DEF EntryInv, NoPhantomShares
  <1>. QED BY <1>3, <1>4, <1>6, <1>7, <1>8 DEF EntryInv

LEMMA InitHoldsEntryInv ==
    ASSUME Init
    PROVE  EntryInv
  <1>1. /\ event \in [Events -> EventState]
        /\ intent \in [Orders -> Intent] /\ position \in [Events -> Position]
        /\ venue \in [Orders -> VenueOrder]
        /\ owned \in [Tokens -> Nat] /\ feed \in [Tokens -> Nat]
    BY NoneTypes DEF Init, EventState
  <1>2. /\ worker \in Worker /\ worker.pc = "idle"
        /\ run \in Run /\ run.todo = {} /\ run.pending = {}
        /\ \A o \in Orders : run.trades[o] = 0
        /\ \A t \in Tokens : run.held[t] = 0
    BY IdleRunType DEF Init, IdleWorker, Worker, IdleRun
  <1>3. /\ \A o \in Orders : /\ ~Tried(o) /\ venue[o].at = "none" /\ intent[o].fills = 0
                             /\ venue[o].filled = 0 /\ venue[o].shown = 0
        /\ \A e \in Events : position[e].state = "none" /\ ~position[e].sold
        /\ \A t \in Tokens : feed[t] = 0 /\ owned[t] = 0
    BY DEF Init, Tried, NoIntent, NoPosition, NoOrder
  <1>4. TypeOK
    BY <1>1, <1>2 DEF TypeOK
  <1>5. Sided /\ InOrder /\ Counted /\ Backed /\ NoPhantomShares
    BY <1>2, <1>3, TokenFacts DEF Sided, InOrder, Counted, Backed, NoPhantomShares
  <1>. QED BY <1>4, <1>5 DEF EntryInv

LEMMA NextKeepsEntryInv ==
    ASSUME EntryInv, [Next]_vars
    PROVE  EntryInv'
  <1>1. CASE \E e \in Events : Skip(e) \/ SellOut(e)
    BY <1>1, SkipKeeps, SellOutKeeps
  <1>2. CASE \E o \in Orders : (\E side \in Sides : Reserve(o, side)) \/ WorkerStep(o)
    BY <1>2, ReserveKeeps, WorkerStepKeeps
  <1>3. CASE RunStep \/ Crash
    BY <1>3, RunStepKeeps, CrashKeeps
  <1>4. CASE \E o \in Orders : VenueStep(o)
    BY <1>4, OpensKeeps, FillsKeeps, ShowTradeKeeps DEF VenueStep
  <1>5. CASE \E t \in Tokens : ShowPosition(t)
    BY <1>5, ShowPositionKeeps
  <1>6. CASE UNCHANGED vars
    <2>1. UNCHANGED <<event, intent, position, worker, run, venue, owned, feed>>
      BY <1>6 DEF vars
    <2>. QED BY <2>1
         DEF EntryInv, TypeOK, Sided, InOrder, Counted, Backed, NoPhantomShares,
             Tried, TokenOf
  <1>. QED BY <1>1, <1>2, <1>3, <1>4, <1>5, <1>6 DEF Next

\* The inductive invariant of the entry, whatever the venue shows when.
THEOREM EntryInvariant == Spec => []EntryInv
  BY InitHoldsEntryInv, NextKeepsEntryInv, PTL DEF Spec

\* Rows, coroutines and world keep their types: every step of the worker, the
\* run, the venue and a crash leaves a state the code can be in.
THEOREM TypeCorrect == Spec => []TypeOK
  <1>1. EntryInv => TypeOK
    BY DEF EntryInv
  <1>. QED BY <1>1, EntryInvariant, PTL

\* No row of an event claims shares the account does not have: what open_position
\* and reconcile_remote_position write was bought, however late, in whatever
\* parts and however often the response, the trades and the positions show it.
THEOREM NoPhantomsEver == Spec => []NoPhantomShares
  <1>1. EntryInv => NoPhantomShares
    BY DEF EntryInv
  <1>. QED BY <1>1, EntryInvariant, PTL

-----------------------------------------------------------------------------
(* The slot, when the venue is prompt: what PromptInv says of an event *)

LEMMA OnlyUsed ==
    ASSUME PromptInv, NEW o \in Orders, NEW p \in Orders,
           EventOf(o) = EventOf(p), Used(o), Used(p)
    PROVE  o = p
  <1>1. o[2] \in Nat /\ p[2] \in Nat
    BY OrderFacts
  <1>2. Tried(o) /\ Tried(p)
    BY DEF Used, Tried
  <1>3. ~(o[2] < p[2]) /\ ~(p[2] < o[2])
    BY <1>2 DEF PromptInv, OneUsed, Used
  <1>. QED BY <1>1, <1>3, SameOrder

\* an order that is unresolved, or that bought, is the one of its event
LEMMA UsedFacts ==
    ASSUME EntryInv, PromptInv, NEW o \in Orders
    PROVE  /\ IsUnresolved(o) => Used(o) /\ Occupied(EventOf(o))
           /\ HasBought(o) => /\ Used(o) /\ intent[o].state # "REJECTED"
                              /\ venue[o].at = "matched"
           /\ Out(o) => IsUnresolved(o)
           /\ Tried(o) => TokenOf(o) \in Tokens /\ TokenOf(o)[1] = EventOf(o)
           /\ Used(o) => Tried(o)
  <1>1. IsUnresolved(o) => Used(o) /\ Occupied(EventOf(o))
    BY DEF IsUnresolved, Unresolved, Used, Occupied
  <1>2. HasBought(o) => /\ Used(o) /\ intent[o].state # "REJECTED"
                        /\ venue[o].at = "matched"
    <2>1. venue[o].filled \in Nat
      BY CountTypes DEF EntryInv, TypeOK
    <2>. QED BY <2>1 DEF HasBought, EntryInv, Counted, Sided, Tried, Used, PromptInv,
                         ZeroFillIsTrue
  <1>3. Out(o) => IsUnresolved(o)
    BY DEF PromptInv, Exposed
  <1>4. Tried(o) => TokenOf(o) \in Tokens /\ TokenOf(o)[1] = EventOf(o)
    BY TokenOfFacts DEF EntryInv, Sided
  <1>. QED BY <1>1, <1>2, <1>3, <1>4 DEF Used, Tried

LEMMA OnePurchase ==
    ASSUME EntryInv, PromptInv, NEW o \in Orders, NEW p \in Orders,
           HasBought(o), HasBought(p), EventOf(o) = EventOf(p)
    PROVE  o = p
  BY UsedFacts, OnlyUsed

\* the shares of an event were bought by its one order
LEMMA SharesAreBought ==
    ASSUME EntryInv, PromptInv, NEW t \in Tokens, NEW n \in Nat, IsView(t, n), n > 0
    PROVE  \E o \in Orders : /\ HasBought(o) /\ TokenOf(o) = t /\ EventOf(o) = t[1]
                             /\ venue[o].filled = n
  <1>1. PICK o \in Orders : HasBought(o) /\ TokenOf(o) = t /\ venue[o].filled = n
    BY DEF IsView
  <1>. QED BY <1>1, UsedFacts

LEMMA OwnedFacts ==
    ASSUME EntryInv, PromptInv, NEW t \in Tokens
    PROVE  /\ owned[t] \in Nat /\ feed[t] \in Nat /\ run.held[t] \in Nat
           /\ IsView(t, owned[t]) /\ IsView(t, feed[t]) /\ IsView(t, run.held[t])
  BY DEF EntryInv, TypeOK, Run, PromptInv, Viewed

\* an event's order that did not buy, and is not confirmed to be without fills,
\* leaves the event without shares
LEMMA NothingElseBought ==
    ASSUME EntryInv, PromptInv, NEW o \in Orders, Used(o), ~HasBought(o),
           NEW t \in Tokens, t[1] = EventOf(o)
    PROVE  owned[t] = 0
  <1>1. owned[t] \in Nat /\ IsView(t, owned[t])
    BY OwnedFacts
  <1>2. CASE owned[t] > 0
    <2>1. PICK p \in Orders : HasBought(p) /\ EventOf(p) = t[1]
      BY <1>1, <1>2, SharesAreBought
    <2>. QED BY <2>1, UsedFacts, OnlyUsed
  <1>. QED BY <1>1, <1>2

\* while an order may fill no other may, and the account has no shares
LEMMA OutAlone ==
    ASSUME EntryInv, PromptInv, NEW o \in Orders, Out(o)
    PROVE  /\ \A p \in Orders : Out(p) => p = o
           /\ \A t \in Tokens : owned[t] = 0
           /\ ~HasBought(o) /\ \A p \in Orders : HasBought(p) => EventOf(p) # EventOf(o)
  <1>1. Used(o) /\ Occupied(EventOf(o)) /\ EventOf(o) \in Events
    BY UsedFacts, OrderFacts
  <1>2. ASSUME NEW p \in Orders, Out(p)
        PROVE  p = o
    <2>1. Used(p) /\ Occupied(EventOf(p)) /\ EventOf(p) \in Events
      BY <1>2, UsedFacts, OrderFacts
    <2>2. EventOf(p) = EventOf(o)
      BY <1>1, <2>1 DEF PromptInv, OneOccupied
    <2>. QED BY <1>1, <2>1, <2>2, OnlyUsed
  <1>3. ~HasBought(o)
    BY UsedFacts DEF Out
  <1>4. ASSUME NEW t \in Tokens
        PROVE  owned[t] = 0
    <2>1. owned[t] \in Nat /\ t[1] \in Events
      BY OwnedFacts, TokenFacts
    <2>2. CASE owned[t] > 0
      <3>1. t[1] = EventOf(o)
        BY <1>1, <2>1, <2>2 DEF PromptInv, Exposed, OneOccupied
      <3>. QED BY <1>1, <1>3, <3>1, NothingElseBought
    <2>. QED BY <2>1, <2>2
  <1>5. \A p \in Orders : HasBought(p) => EventOf(p) # EventOf(o)
    BY <1>1, <1>3, UsedFacts, OnlyUsed
  <1>. QED BY <1>2, <1>3, <1>4, <1>5

\* the row of an event that was bought is of the side that was bought
LEMMA RowSide ==
    ASSUME EntryInv, PromptInv, NEW o \in Orders, HasBought(o),
           position[EventOf(o)].state # "none"
    PROVE  position[EventOf(o)].side = intent[o].side /\ HasPosition(TokenOf(o))
  <1>1. EventOf(o) \in Events
    BY OrderFacts
  <1>2. PICK p \in Orders :
            HasBought(p) /\ TokenOf(p) = <<EventOf(o), position[EventOf(o)].side>>
    BY <1>1 DEF PromptInv, RowsAreBought
  <1>3. p = o
    BY <1>2, OnePurchase DEF TokenOf
  <1>. QED BY <1>2, <1>3 DEF TokenOf, HasPosition

\* what was bought and not sold is still there, and keeps the slot
LEMMA BoughtIsOwned ==
    ASSUME EntryInv, PromptInv, NEW o \in Orders, HasBought(o),
           ~position[EventOf(o)].sold
    PROVE  owned[TokenOf(o)] = venue[o].filled /\ Occupied(EventOf(o))
  <1>1. owned[TokenOf(o)] = venue[o].filled
    BY DEF PromptInv, RowsAreBought
  <1>2. owned[TokenOf(o)] > 0
    BY <1>1 DEF HasBought
  <1>3. TokenOf(o) \in Tokens /\ TokenOf(o)[1] = EventOf(o)
    BY UsedFacts
  <1>. QED BY <1>1, <1>2, <1>3 DEF PromptInv, Exposed

-----------------------------------------------------------------------------
(* Every step keeps PromptInv *)

\* the grace of an order is kept by a step that counts no fill
LEMMA GraceKept ==
    ASSUME PromptInv, UNCHANGED venue,
           worker'.pc = "posted" => worker' = worker,
           \A o \in Orders :
               /\ intent'[o].fills = intent[o].fills
               /\ intent'[o].known => intent[o].known \/ ~venue[o].late,
           \/ UNCHANGED run \/ run'.pc \in {"idle", "orders"}
           \/ run.pc \notin {"idle", "orders", "trades"}
    PROVE  GraceIsEnough'
  BY DEF PromptInv, GraceIsEnough, WorkerAt

\* a step of a run that changes no row
LEMMA RunOnlyPrompt ==
    ASSUME EntryInv, PromptInv, EntryInv', UNCHANGED <<rows, world>>,
           worker' = worker \/ worker' = IdleWorker,
           \A o \in Orders :
               /\ o \in run'.todo => /\ intent[o].known /\ intent[o].state # "ZERO_FILL"
                                     /\ Occupied(EventOf(o))
               /\ o \in run'.pending => intent[o].known /\ venue[o].at = "matched",
           \A t \in Tokens : IsView(t, run'.held[t]),
           GraceIsEnough'
    PROVE  PromptInv'
  <1>1. UNCHANGED <<event, intent, position, venue, owned, feed>>
    BY DEF rows, world
  <1>2. /\ \A o \in Orders : HasBought(o)' <=> HasBought(o)
        /\ \A o \in Orders : (Out(o)' <=> Out(o)) /\ TokenOf(o)' = TokenOf(o)
        /\ \A o \in Orders : IsUnresolved(o)' <=> IsUnresolved(o)
        /\ \A e \in Events : Occupied(e)' <=> Occupied(e)
    BY <1>1 DEF HasBought, Out, Occupied, IsUnresolved, TokenOf
  <1>4. OneUsed' /\ MatchedBought' /\ ZeroFillIsTrue'
    BY <1>1 DEF PromptInv, OneUsed, MatchedBought, ZeroFillIsTrue, Tried, HasBought, Out
  <1>5. WorkerKnows'
    <2>1. worker'.pc # "idle" => worker' = worker
      BY DEF IdleWorker
    <2>. QED BY <1>1, <2>1 DEF PromptInv, WorkerKnows, Tried
  <1>6. KnownOrders'
    BY <1>1 DEF PromptInv, KnownOrders
  <1>7. Exposed'
    <2>1. run'.todo \subseteq Orders
      BY DEF EntryInv, TypeOK, Run
    <2>. QED BY <1>1, <1>2, <2>1, TokenFacts, OrderFacts DEF PromptInv, Exposed
  <1>8. OneOccupied'
    BY <1>2 DEF PromptInv, OneOccupied
  <1>9. Viewed'
    BY <1>1, <1>2 DEF PromptInv, Viewed, IsView
  <1>10. RowsAreBought'
    BY <1>1, <1>2 DEF PromptInv, RowsAreBought
  <1>. QED BY <1>4, <1>5, <1>6, <1>7, <1>8, <1>9, <1>10 DEF PromptInv

\* what PromptInv says of the coroutines: the part that a step on the rows has
\* to show for itself
Coroutines == WorkerKnows /\ KnownOrders /\ GraceIsEnough

\* an order that is in use is called something else
LEMMA RelabelPrompt ==
    ASSUME EntryInv, PromptInv, EntryInv', SameFills, UNCHANGED <<position, world>>,
           NEW o \in Orders, Used(o),
           \A p \in Orders : p # o => intent'[p] = intent[p],
           run'.held = run.held, run'.todo \subseteq run.todo,
           \/ intent'[o].state \in Unresolved /\ Occupied(EventOf(o))
           \/ /\ intent'[o].state \in {"ZERO_FILL", "REJECTED"}
              /\ venue[o].at \in {"none", "dead"} /\ o \notin run'.todo,
           Coroutines'
    PROVE  PromptInv'
  <1>1. UNCHANGED <<venue, owned, feed>>
    BY DEF world
  <1>2. \A p \in Orders : /\ HasBought(p)' <=> HasBought(p)
                          /\ (Out(p)' <=> Out(p)) /\ TokenOf(p)' = TokenOf(p)
                          /\ Tried(p)' <=> Tried(p)
    BY <1>1 DEF HasBought, Out, TokenOf, SameFills
  <1>3. CASE intent'[o].state \in Unresolved /\ Occupied(EventOf(o))
    <2>1. /\ IsUnresolved(o)' /\ intent'[o].state \notin {"ZERO_FILL", "REJECTED"}
          /\ \A p \in Orders : IsUnresolved(p) => IsUnresolved(p)'
      BY <1>3 DEF IsUnresolved, Unresolved
    <2>2. \A e \in Events : Occupied(e)' <=> Occupied(e)
      BY <1>3, <2>1 DEF Occupied, IsUnresolved
    <2>3. OneUsed'
      BY <1>2, UsedFacts DEF PromptInv, OneUsed, Used
    <2>4. ZeroFillIsTrue'
      BY <1>1, <1>2, <2>1 DEF PromptInv, ZeroFillIsTrue
    <2>5. Exposed' /\ OneOccupied'
      <3>1. \A p \in run'.todo : p \in Orders /\ p \in run.todo
        BY DEF EntryInv, TypeOK, Run
      <3>. QED BY <1>1, <1>2, <2>1, <2>2, <3>1, OrderFacts, TokenFacts
               DEF PromptInv, Exposed, OneOccupied
    <2>6. Viewed' /\ RowsAreBought' /\ MatchedBought'
      BY <1>1, <1>2 DEF PromptInv, Viewed, IsView, RowsAreBought, MatchedBought
    <2>. QED BY <2>3, <2>4, <2>5, <2>6 DEF PromptInv, Coroutines
  <1>4. CASE /\ intent'[o].state \in {"ZERO_FILL", "REJECTED"}
             /\ venue[o].at \in {"none", "dead"} /\ o \notin run'.todo
    <2>1. ~Out(o) /\ ~HasBought(o) /\ venue[o].filled = 0
      BY <1>4, UsedFacts DEF Out, EntryInv, Counted
    <2>2. \A p \in Orders : p # o => (IsUnresolved(p)' <=> IsUnresolved(p))
      BY DEF IsUnresolved
    <2>3. ~IsUnresolved(o)'
      BY <1>4 DEF IsUnresolved, Unresolved
    <2>4. \A e \in Events : /\ Occupied(e)' => Occupied(e)
                            /\ e # EventOf(o) => (Occupied(e)' <=> Occupied(e))
      BY <2>2, <2>3 DEF Occupied
    <2>5. \A t \in Tokens : t[1] = EventOf(o) => owned[t] = 0
      BY <2>1, NothingElseBought
    <2>6. \A p \in run'.todo : p \in Orders /\ p \in run.todo /\ EventOf(p) # EventOf(o)
      <3>1. \A p \in run'.todo : p \in Orders /\ p \in run.todo /\ p # o
        BY <1>4 DEF EntryInv, TypeOK, Run
      <3>2. \A p \in run.todo : Used(p)
        BY DEF EntryInv, Sided, PromptInv, KnownOrders, Used, Tried, TypeOK, Run
      <3>. QED BY <3>1, <3>2, OnlyUsed
    <2>7. OneUsed'
      BY <1>2, UsedFacts DEF PromptInv, OneUsed, Used
    <2>8. ZeroFillIsTrue'
      BY <1>1, <1>2, <2>1 DEF PromptInv, ZeroFillIsTrue
    <2>9. Exposed'
      <3>1. \A p \in Orders : Out(p)' => IsUnresolved(p)'
        BY <1>2, <2>1, <2>2 DEF PromptInv, Exposed
      <3>2. \A t \in Tokens : owned'[t] > 0 => Occupied(t[1])'
        BY <1>1, <2>4, <2>5, TokenFacts DEF PromptInv, Exposed
      <3>3. \A p \in run'.todo : Occupied(EventOf(p))'
        BY <2>4, <2>6, OrderFacts DEF PromptInv, Exposed
      <3>. QED BY <3>1, <3>2, <3>3 DEF Exposed
    <2>10. OneOccupied'
      BY <2>4 DEF PromptInv, OneOccupied
    <2>11. Viewed' /\ RowsAreBought' /\ MatchedBought'
      BY <1>1, <1>2 DEF PromptInv, Viewed, IsView, RowsAreBought, MatchedBought
    <2>. QED BY <2>7, <2>8, <2>9, <2>10, <2>11 DEF PromptInv, Coroutines
  <1>. QED BY <1>3, <1>4

\* the row of a bought order is opened, while the order keeps the slot or did
LEMMA OpeningPrompt ==
    ASSUME EntryInv, PromptInv, EntryInv', UNCHANGED world,
           NEW o \in Orders, HasBought(o), Occupied(EventOf(o)),
           NEW shares \in Nat, OpenPosition(o, shares),
           \/ worker' = IdleWorker
           \/ worker' = worker /\ intent[o].known,
           run'.todo \subseteq run.todo, run'.pending \subseteq run.pending,
           \A t \in Tokens : run'.held[t] \in {0, run.held[t]},
           run' = run \/ run.pc \notin {"idle", "orders", "trades"}
    PROVE  PromptInv'
  <1> DEFINE e == EventOf(o)
  <1>1. UNCHANGED <<venue, owned, feed>> /\ e \in Events /\ Used(o) /\ Tried(o)
    BY UsedFacts, OrderFacts DEF world
  <1>2. /\ SameFills
        /\ \A p \in Orders : /\ p # o => intent'[p] = intent[p]
                             /\ intent'[p].known = intent[p].known
        /\ intent'[o].state = "FILLED"
        /\ \A f \in Events : f # e => position'[f] = position[f]
        /\ position'[e].state \in {"OPEN", "DUST"}
        /\ position'[e].sellable = 0
        /\ position[e].state # "none" =>
              /\ position'[e].side = position[e].side
              /\ position'[e].sold = position[e].sold
        /\ position[e].state = "none" => position'[e].side = intent[o].side
    BY <1>1, OpenPositionEffect DEF EntryInv
  <1> HIDE DEF e
  <1>3. /\ position'[e].side = intent[o].side
        /\ position[e].sold => position'[e].sold
    <2>1. position[e].state # "none" => position[e].side = intent[o].side
      BY RowSide DEF e
    <2>2. position[e].state = "none" => ~position[e].sold
      BY <1>1 DEF EntryInv, Sided
    <2>. QED BY <1>2, <2>1, <2>2
  <1>4. \A p \in Orders : /\ HasBought(p)' <=> HasBought(p)
                          /\ (Out(p)' <=> Out(p)) /\ TokenOf(p)' = TokenOf(p)
                          /\ Tried(p)' <=> Tried(p)
                          /\ intent'[p].fills = intent[p].fills
                          /\ p # o => (IsUnresolved(p)' <=> IsUnresolved(p))
    BY <1>1, <1>2 DEF HasBought, Out, TokenOf, SameFills, IsUnresolved
  <1>5. Occupied(e)' /\ \A f \in Events : Occupied(f)' <=> Occupied(f)
    <2>1. Occupied(e)'
      BY <1>2 DEF Occupied, ActiveStates
    <2>2. \A f \in Events : f # e => (Occupied(f)' <=> Occupied(f))
      BY <1>2, <1>4 DEF Occupied, e
    <2>. QED BY <2>1, <2>2 DEF e
  <1>6. \A p \in run'.todo \cup run'.pending : p \in Orders
    BY DEF EntryInv, TypeOK, Run
  <1>7. OneUsed'
    BY <1>1, <1>2, <1>4 DEF PromptInv, OneUsed, Used
  <1>8. ZeroFillIsTrue' /\ MatchedBought'
    BY <1>1, <1>2, <1>4 DEF PromptInv, ZeroFillIsTrue, MatchedBought
  <1>9. Exposed'
    <2>1. ~Out(o)
      BY UsedFacts DEF Out
    <2>2. \A p \in Orders : Out(p)' => IsUnresolved(p)'
      BY <1>4, <2>1 DEF PromptInv, Exposed
    <2>3. \A t \in Tokens : owned'[t] > 0 => Occupied(t[1])'
      BY <1>1, <1>5, TokenFacts DEF PromptInv, Exposed
    <2>4. \A p \in run'.todo : Occupied(EventOf(p))'
      BY <1>5, <1>6, OrderFacts DEF PromptInv, Exposed
    <2>. QED BY <2>2, <2>3, <2>4 DEF Exposed
  <1>10. OneOccupied'
    BY <1>5 DEF PromptInv, OneOccupied
  <1>11. Viewed'
    <2>2. \A t \in Tokens : IsView(t, owned[t])' /\ IsView(t, feed[t])'
      BY <1>1, <1>4 DEF PromptInv, Viewed, IsView
    <2>3. \A t \in Tokens : IsView(t, run.held[t])'
      <3>1. \A t \in Tokens : run'.held[t] \in {0, run.held[t]}
        OBVIOUS
      <3>. QED BY <1>1, <1>4, <3>1 DEF PromptInv, Viewed, IsView
    <2>4. \A f \in Events : IsView(<<f, position[f].side>>, position[f].sellable)'
      <3>1. \A f \in Events : \/ position'[f].sellable = 0
                              \/ position'[f] = position[f]
        BY <1>2
      <3>. QED BY <1>1, <1>4, <3>1 DEF PromptInv, Viewed, IsView
    <2>. QED BY <2>2, <2>3, <2>4 DEF Viewed
  <1>12. RowsAreBought'
    <2>1. \A f \in Events : position'[f].state # "none" => \E p \in Orders :
              HasBought(p)' /\ TokenOf(p)' = <<f, position'[f].side>>
      <3>1. TokenOf(o)' = <<e, position'[e].side>> /\ HasBought(o)'
        BY <1>3, <1>4 DEF TokenOf, e
      <3>. QED BY <1>2, <1>4, <3>1 DEF PromptInv, RowsAreBought
    <2>2. \A f \in Events : position'[f].state = "none" => position'[f].sellable = 0
      BY <1>2 DEF PromptInv, RowsAreBought
    <2>3. \A f \in Events : position'[f].state = "CLOSED" =>
              position'[f].sold /\ position'[f].remaining = 0 /\ position'[f].sellable = 0
      BY <1>2 DEF PromptInv, RowsAreBought
    <2>4. \A p \in Orders : HasBought(p)' =>
              owned'[TokenOf(p)'] = venue'[p].filled \/ position'[EventOf(p)].sold
      BY <1>1, <1>2, <1>3, <1>4, OrderFacts DEF PromptInv, RowsAreBought
    <2>. QED BY <2>1, <2>2, <2>3, <2>4 DEF RowsAreBought
  <1>13. WorkerKnows'
    <2>1. CASE worker' = IdleWorker
      BY <2>1 DEF WorkerKnows, IdleWorker
    <2>2. CASE worker' = worker /\ intent[o].known
      <3>1. worker.pc \in {"reserved", "signing", "posted"} => worker.order # o
        BY <2>2 DEF PromptInv, WorkerKnows
      <3>2. worker.pc # "idle" => worker.order \in Orders
        BY DEF EntryInv, Sided
      <3>. QED BY <1>1, <1>2, <1>4, <2>2, <3>1, <3>2 DEF PromptInv, WorkerKnows
    <2>. QED BY <2>1, <2>2
  <1>14. KnownOrders'
    BY <1>1, <1>2, <1>6 DEF PromptInv, KnownOrders, KnownStates
  <1>15. GraceIsEnough'
    <2>1. worker'.pc = "posted" => worker' = worker
      BY DEF IdleWorker
    <2>. QED BY <1>1, <1>2, <1>4, <2>1, GraceKept
  <1>. QED BY <1>7, <1>8, <1>9, <1>10, <1>11, <1>12, <1>13, <1>14, <1>15 DEF PromptInv

LEMMA ReservePrompt ==
    ASSUME EntryInv, PromptInv, EntryInv', NEW o \in Orders, NEW side \in Sides,
           Reserve(o, side)
    PROVE  PromptInv'
  <1> DEFINE e == EventOf(o)
             new == [NoIntent EXCEPT !.state = "RESERVED", !.side = side]
  <1>1. /\ worker.pc = "idle" /\ Cardinality(TriedOf(e)) = o[2] - 1
        /\ MayReserve(e) /\ SlotEmpty
        /\ intent' = [intent EXCEPT ![o] = new]
        /\ WorkerGoes("reserved", o)
        /\ UNCHANGED <<position, run, venue, owned, feed>>
    BY DEF Reserve, world
  <1>2. /\ new \in Intent /\ new.state = "RESERVED" /\ new.side = side /\ new.fills = 0
        /\ new.known = FALSE
    <2>1. LET i == new
          IN  /\ i \in Intent /\ i.state = "RESERVED" /\ i.side = side
              /\ ~i.known /\ i.filled = 0 /\ i.fills = 0
      BY ReservedType
    <2>2. new \in Intent => new.known \in BOOLEAN
      BY IntentType
    <2> HIDE DEF new
    <2>. QED BY <2>1, <2>2
  <1> HIDE DEF new
  <1>3. \A p \in Orders : EventOf(p) = e => (Tried(p) <=> p[2] < o[2])
    BY <1>1, NextAttempt DEF EntryInv
  <1>4. ~Tried(o) /\ venue[o].at = "none" /\ ~HasBought(o) /\ o \notin run.todo \cup run.pending
    BY <1>3, OrderFacts DEF EntryInv, Sided, Counted, HasBought
  <1>5. intent'[o] = new /\ \A p \in Orders : p # o => intent'[p] = intent[p]
    BY <1>1 DEF EntryInv, TypeOK
  <1>6. worker'.pc = "reserved" /\ worker'.order = o
    BY <1>1, WorkerType
  <1>7. \A p \in Orders : /\ HasBought(p)' <=> HasBought(p)
                          /\ Out(p)' <=> Out(p)
                          /\ Tried(p)' <=> p = o \/ Tried(p)
                          /\ p # o => TokenOf(p)' = TokenOf(p)
                          /\ IsUnresolved(p)' <=> p = o
    BY <1>1, <1>2, <1>5
       DEF HasBought, Out, Tried, TokenOf, IsUnresolved, Unresolved, SlotEmpty
  <1>8. /\ \A f \in Events : ~Occupied(f)
        /\ \A f \in Events : Occupied(f)' => f = e
    BY <1>1, <1>7 DEF SlotEmpty, Occupied
  <1>9. \A p \in Orders : EventOf(p) = e /\ Tried(p) => intent[p].state = "ZERO_FILL"
    BY <1>1 DEF MayReserve, TriedOf, Tried
  <1>10. OneUsed'
    <2>1. ASSUME NEW p \in Orders, NEW q \in Orders,
                 EventOf(p) = EventOf(q), p[2] < q[2], Tried(q)'
          PROVE  intent'[p].state = "ZERO_FILL"
      <3>1. CASE q = o
        BY <1>3, <1>5, <1>9, <2>1, <3>1, OrderFacts
      <3>2. CASE q # o
        <4>1. p # o
          BY <1>3, <1>7, <2>1, <3>2, OrderFacts
        <4>. QED BY <1>5, <1>7, <2>1, <3>2, <4>1 DEF PromptInv, OneUsed
      <3>. QED BY <3>1, <3>2
    <2>. QED BY <2>1 DEF OneUsed
  <1>11. WorkerKnows'
    <2>1. \A p \in Orders : EventOf(p) = e /\ Tried(p)' => p[2] <= o[2]
      BY <1>3, <1>7, OrderFacts
    <2>. QED BY <1>1, <1>2, <1>4, <1>5, <1>6, <2>1 DEF WorkerKnows
  <1>12. KnownOrders'
    BY <1>1, <1>2, <1>4, <1>5 DEF PromptInv, KnownOrders
  <1>13. GraceIsEnough'
    BY <1>1, <1>2, <1>5, <1>6 DEF PromptInv, GraceIsEnough, WorkerAt
  <1>14. MatchedBought' /\ ZeroFillIsTrue'
    BY <1>1, <1>2, <1>5, <1>7 DEF PromptInv, MatchedBought, ZeroFillIsTrue
  <1>15. Exposed'
    <2>1. \A p \in Orders : ~Out(p)'
      BY <1>1, <1>7 DEF PromptInv, Exposed, SlotEmpty
    <2>2. \A t \in Tokens : ~(owned'[t] > 0)
      BY <1>1, <1>8, TokenFacts DEF PromptInv, Exposed
    <2>3. \A p \in run'.todo : FALSE
      BY <1>1, <1>8, OrderFacts DEF PromptInv, Exposed, EntryInv, TypeOK, Run
    <2>. QED BY <2>1, <2>2, <2>3 DEF Exposed
  <1>16. OneOccupied'
    BY <1>8 DEF OneOccupied
  <1>17. Viewed' /\ RowsAreBought'
    BY <1>1, <1>4, <1>7 DEF PromptInv, Viewed, IsView, RowsAreBought
  <1>. QED BY <1>10, <1>11, <1>12, <1>13, <1>14, <1>15, <1>16, <1>17 DEF PromptInv

\* the order the worker has in hand, until its response is there
LEMMA InHand ==
    ASSUME EntryInv, PromptInv, NEW o \in Orders,
           NEW pc \in {"reserved", "signing", "posted"}, WorkerAt(pc, o)
    PROVE  /\ worker.pc = pc /\ worker.order = o
           /\ Used(o) /\ IsUnresolved(o) /\ Occupied(EventOf(o)) /\ ~intent[o].known
           /\ o \notin run.todo /\ o \notin run.pending
           /\ intent[o].state \in {"RESERVED", "SUBMITTING"}
           /\ pc \in {"reserved", "signing"} => venue[o].at = "none"
           /\ pc = "posted" => venue[o].at # "none" /\ ~venue[o].late
           /\ \A p \in Orders : EventOf(p) = EventOf(o) /\ Tried(p) => p[2] <= o[2]
  <1>1. worker.pc = pc /\ worker.order = o
    BY DEF WorkerAt
  <1>2. /\ intent[o].state \in {"RESERVED", "SUBMITTING"} /\ ~intent[o].known
        /\ pc \in {"reserved", "signing"} => venue[o].at = "none"
        /\ pc = "posted" => venue[o].at # "none"
        /\ \A p \in Orders : EventOf(p) = EventOf(o) /\ Tried(p) => p[2] <= o[2]
    BY <1>1 DEF PromptInv, WorkerKnows
  <1>3. IsUnresolved(o)
    BY <1>2 DEF IsUnresolved, Unresolved
  <1>4. o \notin run.todo /\ o \notin run.pending
    BY <1>2 DEF PromptInv, KnownOrders
  <1>5. pc = "posted" => ~venue[o].late
    BY DEF PromptInv, GraceIsEnough
  <1>. QED BY <1>1, <1>2, <1>3, <1>4, <1>5, UsedFacts

\* the worker gives its order a state, without an id
LEMMA SettlingPrompt ==
    ASSUME EntryInv, PromptInv, EntryInv', NEW o \in Orders,
           NEW pc \in {"reserved", "signing", "posted"}, WorkerAt(pc, o),
           UNCHANGED <<run, world>>,
           \/ /\ MarkZeroFill(o) \/ SetState(o, "REJECTED")
              /\ WorkerDone /\ venue[o].at \in {"none", "dead"}
           \/ SetState(o, "SUBMITTING") /\ WorkerGoes("signing", o) /\ pc = "reserved"
           \/ /\ SetState(o, "RECONCILIATION_REQUIRED") /\ WorkerGoes("publishing", o)
              /\ pc = "posted"
    PROVE  PromptInv'
  <1>1. /\ Used(o) /\ Tried(o) /\ Occupied(EventOf(o)) /\ ~intent[o].known
        /\ o \notin run.todo /\ o \notin run.pending
        /\ pc \in {"reserved", "signing"} => venue[o].at = "none"
        /\ pc = "posted" => venue[o].at # "none"
        /\ \A p \in Orders : EventOf(p) = EventOf(o) /\ Tried(p) => p[2] <= o[2]
    BY InHand DEF Used, Tried
  <1>2. /\ SameFills
        /\ \A p \in Orders : p # o => intent'[p] = intent[p]
        /\ intent'[o].known = intent[o].known
        /\ UNCHANGED <<position, run, world, venue, owned, feed>>
        /\ \/ /\ intent'[o].state \in {"ZERO_FILL", "REJECTED"}
              /\ WorkerDone /\ venue[o].at \in {"none", "dead"}
           \/ /\ intent'[o].state = "SUBMITTING" /\ WorkerGoes("signing", o)
              /\ pc = "reserved"
           \/ /\ intent'[o].state = "RECONCILIATION_REQUIRED"
              /\ WorkerGoes("publishing", o) /\ pc = "posted"
    <2>1. \A s \in {"REJECTED", "SUBMITTING", "RECONCILIATION_REQUIRED"} :
              s \in Final \cup Unresolved
      BY DEF Final, Unresolved
    <2>. QED BY <1>1, <2>1, SetStateEffect, MarkZeroFillEffect DEF EntryInv, world
  <1>3. \A p \in Orders : (Tried(p)' <=> Tried(p)) /\ intent'[p].fills = intent[p].fills
                          /\ intent'[p].known = intent[p].known
    BY <1>2 DEF SameFills
  <1>4. WorkerKnows'
    <2>1. CASE WorkerDone
      BY <2>1 DEF WorkerDone, IdleWorker, WorkerKnows
    <2>2. CASE intent'[o].state = "SUBMITTING" /\ WorkerGoes("signing", o) /\ pc = "reserved"
      <3>1. worker'.pc = "signing" /\ worker'.order = o
        BY <2>2, WorkerType
      <3>. QED BY <1>1, <1>2, <1>3, <2>2, <3>1 DEF WorkerKnows
    <2>3. CASE WorkerGoes("publishing", o) /\ pc = "posted"
      <3>1. worker'.pc = "publishing" /\ worker'.order = o
        BY <2>3, WorkerType
      <3>. QED BY <1>1, <1>2, <1>3, <2>3, <3>1 DEF WorkerKnows
    <2>. QED BY <1>2, <2>1, <2>2, <2>3
  <1>5. KnownOrders'
    BY <1>1, <1>2, <1>3 DEF PromptInv, KnownOrders
  <1>6. GraceIsEnough'
    <2>1. worker'.pc # "posted"
      BY <1>2, WorkerType
    <2>. QED BY <1>2, <1>3, <2>1, GraceKept
  <1>7. \/ intent'[o].state \in Unresolved
        \/ intent'[o].state \in {"ZERO_FILL", "REJECTED"} /\ venue[o].at \in {"none", "dead"}
    BY <1>2 DEF Unresolved
  <1>8. run'.held = run.held /\ run'.todo \subseteq run.todo /\ o \notin run'.todo
    BY <1>1, <1>2
  <1>. QED BY <1>1, <1>2, <1>4, <1>5, <1>6, <1>7, <1>8, RelabelPrompt DEF Coroutines

LEMMA AcceptedPrompt ==
    ASSUME EntryInv, PromptInv, EntryInv', NEW o \in Orders, Accepted(o)
    PROVE  PromptInv'
  <1>1. /\ WorkerAt("posted", o) /\ venue[o].at \in {"open", "matched", "dead"}
        /\ intent' = [intent EXCEPT ![o].state = "RECONCILIATION_REQUIRED",
                                    ![o].known = TRUE]
        /\ UNCHANGED <<event, position, run, world, venue, owned, feed>>
        /\ WorkerGoes("publishing", o)
    BY DEF Accepted, world
  <1>2. /\ Used(o) /\ Tried(o) /\ Occupied(EventOf(o)) /\ ~intent[o].known
        /\ o \notin run.todo /\ o \notin run.pending /\ ~venue[o].late
        /\ \A p \in Orders : EventOf(p) = EventOf(o) /\ Tried(p) => p[2] <= o[2]
    BY <1>1, InHand DEF Used, Tried
  <1>3. /\ intent'[o].state = "RECONCILIATION_REQUIRED" /\ intent'[o].known
        /\ intent'[o].side = intent[o].side /\ intent'[o].fills = intent[o].fills
        /\ \A p \in Orders : p # o => intent'[p] = intent[p]
    BY <1>1 DEF EntryInv, TypeOK, Intent
  <1>4. SameFills
    BY <1>2, <1>3 DEF SameFills, Tried
  <1>5. worker'.pc = "publishing" /\ worker'.order = o
    BY <1>1, WorkerType
  <1>6. WorkerKnows'
    BY <1>1, <1>2, <1>4, <1>5 DEF WorkerKnows, SameFills
  <1>7. KnownOrders'
    BY <1>1, <1>2, <1>3 DEF PromptInv, KnownOrders, KnownStates
  <1>8. GraceIsEnough'
    BY <1>1, <1>2, <1>3, <1>4, <1>5, GraceKept DEF SameFills
  <1>9. intent'[o].state \in Unresolved
    BY <1>3 DEF Unresolved
  <1>. QED BY <1>1, <1>2, <1>3, <1>4, <1>6, <1>7, <1>8, <1>9, RelabelPrompt DEF Coroutines

LEMMA PublishPrompt ==
    ASSUME PromptVenue, EntryInv, PromptInv, EntryInv', NEW o \in Orders, Publish(o)
    PROVE  PromptInv'
  <1>1. /\ Tried(o) /\ UNCHANGED <<run, world>> /\ worker' = IdleWorker
        /\ worker.pc = "publishing" /\ worker.order = o
    BY WorkerAtFacts DEF Publish, WorkerDone
  <1>2. PICK shares \in Evidence(o) \cap (0..Lot) :
            IF shares > 0 /\ ~HasPosition(TokenOf(o))
            THEN OpenPosition(o, shares) ELSE UNCHANGED rows
    BY DEF Publish
  <1>3. \A p \in Orders : EventOf(p) = EventOf(o) /\ Tried(p) => p[2] <= o[2]
    BY <1>1 DEF PromptInv, WorkerKnows
  <1>4. TokenOf(o) \in Tokens /\ TokenOf(o)[1] = EventOf(o) /\ owned[TokenOf(o)] \in Nat
    BY <1>1, UsedFacts, OwnedFacts
  <1>5. CASE UNCHANGED rows
    <2>1. UNCHANGED <<intent, venue>>
      BY <1>1, <1>5 DEF rows, world
    <2>2. GraceIsEnough'
      BY <1>1, <2>1, GraceKept DEF IdleWorker
    <2>3. \A t \in Tokens : IsView(t, run'.held[t])
      BY <1>1, OwnedFacts
    <2>4. \A p \in Orders :
               /\ p \in run'.todo => /\ intent[p].known /\ intent[p].state # "ZERO_FILL"
                                     /\ Occupied(EventOf(p))
               /\ p \in run'.pending => intent[p].known /\ venue[p].at = "matched"
      BY <1>1 DEF PromptInv, KnownOrders, Exposed
    <2>. QED BY <1>1, <1>5, <2>2, <2>3, <2>4, RunOnlyPrompt
  <1>6. CASE shares > 0 /\ OpenPosition(o, shares)
    <2>1. shares = owned[TokenOf(o)] /\ owned[TokenOf(o)] > 0 /\ shares \in Nat
      BY <1>4, <1>6 DEF Evidence
    <2>2. PICK p \in Orders : HasBought(p) /\ EventOf(p) = EventOf(o)
      BY <1>4, <2>1, OwnedFacts, SharesAreBought
    <2>3. p = o
      <3>1. Tried(p) /\ intent[p].state # "ZERO_FILL" /\ p[2] <= o[2]
        BY <1>3, <2>2, UsedFacts DEF Used, Tried
      <3>2. ~(p[2] < o[2])
        BY <1>1, <2>2, <3>1 DEF PromptInv, OneUsed
      <3>. QED BY <2>2, <3>1, <3>2, OrderFacts, SameOrder
    <2>4. Occupied(EventOf(o))
      BY <1>4, <2>1 DEF PromptInv, Exposed
    <2>5. UNCHANGED world /\ run' = run
      BY <1>1
    <2>6. /\ run'.todo \subseteq run.todo /\ run'.pending \subseteq run.pending
          /\ \A t \in Tokens : run'.held[t] \in {0, run.held[t]}
      BY <2>5
    <2>7. HasBought(o) /\ OpenPosition(o, shares) /\ worker' = IdleWorker
      BY <1>1, <1>6, <2>2, <2>3
    <2>. QED BY <2>1, <2>4, <2>5, <2>6, <2>7, OpeningPrompt
  <1>. QED BY <1>2, <1>5, <1>6

LEMMA WorkerStepPrompt ==
    ASSUME PromptVenue, EntryInv, PromptInv, EntryInv', NEW o \in Orders, WorkerStep(o)
    PROVE  PromptInv'
  <1>1. CASE Abort(o) \/ Refuse(o)
    <2>1. WorkerAt("reserved", o) /\ UNCHANGED <<run, world>> /\ WorkerDone
          /\ (MarkZeroFill(o) \/ SetState(o, "REJECTED"))
      BY <1>1 DEF Abort, Refuse
    <2>2. venue[o].at = "none"
      BY <2>1, InHand
    <2>. QED BY <2>1, <2>2, SettlingPrompt
  <1>2. CASE Submit(o)
    BY <1>2, SettlingPrompt DEF Submit
  <1>3. CASE NotSubmitted(o)
    <2>1. WorkerAt("signing", o) /\ UNCHANGED <<run, world>> /\ WorkerDone
          /\ (MarkZeroFill(o) \/ SetState(o, "REJECTED"))
      BY <1>3 DEF NotSubmitted
    <2>2. venue[o].at = "none"
      BY <2>1, InHand
    <2>. QED BY <2>1, <2>2, SettlingPrompt
  <1>4. CASE NotFilled(o)
    BY <1>4, SettlingPrompt DEF NotFilled
  <1>5. CASE Unknown(o)
    BY <1>5, SettlingPrompt DEF Unknown
  <1>6. CASE Post(o)
    <2>1. /\ WorkerAt("signing", o) /\ venue' = [venue EXCEPT ![o].at = "sent"]
          /\ WorkerGoes("posted", o)
          /\ UNCHANGED <<intent, position, run, owned, feed>>
      BY <1>6 DEF Post, rows
    <2>2. /\ worker.order = o /\ worker.pc = "signing" /\ venue[o].at = "none"
          /\ IsUnresolved(o) /\ ~intent[o].known
          /\ intent[o].state = "SUBMITTING" /\ o \notin run.pending
          /\ \A p \in Orders : EventOf(p) = EventOf(o) /\ Tried(p) => p[2] <= o[2]
      BY <2>1, InHand DEF PromptInv, WorkerKnows
    <2>3. /\ worker'.order = o /\ worker'.pc = "posted"
      BY <2>1, WorkerType
    <2>4. /\ venue'[o].at = "sent" /\ venue'[o].filled = venue[o].filled
          /\ venue'[o].late = venue[o].late
          /\ \A p \in Orders : p # o => venue'[p] = venue[p]
      BY <2>1 DEF EntryInv, TypeOK, VenueOrder
    <2>5. ~venue[o].late
      BY <2>2 DEF PromptInv, GraceIsEnough
    <2>6. \A p \in Orders : /\ HasBought(p)' <=> HasBought(p)
                            /\ TokenOf(p)' = TokenOf(p) /\ (IsUnresolved(p)' <=> IsUnresolved(p))
                            /\ venue'[p].filled = venue[p].filled
      BY <2>1, <2>4 DEF HasBought, TokenOf, IsUnresolved
    <2>7. \A e \in Events : Occupied(e)' <=> Occupied(e)
      BY <2>1, <2>6 DEF Occupied
    <2>8. OneUsed' /\ WorkerKnows'
      BY <2>1, <2>2, <2>3, <2>4 DEF PromptInv, OneUsed, WorkerKnows, Tried
    <2>9. KnownOrders'
      BY <2>1, <2>2, <2>4 DEF PromptInv, KnownOrders
    <2>10. GraceIsEnough'
      BY <2>1, <2>3, <2>4, <2>5 DEF PromptInv, GraceIsEnough, WorkerAt
    <2>11. MatchedBought' /\ ZeroFillIsTrue'
      BY <2>1, <2>2, <2>4, <2>6 DEF PromptInv, MatchedBought, ZeroFillIsTrue, Out
    <2>12. Exposed' /\ OneOccupied'
      BY <2>1, <2>2, <2>4, <2>6, <2>7, TokenFacts, OrderFacts
         DEF PromptInv, Exposed, OneOccupied, Out, EntryInv, TypeOK, Run
    <2>13. Viewed' /\ RowsAreBought'
      BY <2>1, <2>6 DEF PromptInv, Viewed, IsView, RowsAreBought
    <2>. QED BY <2>8, <2>9, <2>10, <2>11, <2>12, <2>13 DEF PromptInv
  <1>. QED BY <1>1, <1>2, <1>3, <1>4, <1>5, <1>6, AcceptedPrompt, PublishPrompt
       DEF WorkerStep

\* the steps of a run that read, or leave something out
LEMMA RunReadsPrompt ==
    ASSUME EntryInv, PromptInv, EntryInv',
           \/ ReadOpenOrders \/ ReadTrades \/ ListUnresolved \/ RemotePositions
           \/ EndRun \/ RunRaises \/ \E o \in Orders : Undecided(o)
    PROVE  PromptInv'
  <1>1. UNCHANGED <<rows, worker, world, intent, venue>>
    BY DEF ReadOpenOrders, ReadTrades, ListUnresolved, RemotePositions, EndRun, RunRaises,
           Undecided, rows, world
  <1>2. run \in Run /\ IdleRun.pc = "idle" /\ IdleRun.todo = {} /\ IdleRun.pending = {}
        /\ \A t \in Tokens : IdleRun.held[t] = 0
    BY DEF EntryInv, TypeOK, IdleRun
  <1>3. \/ /\ run'.todo = {} /\ run'.pending = {} /\ run'.pc \in {"idle", "orders"}
           /\ \A t \in Tokens : run'.held[t] = 0
        \/ /\ run'.todo \subseteq run.todo \/ ListUnresolved
           /\ run'.pending = run.pending /\ run'.held = run.held
           /\ \/ run.pc \notin {"idle", "orders", "trades"}
              \/ run'.pc = "trades" /\ run'.trades = [o \in Orders |-> venue[o].shown]
    <2>1. CASE ReadOpenOrders \/ EndRun \/ RunRaises
      BY <1>2, <2>1 DEF ReadOpenOrders, EndRun, RunRaises, RunFails, IdleRun
    <2>2. CASE ReadTrades
      BY <1>2, <2>2 DEF ReadTrades, Run
    <2>3. CASE ListUnresolved
      BY <1>2, <2>3 DEF ListUnresolved, Run
    <2>4. CASE RemotePositions
      BY <1>2, <2>4 DEF RemotePositions, RunGoes, Run
    <2>5. CASE \E o \in Orders : Undecided(o)
      BY <1>2, <2>5 DEF Undecided, Run
    <2>. QED BY <2>1, <2>2, <2>3, <2>4, <2>5
  <1>4. \A o \in Orders :
            /\ o \in run'.todo => /\ intent[o].known /\ intent[o].state # "ZERO_FILL"
                                  /\ Occupied(EventOf(o))
            /\ o \in run'.pending => intent[o].known /\ venue[o].at = "matched"
    <2>1. ASSUME ListUnresolved
          PROVE  \A o \in run'.todo : IsUnresolved(o) /\ intent[o].known
      BY <1>2, <2>1 DEF ListUnresolved, Run
    <2>2. \A o \in Orders : IsUnresolved(o) => /\ intent[o].state # "ZERO_FILL"
                                               /\ Occupied(EventOf(o))
      BY UsedFacts DEF Used
    <2>. QED BY <1>3, <2>1, <2>2 DEF PromptInv, KnownOrders, Exposed
  <1>5. \A t \in Tokens : IsView(t, run'.held[t])
    BY <1>3, OwnedFacts DEF IsView
  <1>6. GraceIsEnough'
    <2>1. CASE run'.pc \in {"idle", "orders"} \/ run.pc \notin {"idle", "orders", "trades"}
      BY <1>1, <2>1, GraceKept
    <2>2. CASE run'.pc = "trades" /\ run'.trades = [o \in Orders |-> venue[o].shown]
      <3>1. \A o \in Orders : venue[o].late => run'.trades[o] = venue[o].filled
        BY <2>2 DEF PromptInv, GraceIsEnough
      <3>. QED BY <1>1, <2>2, <3>1 DEF PromptInv, GraceIsEnough, WorkerAt
    <2>. QED BY <1>3, <2>1, <2>2
  <1>. QED BY <1>1, <1>4, <1>5, <1>6, RunOnlyPrompt

LEMMA CrashPrompt ==
    ASSUME EntryInv, PromptInv, EntryInv', Crash
    PROVE  PromptInv'
  <1>1. /\ worker' = IdleWorker /\ run' = IdleRun /\ UNCHANGED <<rows, world, intent, venue>>
    BY DEF Crash, rows, world
  <1>2. /\ run'.todo = {} /\ run'.pending = {} /\ run'.pc = "idle"
        /\ \A t \in Tokens : run'.held[t] = 0
    BY <1>1 DEF IdleRun
  <1>3. GraceIsEnough'
    BY <1>1, <1>2, GraceKept DEF IdleWorker
  <1>. QED BY <1>1, <1>2, <1>3, RunOnlyPrompt DEF IsView

LEMMA ReadPositionsPrompt ==
    ASSUME EntryInv, PromptInv, EntryInv', ReadPositions
    PROVE  PromptInv'
  <1>1. /\ run.pc = "trades" /\ UNCHANGED <<position, worker, venue, owned, feed>>
        /\ run' = [run EXCEPT !.pc = "positions", !.held = feed]
        /\ intent' = [o \in Orders |-> IF intent[o].known THEN AddFill(o) ELSE intent[o]]
    BY DEF ReadPositions, world
  <1>2. /\ run \in Run /\ intent \in [Orders -> Intent] /\ venue \in [Orders -> VenueOrder]
    BY DEF EntryInv, TypeOK
  <1>3. /\ run'.pc = "positions" /\ run'.held = feed
        /\ run'.todo = run.todo /\ run'.pending = run.pending
    BY <1>1, <1>2 DEF Run
  <1>4. ASSUME NEW o \in Orders
        PROVE  /\ intent'[o].state = intent[o].state /\ intent'[o].side = intent[o].side
               /\ intent'[o].known = intent[o].known
               /\ intent[o].known => intent'[o].fills = Greater(intent[o].fills, run.trades[o])
    BY <1>1, <1>2 DEF AddFill, Intent
  <1>5. \A o \in Orders : /\ HasBought(o)' <=> HasBought(o)
                          /\ (Out(o)' <=> Out(o)) /\ TokenOf(o)' = TokenOf(o)
                          /\ Tried(o)' <=> Tried(o)
                          /\ IsUnresolved(o)' <=> IsUnresolved(o)
    BY <1>1, <1>4 DEF HasBought, Out, TokenOf, Tried, IsUnresolved
  <1>6. \A e \in Events : Occupied(e)' <=> Occupied(e)
    BY <1>1, <1>5 DEF Occupied
  <1>7. OneUsed' /\ MatchedBought' /\ ZeroFillIsTrue' /\ OneOccupied'
    BY <1>1, <1>4, <1>5, <1>6
       DEF PromptInv, OneUsed, MatchedBought, ZeroFillIsTrue, OneOccupied
  <1>8. WorkerKnows'
    <2>1. worker.pc # "idle" => worker.order \in Orders
      BY DEF EntryInv, Sided
    <2>. QED BY <1>1, <1>4, <1>5, <2>1 DEF PromptInv, WorkerKnows
  <1>9. KnownOrders'
    BY <1>1, <1>3, <1>4 DEF PromptInv, KnownOrders
  <1>10. GraceIsEnough'
    <2>1. ASSUME NEW o \in Orders, venue[o].late, intent[o].known
          PROVE  intent'[o].fills = venue[o].filled
      <3>1. /\ intent[o].fills <= venue[o].filled /\ run.trades[o] <= venue[o].filled
            /\ intent[o].fills = venue[o].filled \/ run.trades[o] = venue[o].filled
        BY <1>1, <2>1 DEF PromptInv, GraceIsEnough, EntryInv, Counted
      <3>2. intent[o].fills \in Nat /\ run.trades[o] \in Nat /\ venue[o].filled \in Nat
        BY <1>2, CountTypes, EntryAssumption DEF Run
      <3>. QED BY <1>4, <2>1, <3>1, <3>2 DEF Greater
    <2>. QED BY <1>1, <1>4, <2>1 DEF PromptInv, GraceIsEnough, WorkerAt
  <1>11. Exposed'
    BY <1>1, <1>3, <1>5, <1>6, TokenFacts, OrderFacts
       DEF PromptInv, Exposed, EntryInv, TypeOK, Run
  <1>12. Viewed' /\ RowsAreBought'
    BY <1>1, <1>3, <1>5 DEF PromptInv, Viewed, IsView, RowsAreBought
  <1>. QED BY <1>7, <1>8, <1>9, <1>10, <1>11, <1>12 DEF PromptInv

\* what get_order shows of a listed order decides it: its trades were read, and
\* the grace of an order without trades is over
LEMMA ResolvePrompt ==
    ASSUME EntryInv, PromptInv, EntryInv', NEW o \in Orders, Resolve(o)
    PROVE  PromptInv'
  <1> DEFINE listed == [run EXCEPT !.todo = @ \ {o}]
             Opens1 == intent[o].fills > 0 /\ OpenPosition(o, intent[o].fills) /\ run' = listed
             Waits == /\ HandedOff(o) /\ UNCHANGED rows
                      /\ run' = [listed EXCEPT !.pending = @ \cup {o}]
             Zero == /\ ~StillOpen(o) /\ ~HandedOff(o)
                     /\ MarkZeroFill(o) /\ run' = listed
             Fails == RunFails /\ UNCHANGED rows
             Live == /\ intent' = [intent EXCEPT ![o].state = "LIVE", ![o].filled = 0]
                     /\ run' = listed /\ UNCHANGED <<event, position>>
  <1>1. /\ run.pc = "intents" /\ o \in run.todo /\ UNCHANGED <<worker, world, venue>>
        /\ Opens1 \/ Waits \/ Zero \/ Fails \/ Live
    BY DEF Resolve, world
  <1>2. /\ run \in Run /\ Tried(o) /\ Used(o) /\ intent[o].known
        /\ Occupied(EventOf(o)) /\ venue[o].at \in {"open", "matched", "dead"}
    BY <1>1 DEF EntryInv, TypeOK, Sided, PromptInv, KnownOrders, Exposed, Used, Tried
  <1>3. /\ listed.trades = run.trades /\ listed.held = run.held /\ listed.pc = "intents"
        /\ listed.pending = run.pending /\ listed.todo = run.todo \ {o}
        /\ listed \in Run
    BY <1>1, <1>2 DEF Run
  <1> HIDE DEF listed
  <1>4. /\ worker.pc \in {"reserved", "signing", "posted"} => worker.order # o
        /\ worker.pc # "idle" => worker.order \in Orders
    BY <1>2 DEF PromptInv, WorkerKnows, EntryInv, Sided
  <1>5. \A p \in Orders :
            /\ p \in run.todo => /\ intent[p].known /\ intent[p].state # "ZERO_FILL"
                                 /\ Occupied(EventOf(p))
            /\ p \in run.pending => intent[p].known /\ venue[p].at = "matched"
    BY DEF PromptInv, KnownOrders, Exposed
  <1>6. CASE Opens1
    <2>1. intent[o].fills \in Nat /\ HasBought(o)
      <3>1. intent[o].fills \in Nat /\ venue[o].filled \in Nat
        BY CountTypes DEF EntryInv, TypeOK
      <3>. QED BY <1>6, <3>1 DEF HasBought, EntryInv, Counted
    <2>2. /\ run'.todo \subseteq run.todo /\ run'.pending \subseteq run.pending
          /\ \A t \in Tokens : run'.held[t] \in {0, run.held[t]}
      BY <1>3, <1>6
    <2>3. UNCHANGED world /\ worker' = worker
      BY <1>1
    <2>. QED BY <1>1, <1>2, <1>6, <2>1, <2>2, <2>3, OpeningPrompt
  <1>7. CASE Waits
    <2>1. /\ run'.todo = run.todo \ {o} /\ run'.pending = run.pending \cup {o}
          /\ run'.held = run.held
      BY <1>3, <1>7 DEF Run
    <2>2. venue[o].at = "matched"
      BY <1>7 DEF HandedOff
    <2>3. GraceIsEnough'
      BY <1>1, <1>7, GraceKept DEF rows
    <2>. QED BY <1>1, <1>2, <1>5, <1>7, <2>1, <2>2, <2>3, OwnedFacts, RunOnlyPrompt
  <1>8. CASE Zero
    <2>1. /\ SameFills /\ intent[o].fills = 0 /\ UNCHANGED position
          /\ \A p \in Orders : p # o => intent'[p] = intent[p]
          /\ intent'[o].known = intent[o].known /\ intent'[o].state = "ZERO_FILL"
      BY <1>2, <1>8, MarkZeroFillEffect DEF EntryInv
    <2>2. venue[o].at = "dead"
      <3>1. venue[o].at \in {"matched", "dead"}
        BY <1>2, <1>8 DEF StillOpen
      <3>2. CASE venue[o].at = "matched"
        <4>1. venue[o].late /\ HasBought(o)
          BY <1>8, <3>2 DEF HandedOff, PromptInv, MatchedBought
        <4>2. intent[o].fills = venue[o].filled
          BY <1>1, <1>2, <4>1 DEF PromptInv, GraceIsEnough
        <4>. QED BY <2>1, <4>1, <4>2 DEF HasBought
      <3>. QED BY <3>1, <3>2
    <2>3. /\ run'.held = run.held /\ run'.todo \subseteq run.todo /\ o \notin run'.todo
          /\ run'.pending = run.pending
      BY <1>3, <1>8
    <2>4. WorkerKnows'
      BY <1>1, <1>4, <2>1 DEF PromptInv, WorkerKnows, SameFills
    <2>5. KnownOrders'
      BY <1>1, <1>2, <2>1, <2>3 DEF PromptInv, KnownOrders, KnownStates
    <2>6. GraceIsEnough'
      BY <1>1, <2>1, GraceKept DEF SameFills
    <2>. QED BY <1>1, <1>2, <2>1, <2>2, <2>3, <2>4, <2>5, <2>6, RelabelPrompt DEF Coroutines
  <1>9. CASE Fails
    <2>1. /\ run'.todo = {} /\ run'.pending = {} /\ run'.pc = "idle"
          /\ \A t \in Tokens : run'.held[t] = 0
      BY <1>9 DEF RunFails, IdleRun
    <2>2. GraceIsEnough'
      BY <1>1, <1>9, <2>1, GraceKept DEF rows
    <2>. QED BY <1>1, <1>9, <2>1, <2>2, RunOnlyPrompt DEF IsView
  <1>10. CASE Live
    <2>1. /\ intent'[o].state = "LIVE" /\ intent'[o].known = intent[o].known
          /\ intent'[o].side = intent[o].side /\ intent'[o].fills = intent[o].fills
          /\ \A p \in Orders : p # o => intent'[p] = intent[p]
      BY <1>10 DEF EntryInv, TypeOK, Intent
    <2>2. SameFills
      BY <1>2, <2>1 DEF SameFills, Tried
    <2>3. /\ run'.held = run.held /\ run'.todo \subseteq run.todo
          /\ run'.pending = run.pending
      BY <1>3, <1>10
    <2>4. WorkerKnows'
      BY <1>1, <1>4, <2>1, <2>2 DEF PromptInv, WorkerKnows, SameFills
    <2>5. KnownOrders'
      BY <1>1, <1>2, <2>1, <2>3 DEF PromptInv, KnownOrders, KnownStates
    <2>6. GraceIsEnough'
      BY <1>1, <2>1, <2>2, GraceKept DEF SameFills
    <2>7. intent'[o].state \in Unresolved /\ UNCHANGED <<position, world>>
      BY <1>1, <1>10, <2>1 DEF Unresolved
    <2>. QED BY <1>2, <2>1, <2>2, <2>3, <2>4, <2>5, <2>6, <2>7, RelabelPrompt DEF Coroutines
  <1>. QED BY <1>1, <1>6, <1>7, <1>8, <1>9, <1>10

\* a row takes the shares of its token from the positions
LEMMA RowPrompt ==
    ASSUME EntryInv, PromptInv, EntryInv', UNCHANGED <<intent, worker, world>>,
           NEW o \in Orders, HasBought(o),
           Occupied(EventOf(o)), ~position[EventOf(o)].sold \/ position'[EventOf(o)].sold,
           \A f \in Events : f # EventOf(o) => position'[f] = position[f],
           position'[EventOf(o)].state \in ActiveStates,
           position'[EventOf(o)].side = intent[o].side,
           position'[EventOf(o)].sellable = venue[o].filled,
           run.pc = "remote", run'.todo = run.todo, run'.pending = run.pending,
           \A t \in Tokens : run'.held[t] \in {0, run.held[t]}
    PROVE  PromptInv'
  <1> DEFINE e == EventOf(o)
  <1>1. UNCHANGED <<intent, worker, venue, owned, feed>> /\ e \in Events
    BY OrderFacts DEF world
  <1>2. /\ \A f \in Events : f # e => position'[f] = position[f]
        /\ position'[e].state \in {"OPEN", "DUST"} /\ position'[e].side = intent[o].side
        /\ position'[e].sellable = venue[o].filled
        /\ position[e].sold => position'[e].sold
    BY DEF ActiveStates
  <1>3. TokenOf(o) = <<e, intent[o].side>>
    BY DEF TokenOf
  <1>4. \A p \in Orders : /\ HasBought(p)' <=> HasBought(p)
                          /\ (Out(p)' <=> Out(p)) /\ TokenOf(p)' = TokenOf(p)
                          /\ Tried(p)' <=> Tried(p)
                          /\ IsUnresolved(p)' <=> IsUnresolved(p)
    BY <1>1 DEF HasBought, Out, TokenOf, Tried, IsUnresolved
  <1> HIDE DEF e
  <1>5. \A f \in Events : Occupied(f)' <=> Occupied(f)
    <2>1. Occupied(e)'
      BY <1>2 DEF Occupied, ActiveStates
    <2>2. \A f \in Events : f # e => (Occupied(f)' <=> Occupied(f))
      BY <1>2, <1>4 DEF Occupied
    <2>. QED BY <2>1, <2>2 DEF e
  <1>6. OneUsed' /\ WorkerKnows' /\ MatchedBought' /\ ZeroFillIsTrue'
    BY <1>1, <1>4
       DEF PromptInv, OneUsed, WorkerKnows, MatchedBought, ZeroFillIsTrue
  <1>7. KnownOrders'
    BY <1>1 DEF PromptInv, KnownOrders
  <1>8. GraceIsEnough'
    BY <1>1, GraceKept
  <1>9. Exposed' /\ OneOccupied'
    BY <1>1, <1>4, <1>5, TokenFacts, OrderFacts
       DEF PromptInv, Exposed, OneOccupied, EntryInv, TypeOK, Run
  <1>10. Viewed'
    <2>1. \A t \in Tokens : IsView(t, owned[t])' /\ IsView(t, feed[t])'
      BY <1>1, <1>4 DEF PromptInv, Viewed, IsView
    <2>2. \A t \in Tokens : IsView(t, run.held[t])'
      <3>1. \A t \in Tokens : run'.held[t] \in {0, run.held[t]}
        OBVIOUS
      <3>. QED BY <1>1, <1>4, <3>1 DEF PromptInv, Viewed, IsView
    <2>3. IsView(<<e, position[e].side>>, position[e].sellable)'
      BY <1>1, <1>2, <1>3, <1>4 DEF IsView
    <2>4. \A f \in Events : f # e => IsView(<<f, position[f].side>>, position[f].sellable)'
      BY <1>1, <1>2, <1>4 DEF PromptInv, Viewed, IsView
    <2>. QED BY <2>1, <2>2, <2>3, <2>4 DEF Viewed
  <1>11. RowsAreBought'
    <2>1. \A f \in Events : position'[f].state # "none" => \E p \in Orders :
              HasBought(p)' /\ TokenOf(p)' = <<f, position'[f].side>>
      <3>1. TokenOf(o)' = <<e, position'[e].side>> /\ HasBought(o)'
        BY <1>2, <1>3, <1>4
      <3>. QED BY <1>2, <1>4, <3>1 DEF PromptInv, RowsAreBought
    <2>2. \A f \in Events : position'[f].state = "none" => position'[f].sellable = 0
      BY <1>2 DEF PromptInv, RowsAreBought
    <2>3. \A f \in Events : position'[f].state = "CLOSED" =>
              position'[f].sold /\ position'[f].remaining = 0 /\ position'[f].sellable = 0
      BY <1>2 DEF PromptInv, RowsAreBought
    <2>4. \A p \in Orders : HasBought(p)' =>
              owned'[TokenOf(p)'] = venue'[p].filled \/ position'[EventOf(p)].sold
      BY <1>1, <1>2, <1>4, OrderFacts DEF PromptInv, RowsAreBought
    <2>. QED BY <2>1, <2>2, <2>3, <2>4 DEF RowsAreBought
  <1>. QED BY <1>6, <1>7, <1>8, <1>9, <1>10, <1>11 DEF PromptInv

LEMMA RemotePositionPrompt ==
    ASSUME EntryInv, PromptInv, EntryInv', NEW t \in Tokens, RemotePosition(t)
    PROVE  PromptInv'
  <1> DEFINE e == t[1]
             shares == run.held[t]
             next == run' = [run EXCEPT !.held[t] = 0]
             Fill == /\ ~HasPosition(t) /\ next
                     /\ \E o \in PendingFor(t) : OpenPosition(o, shares)
             Correct == /\ HasPosition(t) /\ ~AfterExit(t)
                        /\ position' = [position EXCEPT ![e] = Corrected(@, shares)]
                        /\ next /\ UNCHANGED <<event, intent>>
             Skips == next /\ UNCHANGED rows
             new == [state |-> "OPEN", side |-> t[2], acquired |-> shares,
                     remaining |-> shares, sellable |-> shares, sold |-> FALSE]
             Recover == /\ position[e].state = "none"
                        /\ position' = [position EXCEPT ![e] = new]
                        /\ next /\ UNCHANGED intent
             Fails == RunFails /\ UNCHANGED rows
  <1>1. /\ UNCHANGED <<worker, world, venue>> /\ run.pc = "remote" /\ shares > 0
        /\ Fill \/ Correct \/ Skips \/ Recover \/ Fails
    BY DEF RemotePosition, world
  <1>2. shares \in Nat /\ IsView(t, shares) /\ e \in Events /\ t = <<e, t[2]>>
        /\ position[e] \in Position /\ t[2] \in Sides
    BY OwnedFacts, TokenFacts DEF EntryInv, TypeOK
  <1>3. PICK o \in Orders : HasBought(o) /\ TokenOf(o) = t /\ EventOf(o) = e
                            /\ venue[o].filled = shares
    BY <1>1, <1>2, SharesAreBought
  <1>4. intent[o].side = t[2]
    BY <1>2, <1>3 DEF TokenOf
  <1>5. next => /\ run'.pc = run.pc /\ run'.todo = run.todo /\ run'.pending = run.pending
                /\ \A u \in Tokens : run'.held[u] \in {0, run.held[u]}
    BY HeldIsUsed
  <1>6. position[e].state = "none" => ~position[e].sold /\ Occupied(e)
    <2>1. position[e].state = "none" => ~position[e].sold
      BY <1>2 DEF EntryInv, Sided
    <2>. QED BY <1>3, <2>1, BoughtIsOwned
  <1>7. CASE Fill
    <2>1. PICK p \in PendingFor(t) : OpenPosition(p, shares)
      BY <1>7
    <2>2. p \in Orders /\ p \in run.pending /\ TokenOf(p) = t
      BY DEF PendingFor, EntryInv, TypeOK, Run
    <2>3. intent[p].known /\ HasBought(p)
      BY <2>2 DEF PromptInv, KnownOrders, MatchedBought
    <2>4. EventOf(p) = e
      BY <2>2, <2>3, UsedFacts
    <2>5. position[e].state = "none"
      BY <1>7, <2>2, <2>3, <2>4, RowSide
    <2>6. UNCHANGED world /\ worker' = worker
      BY <1>1
    <2>7. /\ run'.todo \subseteq run.todo /\ run'.pending \subseteq run.pending
          /\ \A u \in Tokens : run'.held[u] \in {0, run.held[u]}
      BY <1>5, <1>7
    <2> HIDE DEF shares, e
    <2>. QED BY <1>1, <1>2, <1>6, <2>1, <2>2, <2>3, <2>4, <2>5, <2>6, <2>7, OpeningPrompt
  <1>8. CASE Correct
    <2>1. position[e].side = t[2] /\ position[e].state # "none"
      BY <1>8 DEF HasPosition
    <2>2. position[e].state # "CLOSED"
      <3>1. ~(position[e].sold /\ shares > position[e].remaining)
        BY <1>8 DEF AfterExit
      <3>. QED BY <1>1, <1>2, <3>1 DEF PromptInv, RowsAreBought
    <2>3. position[e].state \in ActiveStates
      BY <1>2, <2>1, <2>2 DEF Position
    <2>4. Occupied(e)
      BY <2>3 DEF Occupied
    <2>5. /\ position'[e] = Corrected(position[e], shares)
          /\ \A f \in Events : f # e => position'[f] = position[f]
      BY <1>2, <1>8 DEF EntryInv, TypeOK
    <2>6. /\ position'[e].state \in ActiveStates
          /\ position'[e].side = t[2] /\ position'[e].sold = position[e].sold
          /\ position'[e].sellable = shares
      BY <1>2, <2>1, <2>3, <2>5, CorrectedEffect DEF ActiveStates
    <2>7. UNCHANGED <<intent, worker, world>>
      BY <1>1, <1>8
    <2> HIDE DEF shares, e
    <2>. QED BY <1>1, <1>3, <1>4, <1>5, <1>8, <2>4, <2>5, <2>6, <2>7, RowPrompt
  <1>9. CASE Skips
    <2>1. GraceIsEnough'
      BY <1>1, <1>9, GraceKept DEF rows
    <2>2. \A u \in Tokens : IsView(u, run'.held[u])
      BY <1>5, <1>9, OwnedFacts DEF IsView
    <2>3. \A p \in Orders :
              /\ p \in run'.todo => /\ intent[p].known /\ intent[p].state # "ZERO_FILL"
                                    /\ Occupied(EventOf(p))
              /\ p \in run'.pending => intent[p].known /\ venue[p].at = "matched"
      BY <1>5, <1>9 DEF PromptInv, KnownOrders, Exposed
    <2>. QED BY <1>1, <1>9, <2>1, <2>2, <2>3, RunOnlyPrompt
  <1>10. CASE Recover
    <2>1. /\ position'[e] = new
          /\ \A f \in Events : f # e => position'[f] = position[f]
      BY <1>2, <1>10 DEF EntryInv, TypeOK
    <2>2. /\ position'[e].state \in ActiveStates
          /\ position'[e].side = t[2] /\ position'[e].sellable = shares
      BY <2>1 DEF ActiveStates
    <2>3. UNCHANGED <<intent, worker, world>>
      BY <1>1, <1>10
    <2> HIDE DEF shares, e, new
    <2>. QED BY <1>1, <1>3, <1>4, <1>5, <1>6, <1>10, <2>1, <2>2, <2>3, RowPrompt
  <1>11. CASE Fails
    <2>1. /\ run'.todo = {} /\ run'.pending = {} /\ run'.pc = "idle"
          /\ \A u \in Tokens : run'.held[u] = 0
      BY <1>11 DEF RunFails, IdleRun
    <2>2. GraceIsEnough'
      BY <1>1, <1>11, <2>1, GraceKept DEF rows
    <2>. QED BY <1>1, <1>11, <2>1, <2>2, RunOnlyPrompt DEF IsView
  <1>. QED BY <1>1, <1>7, <1>8, <1>9, <1>10, <1>11

\* a sale is of all the shares there are
LEMMA SellOutEffect ==
    ASSUME EntryInv, PromptInv, NEW e \in Events, SellOut(e)
    PROVE  /\ \A u \in Tokens : owned'[u] = 0
           /\ position'[e].state = "CLOSED" /\ position'[e].sold
           /\ position'[e].remaining = 0 /\ position'[e].sellable = 0
           /\ position'[e].side = position[e].side
           /\ \A f \in Events : f # e => position'[f] = position[f]
           /\ \A o \in run.todo : EventOf(o) # e
           /\ UNCHANGED <<intent, worker, run, venue, feed>>
  <1> DEFINE t == <<e, position[e].side>>
             shares == position[e].sellable
             new == [position[e] EXCEPT !.state = "CLOSED", !.remaining = 0,
                                        !.sellable = 0, !.sold = TRUE]
  <1>1. /\ position[e].state = "OPEN" /\ shares > 0 /\ shares <= owned[t]
        /\ owned' = [owned EXCEPT ![t] = @ - shares]
        /\ position' = [position EXCEPT ![e] = new]
        /\ UNCHANGED <<intent, worker, run, venue, feed>>
        /\ \A o \in run.todo : EventOf(o) # e
    BY DEF SellOut
  <1>2. position[e] \in Position /\ t \in Tokens /\ owned \in [Tokens -> Nat]
        /\ position[e].side \in Sides /\ t[1] = e
    BY <1>1 DEF EntryInv, TypeOK, Sided, Tokens
  <1>3. new.state = "CLOSED" /\ new.sold /\ new.side = position[e].side
        /\ new.remaining = 0 /\ new.sellable = 0
    BY <1>2 DEF Position
  <1>4. /\ position'[e] = new /\ \A f \in Events : f # e => position'[f] = position[f]
    BY <1>1 DEF EntryInv, TypeOK
  <1>5. shares \in Nat /\ owned[t] \in Nat
    BY <1>2 DEF Position
  <1>6. IsView(t, shares)
    BY DEF PromptInv, Viewed
  <1> HIDE DEF t, new, shares
  <1>7. shares = owned[t]
    <2>1. PICK o \in Orders : HasBought(o) /\ EventOf(o) = e /\ venue[o].filled = shares
      BY <1>1, <1>2, <1>5, <1>6, SharesAreBought
    <2>2. PICK p \in Orders : HasBought(p) /\ EventOf(p) = e /\ venue[p].filled = owned[t]
      BY <1>1, <1>2, <1>5, OwnedFacts, SharesAreBought
    <2>. QED BY <2>1, <2>2, OnePurchase
  <1>8. Occupied(e)
    BY <1>1 DEF Occupied, ActiveStates
  <1>9. ASSUME NEW u \in Tokens
        PROVE  owned'[u] = 0
    <2>1. CASE u = t
      BY <1>1, <1>2, <1>5, <1>7, <2>1
    <2>2. CASE u # t
      <3>1. owned'[u] = owned[u] /\ owned[u] \in Nat /\ IsView(u, owned[u])
        BY <1>1, <1>2, <2>2, OwnedFacts
      <3>2. CASE owned[u] > 0
        <4>1. u[1] = e
          BY <1>8, <3>2, TokenFacts DEF PromptInv, Exposed, OneOccupied
        <4>2. PICK o \in Orders : HasBought(o) /\ EventOf(o) = e /\ TokenOf(o) = u
          BY <3>1, <3>2, <4>1, SharesAreBought
        <4>3. PICK p \in Orders : HasBought(p) /\ EventOf(p) = e /\ TokenOf(p) = t
          BY <1>1, <1>2, <1>5, <1>6, SharesAreBought
        <4>. QED BY <2>2, <4>2, <4>3, OnePurchase
      <3>. QED BY <3>1, <3>2
    <2>. QED BY <2>1, <2>2
  <1>. QED BY <1>1, <1>3, <1>4, <1>9

LEMMA SellOutPrompt ==
    ASSUME EntryInv, PromptInv, EntryInv', NEW e \in Events, SellOut(e)
    PROVE  PromptInv'
  <1>1. /\ \A u \in Tokens : owned'[u] = 0
        /\ position'[e].state = "CLOSED" /\ position'[e].sold
        /\ position'[e].remaining = 0 /\ position'[e].sellable = 0
        /\ position'[e].side = position[e].side
        /\ \A f \in Events : f # e => position'[f] = position[f]
        /\ \A o \in run.todo : EventOf(o) # e
        /\ UNCHANGED <<intent, worker, run, venue, feed>>
    BY SellOutEffect
  <1>2. \A p \in Orders : /\ HasBought(p)' <=> HasBought(p)
                          /\ (Out(p)' <=> Out(p)) /\ TokenOf(p)' = TokenOf(p)
                          /\ Tried(p)' <=> Tried(p)
                          /\ IsUnresolved(p)' <=> IsUnresolved(p)
    BY <1>1 DEF HasBought, Out, TokenOf, Tried, IsUnresolved
  <1>3. \A f \in Events : /\ Occupied(f)' => Occupied(f)
                          /\ f # e => (Occupied(f)' <=> Occupied(f))
    BY <1>1, <1>2 DEF Occupied, ActiveStates
  <1>4. OneUsed' /\ WorkerKnows' /\ MatchedBought' /\ ZeroFillIsTrue' /\ KnownOrders'
    BY <1>1, <1>2
       DEF PromptInv, OneUsed, WorkerKnows, MatchedBought, ZeroFillIsTrue, KnownOrders
  <1>5. GraceIsEnough'
    BY <1>1, GraceKept
  <1>6. Exposed'
    <2>1. \A o \in run'.todo : Occupied(EventOf(o))'
      BY <1>1, <1>3, OrderFacts DEF PromptInv, Exposed, EntryInv, TypeOK, Run
    <2>. QED BY <1>1, <1>2, <2>1 DEF PromptInv, Exposed
  <1>7. OneOccupied'
    BY <1>3 DEF PromptInv, OneOccupied
  <1>8. Viewed'
    BY <1>1, <1>2 DEF PromptInv, Viewed, IsView
  <1>9. RowsAreBought'
    <2>1. \A f \in Events : position'[f].state # "none" => \E p \in Orders :
              HasBought(p)' /\ TokenOf(p)' = <<f, position'[f].side>>
      <3>1. position[e].state # "none"
        BY DEF SellOut
      <3>. QED BY <1>1, <1>2, <3>1 DEF PromptInv, RowsAreBought
    <2>2. \A f \in Events :
              /\ position'[f].state = "none" => position'[f].sellable = 0
              /\ position'[f].state = "CLOSED" =>
                    position'[f].sold /\ position'[f].remaining = 0 /\ position'[f].sellable = 0
      BY <1>1 DEF PromptInv, RowsAreBought
    <2>3. ASSUME NEW p \in Orders, HasBought(p)
          PROVE  position'[EventOf(p)].sold
      <3>1. CASE EventOf(p) = e
        BY <1>1, <3>1
      <3>2. CASE EventOf(p) # e
        <4>1. position[EventOf(p)].sold
          <5>1. CASE ~position[EventOf(p)].sold
            <6>1. Occupied(EventOf(p)) /\ EventOf(p) \in Events
              BY <2>3, <5>1, BoughtIsOwned, OrderFacts
            <6>2. Occupied(e)
              BY DEF SellOut, Occupied, ActiveStates
            <6>. QED BY <3>2, <6>1, <6>2 DEF PromptInv, OneOccupied
          <5>. QED BY <5>1
        <4>. QED BY <1>1, <3>2, <4>1, OrderFacts
      <3>. QED BY <3>1, <3>2
    <2>. QED BY <1>2, <2>1, <2>2, <2>3 DEF RowsAreBought
  <1>. QED BY <1>4, <1>5, <1>6, <1>7, <1>8, <1>9 DEF PromptInv

\* an order goes on at the venue, without a fill
LEMMA OrderGoesOnPrompt ==
    ASSUME EntryInv, PromptInv, EntryInv', UNCHANGED <<rows, worker, run, owned, feed>>,
           NEW o \in Orders, Tried(o),
           \A p \in Orders : p # o => venue'[p] = venue[p],
           venue'[o].filled = venue[o].filled, venue[o].at # "none",
           \/ venue'[o].at = venue[o].at
           \/ Out(o) /\ venue'[o].at \in {"open", "dead"} /\ ~venue'[o].late,
           venue'[o].late =>
               /\ venue'[o].at \in {"matched", "dead"} /\ venue'[o].shown = venue'[o].filled
               /\ venue[o].late \/ /\ ~WorkerAt("posted", o)
                                   /\ intent[o].known => \/ run.pc \in {"idle", "orders"}
                                                         \/ intent[o].fills = venue[o].filled
    PROVE  PromptInv'
  <1>1. UNCHANGED <<intent, position, worker, run, owned, feed>>
    BY DEF rows
  <1>2. \A p \in Orders : /\ HasBought(p)' <=> HasBought(p)
                          /\ venue'[p].filled = venue[p].filled
                          /\ Out(p)' => Out(p)
                          /\ TokenOf(p)' = TokenOf(p) /\ (Tried(p)' <=> Tried(p))
                          /\ IsUnresolved(p)' <=> IsUnresolved(p)
                          /\ venue'[p].at = "none" => venue[p].at = "none"
                          /\ venue[p].at = "none" => venue'[p].at = "none"
                          /\ venue[p].at = "matched" <=> venue'[p].at = "matched"
    BY <1>1 DEF HasBought, Out, TokenOf, Tried, IsUnresolved
  <1>3. \A e \in Events : Occupied(e)' <=> Occupied(e)
    BY <1>1, <1>2 DEF Occupied
  <1>4. OneUsed' /\ OneOccupied' /\ MatchedBought' /\ ZeroFillIsTrue'
    BY <1>1, <1>2, <1>3
       DEF PromptInv, OneUsed, OneOccupied, MatchedBought, ZeroFillIsTrue
  <1>5. WorkerKnows'
    <2>1. worker.pc # "idle" => worker.order \in Orders
      BY DEF EntryInv, Sided
    <2>. QED BY <1>1, <1>2, <2>1 DEF PromptInv, WorkerKnows
  <1>6. KnownOrders'
    BY <1>1, <1>2 DEF PromptInv, KnownOrders, Out
  <1>7. GraceIsEnough'
    BY <1>1, <1>2 DEF PromptInv, GraceIsEnough, WorkerAt
  <1>8. Exposed'
    BY <1>1, <1>2, <1>3, TokenFacts, OrderFacts
       DEF PromptInv, Exposed, EntryInv, TypeOK, Run
  <1>9. Viewed' /\ RowsAreBought'
    BY <1>1, <1>2 DEF PromptInv, Viewed, IsView, RowsAreBought
  <1>. QED BY <1>4, <1>5, <1>6, <1>7, <1>8, <1>9 DEF PromptInv

LEMMA VenuePrompt ==
    ASSUME PromptVenue, EntryInv, PromptInv, EntryInv', NEW o \in Orders,
           Opens(o) \/ Dies(o) \/ ShowTrade(o) \/ GraceEnds(o)
    PROVE  PromptInv'
  <1>1. venue \in [Orders -> VenueOrder]
    BY DEF EntryInv, TypeOK
  <1>2. UNCHANGED <<rows, worker, run, owned, feed>>
        /\ \A p \in Orders : p # o => venue'[p] = venue[p]
    BY <1>1 DEF Opens, Dies, ShowTrade, GraceEnds
  <1>3. CASE Opens(o) \/ Dies(o)
    <2>1. /\ Out(o) /\ venue'[o].at \in {"open", "dead"}
          /\ venue'[o].filled = venue[o].filled /\ venue'[o].late = venue[o].late
      BY <1>1, <1>3 DEF Opens, Dies, Out, VenueOrder
    <2>2. ~venue[o].late
      BY <2>1 DEF PromptInv, GraceIsEnough, Out
    <2>3. venue[o].at # "none" /\ Tried(o)
      BY <2>1 DEF Out, EntryInv, Sided
    <2>. QED BY <1>2, <2>1, <2>2, <2>3, OrderGoesOnPrompt
  <1>4. CASE ShowTrade(o)
    <2>1. /\ venue'[o].at = venue[o].at /\ venue'[o].filled = venue[o].filled
          /\ venue'[o].late = venue[o].late /\ venue[o].shown # venue[o].filled
      BY <1>1, <1>4 DEF ShowTrade, VenueOrder
    <2>2. ~venue[o].late
      BY <2>1 DEF PromptInv, GraceIsEnough
    <2>3. venue[o].at # "none" /\ Tried(o)
      <3>1. venue[o].filled \in Nat /\ venue[o].shown \in Nat
        BY <1>1, CountTypes
      <3>2. venue[o].filled > 0
        BY <2>1, <3>1 DEF EntryInv, Counted
      <3>. QED BY <3>2 DEF EntryInv, Counted, Sided
    <2>. QED BY <1>2, <2>1, <2>2, <2>3, OrderGoesOnPrompt
  <1>5. CASE GraceEnds(o)
    <2>1. /\ venue'[o].at = venue[o].at /\ venue'[o].filled = venue[o].filled
          /\ venue'[o].shown = venue[o].shown /\ venue[o].at # "none" /\ Settled(o)
      BY <1>1, <1>5 DEF GraceEnds, VenueOrder
    <2>2. Tried(o)
      BY <2>1 DEF EntryInv, Sided
    <2>. QED BY <1>2, <2>1, <2>2, OrderGoesOnPrompt DEF Settled
  <1>. QED BY <1>3, <1>4, <1>5

LEMMA FillsPrompt ==
    ASSUME EntryInv, PromptInv, EntryInv', NEW o \in Orders, Fills(o)
    PROVE  PromptInv'
  <1>1. PICK shares \in 1..Lot :
              /\ venue[o].at \in {"sent", "open"} /\ venue'[o].at = "matched"
              /\ venue[o].filled = 0 /\ venue'[o].filled = shares
              /\ venue'[o].late = venue[o].late
              /\ \A p \in Orders : p # o => venue'[p] = venue[p]
              /\ TokenOf(o) \in Tokens
              /\ owned'[TokenOf(o)] = owned[TokenOf(o)] + shares
              /\ \A u \in Tokens : u # TokenOf(o) => owned'[u] = owned[u]
              /\ UNCHANGED <<intent, position, worker, run, feed>>
    BY FillsEffect
  <1>2. /\ Out(o) /\ IsUnresolved(o) /\ Used(o) /\ Occupied(EventOf(o)) /\ Tried(o)
        /\ \A t \in Tokens : owned[t] = 0
        /\ \A p \in Orders : HasBought(p) => EventOf(p) # EventOf(o)
        /\ ~HasBought(o)
    BY <1>1, UsedFacts, OutAlone DEF Out
  <1>3. shares \in Nat /\ shares > 0 /\ owned'[TokenOf(o)] = shares
    BY <1>1, <1>2
  <1>4. \A p \in Orders : /\ TokenOf(p)' = TokenOf(p) /\ (Tried(p)' <=> Tried(p))
                          /\ IsUnresolved(p)' <=> IsUnresolved(p)
                          /\ HasBought(p)' <=> p = o \/ HasBought(p)
                          /\ p # o => (Out(p)' <=> Out(p))
    BY <1>1, <1>3 DEF TokenOf, Tried, IsUnresolved, HasBought, Out
  <1>5. ~Out(o)'
    BY <1>1 DEF Out
  <1>6. \A e \in Events : Occupied(e)' <=> Occupied(e)
    BY <1>1, <1>4 DEF Occupied
  <1>7. OneUsed' /\ OneOccupied' /\ MatchedBought'
    BY <1>1, <1>4, <1>6 DEF PromptInv, OneUsed, OneOccupied, MatchedBought
  <1>8. ZeroFillIsTrue'
    <2>1. intent[o].state \notin {"ZERO_FILL", "REJECTED"}
      BY <1>2 DEF IsUnresolved, Unresolved
    <2>. QED BY <1>1, <1>4, <2>1 DEF PromptInv, ZeroFillIsTrue
  <1>9. WorkerKnows'
    <2>1. worker.pc # "idle" => worker.order \in Orders
      BY DEF EntryInv, Sided
    <2>. QED BY <1>1, <1>4, <2>1 DEF PromptInv, WorkerKnows
  <1>10. KnownOrders'
    BY <1>1 DEF PromptInv, KnownOrders
  <1>11. GraceIsEnough'
    <2>1. ~venue[o].late
      BY <1>1 DEF PromptInv, GraceIsEnough
    <2>. QED BY <1>1, <2>1 DEF PromptInv, GraceIsEnough, WorkerAt
  <1>12. Exposed'
    <2>1. \A t \in Tokens : owned'[t] > 0 => t = TokenOf(o)
      BY <1>1, <1>2
    <2>2. TokenOf(o)[1] = EventOf(o)
      BY <1>2, UsedFacts
    <2>. QED BY <1>1, <1>2, <1>4, <1>5, <1>6, <2>1, <2>2, OrderFacts
         DEF PromptInv, Exposed, EntryInv, TypeOK, Run
  <1>13. Viewed'
    <2>1. \A p \in Orders : HasBought(p) => venue'[p] = venue[p] /\ HasBought(p)'
      BY <1>1, <1>2, <1>4
    <2>2. \A t \in Tokens : IsView(t, feed[t])' /\ IsView(t, run.held[t])'
      BY <1>1, <1>4, <2>1 DEF PromptInv, Viewed, IsView
    <2>3. \A e \in Events : IsView(<<e, position[e].side>>, position[e].sellable)'
      BY <1>1, <1>4, <2>1 DEF PromptInv, Viewed, IsView
    <2>4. \A t \in Tokens : IsView(t, owned[t])'
      BY <1>1, <1>2, <1>3, <1>4 DEF IsView
    <2>. QED BY <2>2, <2>3, <2>4 DEF Viewed
  <1>14. RowsAreBought'
    <2>1. \A e \in Events : position'[e].state # "none" => \E p \in Orders :
              HasBought(p)' /\ TokenOf(p)' = <<e, position'[e].side>>
      BY <1>1, <1>4 DEF PromptInv, RowsAreBought
    <2>2. ASSUME NEW p \in Orders, HasBought(p)'
          PROVE  owned'[TokenOf(p)'] = venue'[p].filled \/ position'[EventOf(p)].sold
      <3>1. CASE p = o
        BY <1>1, <1>3, <1>4, <3>1
      <3>2. CASE p # o
        <4>1. HasBought(p) /\ venue'[p] = venue[p] /\ EventOf(p) # EventOf(o)
          BY <1>1, <1>2, <1>4, <2>2, <3>2
        <4>2. TokenOf(p) # TokenOf(o) /\ TokenOf(p) \in Tokens
          BY <1>2, <4>1, UsedFacts
        <4>. QED BY <1>1, <1>4, <4>1, <4>2 DEF PromptInv, RowsAreBought
      <3>. QED BY <3>1, <3>2
    <2>. QED BY <1>1, <2>1, <2>2 DEF PromptInv, RowsAreBought
  <1>. QED BY <1>7, <1>8, <1>9, <1>10, <1>11, <1>12, <1>13, <1>14 DEF PromptInv

LEMMA ShowPositionPrompt ==
    ASSUME PromptVenue, EntryInv, PromptInv, EntryInv', NEW t \in Tokens, ShowPosition(t)
    PROVE  PromptInv'
  <1>1. UNCHANGED <<event, intent, position, worker, run, venue, owned>>
    BY DEF ShowPosition, rows
  <1>2. feed'[t] = owned[t] /\ \A u \in Tokens : u # t => feed'[u] = feed[u]
    BY DEF ShowPosition, Shown, EntryInv, TypeOK
  <1>3. Viewed'
    <2>1. \A u \in Tokens : feed'[u] \in {owned[u], feed[u]}
      BY <1>2
    <2>. QED BY <1>1, <2>1 DEF PromptInv, Viewed, IsView, HasBought, TokenOf
  <1>4. OneUsed' /\ WorkerKnows' /\ KnownOrders' /\ GraceIsEnough' /\ MatchedBought'
    BY <1>1 DEF PromptInv, OneUsed, WorkerKnows, KnownOrders, GraceIsEnough, MatchedBought,
                Tried, HasBought, WorkerAt
  <1>5. ZeroFillIsTrue' /\ Exposed' /\ OneOccupied' /\ RowsAreBought'
    BY <1>1 DEF PromptInv, ZeroFillIsTrue, Exposed, OneOccupied, RowsAreBought,
                Out, Occupied, IsUnresolved, HasBought, TokenOf
  <1>. QED BY <1>3, <1>4, <1>5 DEF PromptInv

LEMMA InitHoldsPromptInv ==
    ASSUME Init
    PROVE  PromptInv
  <1>1. /\ worker.pc = "idle" /\ run.todo = {} /\ run.pending = {}
        /\ \A t \in Tokens : run.held[t] = 0
        /\ \A o \in Orders : /\ intent[o].state = "none" /\ ~intent[o].known
                             /\ venue[o].at = "none" /\ venue[o].filled = 0
                             /\ ~venue[o].late
        /\ \A e \in Events : position[e].state = "none" /\ position[e].sellable = 0
        /\ \A t \in Tokens : feed[t] = 0 /\ owned[t] = 0
    BY DEF Init, IdleWorker, IdleRun, NoIntent, NoOrder, NoPosition
  <1>2. /\ \A o \in Orders : ~Tried(o) /\ ~Out(o) /\ ~HasBought(o) /\ ~IsUnresolved(o)
        /\ \A e \in Events : ~Occupied(e)
    BY <1>1 DEF Tried, Out, HasBought, IsUnresolved, Unresolved, Occupied, ActiveStates
  <1>3. OneUsed /\ WorkerKnows /\ KnownOrders /\ GraceIsEnough /\ MatchedBought
    BY <1>1, <1>2 DEF OneUsed, WorkerKnows, KnownOrders, GraceIsEnough, MatchedBought
  <1>4. ZeroFillIsTrue /\ Exposed /\ OneOccupied /\ Viewed /\ RowsAreBought
    BY <1>1, <1>2 DEF ZeroFillIsTrue, Exposed, OneOccupied, Viewed, IsView, RowsAreBought
  <1>. QED BY <1>3, <1>4 DEF PromptInv

LEMMA NextKeepsPromptInv ==
    ASSUME PromptVenue, EntryInv, PromptInv, EntryInv', [Next]_vars
    PROVE  PromptInv'
  <1>1. CASE \E e \in Events : Skip(e)
    <2>1. UNCHANGED <<intent, position, worker, run, venue, owned, feed>>
      BY <1>1 DEF Skip, world
    <2>. QED BY <2>1
         DEF PromptInv, OneUsed, WorkerKnows, KnownOrders, GraceIsEnough, MatchedBought,
             ZeroFillIsTrue, Exposed, OneOccupied, Viewed, RowsAreBought, IsView,
             Tried, Out, Occupied, IsUnresolved, HasBought, TokenOf, WorkerAt
  <1>2. CASE \E o \in Orders : (\E side \in Sides : Reserve(o, side)) \/ WorkerStep(o)
    BY <1>2, ReservePrompt, WorkerStepPrompt
  <1>3. CASE RunStep
    BY <1>3, RunReadsPrompt, ReadPositionsPrompt, ResolvePrompt, RemotePositionPrompt
       DEF RunStep
  <1>4. CASE (\E e \in Events : SellOut(e)) \/ Crash
    BY <1>4, SellOutPrompt, CrashPrompt
  <1>5. CASE \E o \in Orders : VenueStep(o)
    BY <1>5, VenuePrompt, FillsPrompt DEF VenueStep
  <1>6. CASE \E t \in Tokens : ShowPosition(t)
    BY <1>6, ShowPositionPrompt
  <1>7. CASE UNCHANGED vars
    <2>1. UNCHANGED <<intent, position, worker, run, venue, owned, feed>>
      BY <1>7 DEF vars
    <2>. QED BY <2>1
         DEF PromptInv, OneUsed, WorkerKnows, KnownOrders, GraceIsEnough, MatchedBought,
             ZeroFillIsTrue, Exposed, OneOccupied, Viewed, RowsAreBought, IsView,
             Tried, Out, Occupied, IsUnresolved, HasBought, TokenOf, WorkerAt
  <1>. QED BY <1>1, <1>2, <1>3, <1>4, <1>5, <1>6, <1>7 DEF Next

\* The inductive invariant of the slot.
THEOREM PromptInvariant ==
    ASSUME PromptVenue
    PROVE  Spec => []PromptInv
  <1>1. EntryInv /\ PromptInv /\ EntryInv' /\ [Next]_vars => PromptInv'
    BY NextKeepsPromptInv
  <1>2. Init => PromptInv
    BY InitHoldsPromptInv
  <1>. QED BY <1>1, <1>2, EntryInvariant, PTL DEF Spec

\* What mark_zero_fill and a rejection record is so: the order never bought and
\* never will, when the venue's views keep up with its grace.
THEOREM ZeroFillsAreTrue ==
    ASSUME PromptVenue
    PROVE  Spec => []ZeroFillIsTrue
  <1>1. PromptInv => ZeroFillIsTrue
    BY DEF PromptInv
  <1>. QED BY <1>1, PromptInvariant, PTL

LEMMA ExposureIsOccupied ==
    ASSUME EntryInv, PromptInv
    PROVE  ExposureHoldsSlot
  <1>1. \A e \in Events : Occupied(e) => ~SlotEmpty
    BY DEF Occupied, SlotEmpty
  <1>2. ASSUME NEW o \in Orders, Out(o) PROVE ~SlotEmpty
    BY <1>1, <1>2, UsedFacts, OrderFacts
  <1>3. ASSUME NEW t \in Tokens, owned[t] > 0 PROVE ~SlotEmpty
    BY <1>1, <1>3, TokenFacts DEF PromptInv, Exposed
  <1>. QED BY <1>2, <1>3 DEF ExposureHoldsSlot, OutNow, Held

\* While an order may fill or shares are held, reserve_event_entry finds the slot
\* taken, also after a crash between the post and its record.
THEOREM ExposureKeepsSlot ==
    ASSUME PromptVenue
    PROVE  Spec => []ExposureHoldsSlot
  <1>1. EntryInv /\ PromptInv => ExposureHoldsSlot
    BY ExposureIsOccupied
  <1>. QED BY <1>1, EntryInvariant, PromptInvariant, PTL

-----------------------------------------------------------------------------
(* The slot is implemented *)

\* without shares no event holds any
LEMMA HeldNone ==
    ASSUME \A t \in Tokens : owned[t] = 0
    PROVE  Held = {}
  BY DEF Held

LEMMA PostPlaces ==
    ASSUME EntryInv, PromptInv, NEW o \in Orders, Post(o)
    PROVE  Slot!Place(o)
  <1>1. /\ WorkerAt("signing", o) /\ venue' = [venue EXCEPT ![o].at = "sent"]
        /\ UNCHANGED <<intent, owned>>
    BY DEF Post, rows
  <1>2. Used(o) /\ Occupied(EventOf(o)) /\ venue[o].at = "none" /\ EventOf(o) \in Events
    BY <1>1, InHand, OrderFacts
  <1>3. ~HasBought(o) /\ ~Out(o)
    BY <1>2, UsedFacts DEF Out
  <1>4. OutNow = {}
    <2>1. ASSUME NEW p \in Orders, Out(p) PROVE FALSE
      <3>1. Used(p) /\ Occupied(EventOf(p)) /\ EventOf(p) \in Events
        BY <2>1, UsedFacts, OrderFacts
      <3>. QED BY <1>2, <1>3, <2>1, <3>1, OnlyUsed DEF PromptInv, OneOccupied
    <2>. QED BY <2>1 DEF OutNow
  <1>5. ASSUME NEW t \in Tokens PROVE owned[t] = 0
    <2>1. owned[t] \in Nat /\ t[1] \in Events
      BY OwnedFacts, TokenFacts
    <2>2. CASE owned[t] > 0
      <3>1. t[1] = EventOf(o)
        BY <1>2, <2>1, <2>2 DEF PromptInv, Exposed, OneOccupied
      <3>. QED BY <1>2, <1>3, <3>1, NothingElseBought
    <2>. QED BY <2>1, <2>2
  <1>6. \A p \in Bought : p[1] # o[1]
    BY <1>2, <1>3, UsedFacts, OnlyUsed DEF Bought, HasBought, EventOf
  <1>7. /\ venue'[o].at = "sent" /\ venue'[o].filled = venue[o].filled
        /\ \A p \in Orders : p # o => venue'[p] = venue[p]
    BY <1>1 DEF EntryInv, TypeOK, VenueOrder
  <1>8. OutNow' = {o}
    BY <1>4, <1>7 DEF OutNow, Out
  <1>9. Bought' = Bought /\ Held' = Held
    BY <1>1, <1>7 DEF Bought, Held
  <1>. QED BY <1>4, <1>5, <1>6, <1>8, <1>9, HeldNone DEF Slot!Place

LEMMA FillBuys ==
    ASSUME EntryInv, PromptInv, NEW o \in Orders, Fills(o)
    PROVE  Slot!Buy(o)
  <1>1. PICK shares \in 1..Lot :
              /\ venue[o].at \in {"sent", "open"} /\ venue'[o].at = "matched"
              /\ venue'[o].filled = shares
              /\ \A p \in Orders : p # o => venue'[p] = venue[p]
              /\ TokenOf(o) \in Tokens
              /\ owned'[TokenOf(o)] = owned[TokenOf(o)] + shares
              /\ \A u \in Tokens : u # TokenOf(o) => owned'[u] = owned[u]
    BY FillsEffect
  <1>2. Out(o)
    BY <1>1 DEF Out
  <1>3. /\ \A p \in Orders : Out(p) => p = o
        /\ \A t \in Tokens : owned[t] = 0
    BY <1>2, OutAlone
  <1>4. shares \in Nat /\ shares > 0 /\ owned'[TokenOf(o)] = shares
    BY <1>1, <1>3
  <1>5. o \in OutNow
    BY <1>2 DEF OutNow
  <1>6. OutNow' = {}
    BY <1>1, <1>3 DEF OutNow, Out
  <1>7. Bought' = Bought \cup {o}
    BY <1>1, <1>4 DEF Bought
  <1>8. Held' = {o[1]}
    <2>1. \A u \in Tokens : owned'[u] > 0 <=> u = TokenOf(o)
      BY <1>1, <1>3, <1>4
    <2>2. TokenOf(o)[1] = o[1]
      BY DEF TokenOf, EventOf
    <2>. QED BY <1>1, <2>1, <2>2 DEF Held
  <1>. QED BY <1>5, <1>6, <1>7, <1>8 DEF Slot!Buy

LEMMA DeathLapses ==
    ASSUME EntryInv, PromptInv, NEW o \in Orders, Dies(o)
    PROVE  Slot!Lapse(o)
  <1>1. /\ venue[o].at \in {"sent", "open"} /\ venue'[o].at = "dead"
        /\ venue'[o].filled = venue[o].filled
        /\ \A p \in Orders : p # o => venue'[p] = venue[p]
        /\ UNCHANGED owned
    BY DEF Dies, EntryInv, TypeOK, VenueOrder
  <1>2. Out(o)
    BY <1>1 DEF Out
  <1>3. o \in OutNow /\ OutNow' = {}
    BY <1>1, <1>2, OutAlone DEF OutNow, Out
  <1>4. Bought' = Bought /\ Held' = Held
    BY <1>1 DEF Bought, Held
  <1>. QED BY <1>3, <1>4 DEF Slot!Lapse

\* a step that changes no order's hold on the venue, and no shares
LEMMA SlotStutters ==
    ASSUME UNCHANGED owned,
           \A p \in Orders : (Out(p)' <=> Out(p)) /\ venue'[p].filled = venue[p].filled
    PROVE  UNCHANGED Slot!slotVars
  BY DEF Slot!slotVars, OutNow, Bought, Held

LEMMA NextRefinesSlot ==
    ASSUME PromptVenue, EntryInv, PromptInv, [Next]_vars
    PROVE  [Slot!SlotNext]_(Slot!slotVars)
  <1>1. CASE UNCHANGED <<venue, owned>>
    BY <1>1, SlotStutters DEF Out
  <1>2. CASE \E o \in Orders : Post(o)
    BY <1>2, PostPlaces DEF Slot!SlotNext
  <1>3. CASE \E o \in Orders : Fills(o)
    BY <1>3, FillBuys DEF Slot!SlotNext
  <1>4. CASE \E o \in Orders : Dies(o)
    BY <1>4, DeathLapses DEF Slot!SlotNext
  <1>5. CASE \E o \in Orders : Opens(o) \/ ShowTrade(o) \/ GraceEnds(o)
    <2>1. PICK o \in Orders : Opens(o) \/ ShowTrade(o) \/ GraceEnds(o)
      BY <1>5
    <2>2. /\ Out(o)' <=> Out(o)
          /\ venue'[o].filled = venue[o].filled
          /\ \A p \in Orders : p # o => venue'[p] = venue[p]
          /\ UNCHANGED owned
      BY <2>1 DEF Opens, ShowTrade, GraceEnds, Out, EntryInv, TypeOK, VenueOrder
    <2>. QED BY <2>2, SlotStutters DEF Out
  <1>6. CASE \E e \in Events : SellOut(e)
    <2>1. UNCHANGED venue /\ \A t \in Tokens : owned'[t] = 0
      BY <1>6, SellOutEffect
    <2>2. Held' = {} /\ OutNow' = OutNow /\ Bought' = Bought
      BY <2>1 DEF Held, OutNow, Out, Bought
    <2>. QED BY <2>2 DEF Slot!SlotNext, Slot!Sell
  <1>. QED BY <1>1, <1>2, <1>3, <1>4, <1>5, <1>6
       DEF Next, vars, world, Skip, Reserve, WorkerStep, Abort, Refuse, Submit, NotSubmitted,
           NotFilled, Accepted, Unknown, Publish, RunStep, ReadOpenOrders, ReadTrades,
           ReadPositions, ListUnresolved, Resolve, Undecided, RemotePositions,
           RemotePosition, EndRun, RunRaises, Crash, VenueStep, ShowPosition

\* One entry order at a time may buy, none is sent while shares are held and no
\* event is bought twice: the reservation, the worker, the run and the sales
\* together implement EntrySlot, step by step.
THEOREM SlotIsImplemented ==
    ASSUME PromptVenue
    PROVE  Spec => RefinesSlot
  <1>1. Init => Slot!SlotInit
    BY HeldNone DEF Init, Slot!SlotInit, OutNow, Out, Bought, NoOrder
  <1>2. EntryInv /\ PromptInv /\ [Next]_vars => [Slot!SlotNext]_(Slot!slotVars)
    BY NextRefinesSlot
  <1>. QED BY <1>1, <1>2, EntryInvariant, PromptInvariant, PTL
       DEF Spec, RefinesSlot, Slot!SlotSpec
=============================================================================
