------------------------------ MODULE DemoDeals ------------------------------
(***************************************************************************)
(* The collector's demo trading (app.py): the event loop asks for the      *)
(* events around the present one by one and stores their rows, the book    *)
(* loop samples the active market and runs the rules on the sample, and    *)
(* the API threads write the rules.  Event e ends as the e-th; a price is  *)
(* what it is to the rules, whose entry, stop and target are the same.     *)
(***************************************************************************)
EXTENDS Integers, FiniteSets, Sequences, SequencesExt

CONSTANTS
    Events,       \* number of five-minute events
    Rules,        \* the rules, by id
    Windowed,     \* the rules with an entry window
    Ahead,        \* candidates after the current event
    Quota,        \* max_yes_entries_per_event = max_no_entries_per_event
    MaxDeals,     \* bound on the deals
    MaxEdits,     \* bound on the writes of the API
    Punctual      \* the winner of an event is stored before the next one is over

DemoAssumption ==
    /\ Events \in Nat \ {0} /\ Rules \subseteq Nat /\ IsFiniteSet(Rules) /\ Windowed \subseteq Rules
    /\ Ahead \in Nat /\ Quota \in Nat /\ MaxDeals \in Nat /\ MaxEdits \in Nat
    /\ Punctual \in BOOLEAN

VARIABLES
    now,          \* events 1..now are over
    exchange,     \* event -> what the exchange says of it
    events,       \* event -> the stored row
    rules,        \* rule -> stored, active, the event it waits for the end of
    creating,     \* the rule being created, and the active event it read
    deals,        \* the deals, by id
    active,       \* active_market
    scan,         \* the event loop: the candidates, the reply, the first open one
    book,         \* the event whose books are being fetched, or 0
    answered,     \* the last event's winner is stored, and none of its books is out
    edits

demoVars == <<now, exchange, events, rules, creating, deals, active, scan, book,
              answered, edits>>

Ids == 1..Events
Sides == {"yes", "no"}
Lasts == 2 + Ahead      \* the candidates: the last event, the current one, and Ahead
Idle == [on |-> FALSE, base |-> 0, at |-> 0, reply |-> "none", found |-> 0]
NoRule == [rule |-> 0, gate |-> 0]

Init ==
    /\ now = 0 /\ exchange = [e \in Ids |-> "future"] /\ events = [e \in Ids |-> "none"]
    /\ rules \in [Rules -> {[stored |-> on, on |-> on, gate |-> 0] : on \in BOOLEAN}]
    /\ creating = NoRule /\ deals = <<>> /\ active = 0 /\ scan = Idle /\ book = 0
    /\ answered = TRUE /\ edits = 0

Over(e) == e <= now
Open(i) == deals[i].end = "open"

-----------------------------------------------------------------------------
(* Time and the exchange.  An event lasts for many scans: it is not over    *)
(* before a scan has stored the winner of the one before.                   *)

Tick ==
    /\ now < Events /\ exchange[now + 1] = "open" /\ (Punctual => answered)
    /\ now' = now + 1 /\ answered' = FALSE
    /\ UNCHANGED <<exchange, events, rules, creating, deals, active, scan, book, edits>>
Opens ==
    /\ \E e \in Ids : /\ exchange[e] = "future" /\ e <= now + 1 + Ahead
                      /\ \A d \in 1..e - 1 : exchange[d] # "future"
                      /\ exchange' = [exchange EXCEPT ![e] = "open"]
    /\ UNCHANGED <<now, events, rules, creating, deals, active, scan, book, answered, edits>>
Closes ==
    /\ \E e \in Ids : /\ exchange[e] = "open" /\ Over(e)
                      /\ \E w \in Sides : exchange' = [exchange EXCEPT ![e] = w]
    /\ UNCHANGED <<now, events, rules, creating, deals, active, scan, book, answered, edits>>

-----------------------------------------------------------------------------
(* event_collector_loop: discover_open_market, then the active market *)

\* candidate_slugs is taken once, at the start of the scan
\* mutation: the event that has just ended is not asked for any more
CandidateFrom(base, at) == base + at + 1
\* candidate_slugs
Candidate(base, at) == base + at
ScanStarts ==
    /\ ~scan.on /\ scan' = [Idle EXCEPT !.on = TRUE, !.base = now]
    /\ UNCHANGED <<now, exchange, events, rules, creating, deals, active, book, answered, edits>>

Asked == Candidate(scan.base, scan.at)
ScanAsks ==
    /\ scan.on /\ scan.at < Lasts /\ scan.reply = "none"
    /\ Asked \in Ids /\ exchange[Asked] # "future"
    /\ scan' = [scan EXCEPT !.reply = exchange[Asked]]
    /\ UNCHANGED <<now, exchange, events, rules, creating, deals, active, book, answered, edits>>
\* not found, no answer, or an answer that cannot be read
ScanSkips ==
    /\ scan.on /\ scan.at < Lasts /\ scan.reply = "none" /\ scan' = [scan EXCEPT !.at = @ + 1]
    /\ UNCHANGED <<now, exchange, events, rules, creating, deals, active, book, answered, edits>>

\* close_deal, of a deal that is still open
Closed(i, end) == IF Open(i) THEN [deals[i] EXCEPT !.end = end] ELSE deals[i]
\* close_deals_for_event_resolution, with resolve_market_result
Settled(e, row) ==
    IF row \in Sides
    THEN [i \in DOMAIN deals |-> IF deals[i].event = e THEN Closed(i, row) ELSE deals[i]]
    ELSE deals
\* is_market_open: the end of the event is compared with the time of the reply
IsMarketOpen(reply, e) == reply = "open" /\ ~Over(e)
\* extract_market
RowOf(reply, e) ==
    IF reply \in Sides THEN reply ELSE IF IsMarketOpen(reply, e) THEN "open" ELSE "ended"
\* upsert_event
Upsert(e, row) == events' = [events EXCEPT ![e] = row] /\ deals' = Settled(e, row)
ScanStores ==
    /\ scan.reply # "none"
    /\ LET e == Asked  row == RowOf(scan.reply, e)
       IN /\ Upsert(e, row)
          /\ scan' = [scan EXCEPT !.at = @ + 1, !.reply = "none",
                                  !.found = IF row = "open" /\ @ = 0 THEN e ELSE @]
          /\ answered' = (answered \/ (row \in Sides /\ e = now /\ book \notin 1..now))
    /\ UNCHANGED <<now, exchange, rules, creating, active, book, edits>>

ScanEnds ==
    /\ scan.on /\ scan.at = Lasts /\ scan' = Idle
    /\ active' = IF scan.found # 0 THEN scan.found
                 ELSE IF Over(active) THEN 0 ELSE active
    /\ UNCHANGED <<now, exchange, events, rules, creating, deals, book, answered, edits>>

-----------------------------------------------------------------------------
(* orderbook_collector_loop: the active market is copied, both its books    *)
(* are awaited, and the sample is stored with all the rules make of it      *)

BookStarts ==
    /\ book = 0 /\ active # 0
    /\ IF Over(active) THEN active' = 0 /\ UNCHANGED book
       ELSE book' = active /\ UNCHANGED active
    /\ UNCHANGED <<now, exchange, events, rules, creating, deals, scan, answered, edits>>

HasOpenDeal(ds, r) == \E i \in DOMAIN ds : ds[i].rule = r /\ ds[i].end = "open"
CountEntries(ds, r, e, side) ==
    Len(SelectSeq(ds, LAMBDA d : d.rule = r /\ d.event = e /\ d.side = side))

\* process_demo_exits: every open deal, whatever event it was opened in
Exited(bid) ==
    [i \in DOMAIN deals |->
        IF ~Open(i) \/ bid[deals[i].side] = "between" THEN deals[i]
        ELSE Closed(i, IF bid[deals[i].side] = "low" THEN "stop" ELSE "target")]
\* can_rule_open_new_deal, and entry_window_allows_rule of the event's end
Allowed(r, ds) ==
    /\ rules[r].stored /\ rules[r].on /\ ~HasOpenDeal(ds, r)
    /\ r \in Windowed => ~Over(book)
\* process_demo_entries: the rules that open a deal on this sample
Enters(r, ds, asks) ==
    /\ Allowed(r, ds) /\ rules[r].gate # book
    /\ \A i \in DOMAIN deals : deals[i].rule = r => deals[i].end = ds[i].end
    /\ Cardinality(asks) = 1
    /\ \A side \in asks : CountEntries(ds, r, book, side) < Quota
Opened(r, side) == [rule |-> r, event |-> book, side |-> side, end |-> "open"]

OpenSides == {deals[i].side : i \in {j \in DOMAIN deals : Open(j)}}
\* insert_orderbook_log.  bid: of the sides the exits look at; asks: the sides whose ask is the entry price;
\* scheduled: the rules no inactive window matches at either check
BookStores ==
    /\ book # 0 /\ book' = 0
    /\ \E bid \in [OpenSides -> {"low", "between", "high"}], asks \in SUBSET Sides :
       \E scheduled \in SUBSET {r \in Rules : rules[r].on} :
           LET ds == Exited(bid)
               entering == {r \in scheduled : Enters(r, ds, asks)}
           IN /\ Len(deals) + Cardinality(entering) <= MaxDeals
              /\ \E order \in SetToSeqs(entering) :
                     /\ \A i, j \in DOMAIN order : i < j => order[i] < order[j]
                     /\ deals' = ds \o [i \in DOMAIN order |->
                                           Opened(order[i], CHOOSE side \in asks : TRUE)]
    /\ UNCHANGED <<now, exchange, events, rules, creating, active, scan, answered, edits>>

-----------------------------------------------------------------------------
(* The rules: create_rule, deactivate_rule, update_rule, in API threads *)

CreateReads ==
    /\ creating = NoRule /\ edits < MaxEdits /\ edits' = edits + 1
    /\ \E r \in Rules : ~rules[r].stored /\ creating' = [rule |-> r, gate |-> active]
    /\ UNCHANGED <<now, exchange, events, rules, deals, active, scan, book, answered>>
CreateStores ==
    /\ creating # NoRule /\ creating' = NoRule
    /\ \E on \in BOOLEAN :
           rules' = [rules EXCEPT ![creating.rule] =
                        [stored |-> TRUE, on |-> on, gate |-> IF on THEN creating.gate ELSE 0]]
    /\ UNCHANGED <<now, exchange, events, deals, active, scan, book, answered, edits>>
Deactivate ==
    /\ edits < MaxEdits /\ edits' = edits + 1
    /\ \E r \in Rules : rules[r].on /\ rules' = [rules EXCEPT ![r].on = FALSE]
    /\ UNCHANGED <<now, exchange, events, creating, deals, active, scan, book, answered>>
Update ==
    /\ edits < MaxEdits /\ edits' = edits + 1
    /\ \E r \in Rules, on \in BOOLEAN :
           rules[r].stored /\ rules' = [rules EXCEPT ![r].on = on]
    /\ UNCHANGED <<now, exchange, events, creating, deals, active, scan, book, answered>>

Next ==
    \/ Tick \/ Opens \/ Closes
    \/ ScanStarts \/ ScanAsks \/ ScanSkips \/ ScanStores \/ ScanEnds
    \/ BookStarts \/ BookStores
    \/ CreateReads \/ CreateStores \/ Deactivate \/ Update

AsksForWinner == ScanAsks /\ Over(Asked) /\ exchange[Asked] \in Sides

(* Both loops go round, time passes, the exchange opens and closes its      *)
(* events, and it answers some of the questions about each event.           *)
Fairness ==
    /\ WF_demoVars(Tick) /\ WF_demoVars(Opens) /\ WF_demoVars(Closes)
    /\ WF_demoVars(ScanStarts) /\ WF_demoVars(ScanSkips) /\ WF_demoVars(ScanStores)
    /\ WF_demoVars(ScanEnds) /\ WF_demoVars(BookStores)
    /\ SF_demoVars(AsksForWinner)
Spec == Init /\ [][Next]_demoVars /\ Fairness

-----------------------------------------------------------------------------
(* Properties *)

TypeOK ==
    /\ now \in 0..Events /\ exchange \in [Ids -> Sides \cup {"future", "open"}]
    /\ events \in [Ids -> Sides \cup {"none", "open", "ended"}]
    /\ rules \in [Rules -> [stored : BOOLEAN, on : BOOLEAN, gate : 0..Events]]
    /\ creating \in [rule : Rules \cup {0}, gate : 0..Events]
    /\ deals \in Seq([rule : Rules, event : Ids, side : Sides,
                      end : Sides \cup {"open", "stop", "target"}]) /\ Len(deals) <= MaxDeals
    /\ active \in 0..Events /\ book \in 0..Events /\ answered \in BOOLEAN
    /\ scan \in [on : BOOLEAN, base : 0..Events, at : 0..Lasts,
                 reply : Sides \cup {"none", "open"}, found : 0..Events]
    /\ edits \in 0..MaxEdits

(* A deal does not stay open for good when the exchange answers while the   *)
(* event is still a candidate: also one a sample opened after the scan that *)
(* settled its event, or after its event was over.                          *)
DealsEnd == \A i \in 1..MaxDeals : []<>~(i \in DOMAIN deals /\ Open(i))
=============================================================================
