------------------------------ MODULE DemoEngine -----------------------------
(***************************************************************************)
(* demo_v2: the public market WebSocket publishes ordered observations to  *)
(* the decision stream, generation by generation; one consumer hands them  *)
(* to the engine, which closes positions and opens new ones at the entry   *)
(* price of a rule; the demand loop, the database probe and a reset act    *)
(* between two steps of the others.  One market instance, its two tokens,  *)
(* and one rule.                                                           *)
(***************************************************************************)
EXTENDS Integers, Sequences

CONSTANTS
    Tokens,       \* the tokens of the market, "up" and "down"
    Frequency,    \* entry_frequency of the rule, shared by both tokens
    Capacity,     \* capacity of the decision queue
    MaxFrames,    \* bound on the frames of a connection
    MaxTrouble    \* bound on lost frames and connections, late or failed decisions,
                  \* resets, edits of the rule, ends of its window and failed samples
                  \* of its health, together

EngineAssumption ==
    /\ Tokens # {}
    /\ Frequency \in Nat \ {0} /\ Capacity \in Nat \ {0}
    /\ MaxFrames \in Nat /\ MaxTrouble \in Nat

VARIABLES
    durable,      \* the generation in demo_v2_meta
    ws,           \* the socket: status, generation, sequence, frames received
    at,           \* token -> the exchange's ask is at the entry price
    arrivals,     \* token -> arrivals at it since the generation's first book
    gaps,         \* ends of eligibility in this generation: of the window, of health
    stream,       \* DecisionStream: generation, sequence, valid, queue
    consumer,     \* the queue it waits on, by generation, or Awake
    engine,       \* DemoEngine: generation, sequence, valid
    memory,       \* demo_v2_entry_runtime: token -> generation, at the price, eligible
    count,        \* demo_v2_entry_counts
    entered,      \* token -> entries in the engine's generation
    held,         \* token -> open positions
    rule,         \* enabled, in its window
    stable,       \* StabilityGate
    engineOk,     \* engine_ok
    subscribed,   \* token_map is not empty
    resetting, resolved, faults, edits

engineVars == <<durable, ws, at, arrivals, gaps, stream, consumer, engine, memory, count,
                entered, held, rule, stable, engineOk, subscribed, resetting, resolved,
                faults, edits>>
market == <<at, arrivals, gaps>>
book == <<memory, count, entered, held>>

Awake == -1
Zero == [t \in Tokens |-> 0]
Nothing == [gen |-> 0, seq |-> 0, token |-> CHOOSE t \in Tokens : TRUE, price |-> "other",
            old |-> FALSE]
Forgotten == [t \in Tokens |-> [gen |-> 0, at |-> FALSE, eligible |-> FALSE]]

Init ==
    /\ durable = 0 /\ ws = [status |-> "down", gen |-> 0, seq |-> 0, frames |-> 0]
    /\ at = [t \in Tokens |-> FALSE] /\ arrivals = Zero /\ gaps = 0
    /\ stream = [gen |-> 0, last |-> 0, valid |-> FALSE, queue |-> <<>>]
    /\ consumer = Awake /\ engine = [gen |-> 0, last |-> 0, valid |-> FALSE]
    /\ memory = Forgotten /\ count = 0 /\ entered = Zero /\ held = Zero
    /\ rule = [enabled |-> TRUE, window |-> TRUE] /\ stable = FALSE
    /\ engineOk = TRUE /\ subscribed = FALSE /\ resetting = FALSE /\ resolved = FALSE
    /\ faults = 0 /\ edits = 0

Trouble == faults + edits < MaxTrouble
Fault == Trouble /\ faults' = faults + 1
Edit == Trouble /\ edits' = edits + 1

\* invalidate retires the queue: what is in it is discarded, its waiter is woken
Invalidated == [stream EXCEPT !.valid = FALSE, !.queue = <<Nothing>>]
\* ws.close(): the receiver ends with an exception of its own
Closed == IF ws.status = "up" THEN [ws EXCEPT !.status = "closing"] ELSE ws

-----------------------------------------------------------------------------
(* PublicMarketWS *)

\* run, begin_generation; the new queue is another one
Connect ==
    /\ ws.status = "down" /\ subscribed
    /\ durable' = durable + 1
    /\ ws' = [status |-> "up", gen |-> durable + 1, seq |-> 0, frames |-> 0]
    /\ stream' = [gen |-> durable + 1, last |-> 0, valid |-> TRUE, queue |-> <<>>]
    /\ at' = [t \in Tokens |-> FALSE] /\ arrivals' = Zero /\ gaps' = 0 /\ stable' = FALSE
    /\ UNCHANGED <<consumer, engine, book, rule, engineOk, subscribed, resetting, resolved,
                   faults, edits>>

\* process_message, publish; a frame the book rejects publishes nothing
Frame ==
    /\ ws.status = "up" /\ stream.valid /\ ws.frames < MaxFrames
    /\ \E t \in Tokens, price \in {"entry", "exit", "other"}, lost \in BOOLEAN :
        /\ at' = [at EXCEPT ![t] = price = "entry"]
        /\ arrivals' = [arrivals EXCEPT ![t] = IF price = "entry" /\ ~at[t] THEN @ + 1 ELSE @]
        /\ IF lost
           THEN Fault /\ ws' = [ws EXCEPT !.frames = @ + 1] /\ UNCHANGED stream
           ELSE /\ Len(stream.queue) < Capacity /\ UNCHANGED faults
                /\ ws' = [ws EXCEPT !.frames = @ + 1, !.seq = @ + 1]
                /\ stream' = [stream EXCEPT !.last = ws.seq + 1,
                                 !.queue = Append(@, [gen |-> ws.gen, seq |-> ws.seq + 1,
                                     token |-> t, price |-> price, old |-> FALSE])]
    /\ UNCHANGED <<durable, gaps, consumer, engine, book, rule, stable, engineOk, subscribed,
                   resetting, resolved, edits>>

\* the receiver raises: the socket is closed, a frame finds the stream invalid,
\* full or too old, a book is stale, or the connection is lost
Drop ==
    /\ ws.status # "down"
    /\ IF ws.status = "closing" \/ ~stream.valid THEN UNCHANGED faults ELSE Fault
    /\ ws' = [ws EXCEPT !.status = "down"] /\ stream' = Invalidated
    /\ UNCHANGED <<durable, market, consumer, engine, book, rule, stable, engineOk, subscribed,
                   resetting, resolved, edits>>

Ages ==
    /\ \E i \in DOMAIN stream.queue : ~stream.queue[i].old /\ stream.queue[i] # Nothing
    /\ Fault
    /\ stream' = [stream EXCEPT !.queue =
                     [i \in DOMAIN @ |-> IF @[i] = Nothing THEN Nothing
                                         ELSE [@[i] EXCEPT !.old = TRUE]]]
    /\ UNCHANGED <<durable, ws, market, consumer, engine, book, rule, stable, engineOk,
                   subscribed, resetting, resolved, edits>>

-----------------------------------------------------------------------------
(* DemoEngine.process, in one transaction *)

Eligible == rule.enabled /\ rule.window /\ stable
\* mutation: an entry leaves the rule's memory of the token as it was
RememberedIfIdle(o, entry, old) ==
    IF entry THEN old ELSE [old EXCEPT ![o.token] = [gen |-> o.gen, at |-> o.price = "entry", eligible |-> Eligible]]
\* save_runtime, of an enabled rule
Remembered(o, entry, old) ==
    [old EXCEPT ![o.token] = [gen |-> o.gen, at |-> o.price = "entry", eligible |-> Eligible]]

Unchanged(o, old) == old[o.token].gen = o.gen /\ old[o.token].eligible /\ old[o.token].at
Entry(o) == Eligible /\ o.price = "entry" /\ ~Unchanged(o, memory) /\ count < Frequency

\* the entries of the generation the observation belongs to
EnteredIn(gen) == IF gen = engine.gen THEN entered ELSE Zero
\* exits first, whatever the rule is now
Decide(o) ==
    LET entry == Entry(o)
        kept == IF o.price = "exit" THEN [held EXCEPT ![o.token] = 0] ELSE held
        before == EnteredIn(o.gen)
    IN IF resolved THEN entered' = before /\ UNCHANGED <<memory, count, held>>
       ELSE /\ held' = IF entry THEN [kept EXCEPT ![o.token] = @ + 1] ELSE kept
            /\ count' = IF entry THEN count + 1 ELSE count
            /\ entered' = IF entry THEN [before EXCEPT ![o.token] = @ + 1] ELSE before
            /\ memory' = IF rule.enabled THEN Remembered(o, entry, memory) ELSE memory

-----------------------------------------------------------------------------
(* DemoRuntime.consume *)

\* next_observation waits on the queue there is
Waits ==
    /\ consumer = Awake /\ stream.valid /\ stream.queue = <<>> /\ consumer' = stream.gen
    /\ UNCHANGED <<durable, ws, market, stream, engine, book, rule, stable, engineOk,
                   subscribed, resetting, resolved, faults, edits>>

\* mutation: a retired queue wakes nobody
WokenByItems == stream.queue # <<>> /\ consumer \in {Awake, stream.gen}
\* the waiter of a retired queue finds Nothing in it
Woken == stream.queue # <<>> \/ (consumer # Awake /\ consumer # stream.gen)
\* next_observation raises
Rejected ==
    \/ ~stream.valid \/ (consumer # Awake /\ consumer # stream.gen)
    \/ stream.queue # <<>> /\ Head(stream.queue).old
Rejects ==
    /\ Woken /\ Rejected /\ consumer' = Awake
    /\ stream' = IF stream.valid /\ consumer \in {Awake, stream.gen} THEN Invalidated ELSE stream
    /\ engine' = [engine EXCEPT !.valid = FALSE] /\ stable' = FALSE
    /\ UNCHANGED <<durable, ws, market, book, rule, engineOk, subscribed, resetting, resolved,
                   faults, edits>>

\* begin_generation, of the engine
Begun(o) == IF o.gen = engine.gen THEN engine ELSE [gen |-> o.gen, last |-> 0, valid |-> TRUE]
Fits(o) == Begun(o).valid /\ o.seq = Begun(o).last + 1 /\ durable = o.gen

Takes ==
    /\ Woken /\ ~Rejected /\ consumer' = Awake
    /\ LET o == Head(stream.queue)
       IN \/ /\ Fits(o)                                       \* a decision
             /\ engine' = [Begun(o) EXCEPT !.last = o.seq]
             /\ stable' = (stable /\ o.gen = engine.gen) /\ engineOk' = TRUE
             /\ stream' = [stream EXCEPT !.queue = Tail(@)]
             /\ Decide(o)
             /\ UNCHANGED <<ws, faults>>
          \/ /\ IF Fits(o) THEN Fault ELSE UNCHANGED faults   \* refused, or aged meanwhile
             /\ engine' = [Begun(o) EXCEPT !.valid = FALSE] /\ stable' = FALSE
             /\ stream' = Invalidated /\ ws' = Closed
             /\ entered' = EnteredIn(o.gen) /\ UNCHANGED <<engineOk, memory, count, held>>
          \/ /\ Fault                                         \* a failure in the engine
             /\ engine' = [Begun(o) EXCEPT !.valid = FALSE] /\ stable' = FALSE
             /\ engineOk' = FALSE
             /\ stream' = Invalidated /\ ws' = Closed
             /\ entered' = EnteredIn(o.gen) /\ UNCHANGED <<memory, count, held>>
    /\ UNCHANGED <<durable, market, rule, subscribed, resetting, resolved, edits>>

-----------------------------------------------------------------------------
(* The other tasks *)

\* demand_once: subscription_demand, set_subscriptions
Wanted ==
    \/ rule.enabled /\ rule.window /\ engineOk /\ count < Frequency /\ ~resolved
    \/ \E t \in Tokens : held[t] > 0
Demand ==
    /\ subscribed # Wanted /\ subscribed' = Wanted
    /\ IF ws.status = "up" THEN stream' = Invalidated /\ ws' = Closed
       ELSE UNCHANGED <<stream, ws>>
    /\ UNCHANGED <<durable, market, consumer, engine, book, rule, stable, engineOk, resetting,
                   resolved, faults, edits>>
\* entry_gate, two seconds after the first of its healthy samples ...
Stabilises ==
    /\ ~stable /\ stream.valid /\ ws.status = "up" /\ engineOk
    /\ engine.valid /\ engine.gen = ws.gen /\ stable' = TRUE
    /\ UNCHANGED <<durable, ws, market, stream, consumer, engine, book, rule, engineOk,
                   subscribed, resetting, resolved, faults, edits>>

\* ... and the first failed one: a book that waits for its snapshot, a discovery
\* that is late; the demand loop samples although no observation comes
Lapses ==
    /\ stable /\ stable' = FALSE /\ Edit /\ gaps' = gaps + 1
    /\ UNCHANGED <<durable, ws, at, arrivals, stream, consumer, engine, book, rule, engineOk,
                   subscribed, resetting, resolved, faults>>

\* database_once
ProbeRecovers == TRUE
Probe ==
    /\ ~engineOk /\ engineOk' = ProbeRecovers
    /\ UNCHANGED <<durable, ws, market, stream, consumer, engine, book, rule, stable,
                   subscribed, resetting, resolved, faults, edits>>

\* DemoRuntime.reset up to the closing of the socket, and after it
ResetBegins ==
    /\ ~resetting /\ resetting' = TRUE /\ Edit
    /\ stream' = Invalidated /\ engine' = [engine EXCEPT !.valid = FALSE] /\ stable' = FALSE
    /\ durable' = durable + 1
    /\ memory' = Forgotten /\ count' = 0 /\ entered' = Zero /\ held' = Zero
    /\ ws' = Closed
    /\ UNCHANGED <<market, consumer, rule, engineOk, subscribed, resolved, faults>>
ResetEnds ==
    /\ resetting /\ resetting' = FALSE /\ subscribed' = FALSE
    /\ IF subscribed /\ ws.status = "up" THEN stream' = Invalidated /\ ws' = Closed
       ELSE UNCHANGED <<stream, ws>>
    /\ UNCHANGED <<durable, market, consumer, engine, book, rule, stable, engineOk, resolved,
                   faults, edits>>

\* update_rule: enabled or disabled; the window of the rule begins or ends
EditRule ==
    /\ Edit /\ rule' = [rule EXCEPT !.enabled = ~@]
    /\ UNCHANGED <<durable, ws, market, stream, consumer, engine, book, stable, engineOk,
                   subscribed, resetting, resolved, faults>>
Window ==
    /\ rule' = [rule EXCEPT !.window = ~@]
    /\ IF rule.window THEN Edit /\ gaps' = gaps + 1 ELSE UNCHANGED <<edits, gaps>>
    /\ UNCHANGED <<durable, ws, at, arrivals, stream, consumer, engine, book, stable, engineOk,
                   subscribed, resetting, resolved, faults>>
\* resolution_once, of an instance with open positions
Resolve ==
    /\ ~resolved /\ \E t \in Tokens : held[t] > 0
    /\ resolved' = TRUE /\ held' = Zero
    /\ UNCHANGED <<durable, ws, market, stream, consumer, engine, memory, count, entered, rule,
                   stable, engineOk, subscribed, resetting, faults, edits>>

Next ==
    \/ Connect \/ Frame \/ Drop \/ Ages \/ Waits \/ Rejects \/ Takes
    \/ Demand \/ Stabilises \/ Lapses \/ Probe \/ ResetBegins \/ ResetEnds
    \/ EditRule \/ Window \/ Resolve

DropsWhatIsOver == Drop /\ (ws.status = "closing" \/ ~stream.valid)

(* Every task is scheduled, the exchange sends, and a reset runs to its end *)
Fairness ==
    /\ WF_engineVars(Connect) /\ WF_engineVars(Frame)
    /\ WF_engineVars(DropsWhatIsOver)
    /\ WF_engineVars(Waits) /\ WF_engineVars(Rejects) /\ WF_engineVars(Takes)
    /\ WF_engineVars(Demand) /\ WF_engineVars(Probe) /\ WF_engineVars(ResetEnds)
Spec == Init /\ [][Next]_engineVars /\ Fairness

-----------------------------------------------------------------------------
(* Properties *)

Observations == [gen : Nat, seq : 0..MaxFrames, token : Tokens,
                 price : {"entry", "exit", "other"}, old : BOOLEAN]
TypeOK ==
    /\ durable \in Nat /\ consumer \in Nat \cup {Awake}
    /\ ws \in [status : {"up", "closing", "down"}, gen : 0..durable,
               seq : 0..MaxFrames, frames : 0..MaxFrames]
    /\ at \in [Tokens -> BOOLEAN] /\ arrivals \in [Tokens -> 0..MaxFrames] /\ gaps \in 0..MaxTrouble
    /\ stream \in [gen : 0..durable, last : 0..MaxFrames, valid : BOOLEAN, queue : Seq(Observations)]
    /\ Len(stream.queue) <= Capacity /\ engine \in [gen : 0..durable, last : 0..MaxFrames, valid : BOOLEAN]
    /\ memory \in [Tokens -> [gen : 0..durable, at : BOOLEAN, eligible : BOOLEAN]]
    /\ count \in 0..Frequency /\ entered \in [Tokens -> 0..Frequency]
    /\ held \in [Tokens -> 0..Frequency]
    /\ rule \in [enabled : BOOLEAN, window : BOOLEAN]
    /\ {stable, engineOk, subscribed, resetting, resolved} \subseteq BOOLEAN
    /\ faults + edits \in 0..MaxTrouble

(* Within a generation a token is entered no more often than its ask has    *)
(* arrived at the entry price and the rule has stopped to be eligible,      *)
(* together: `an eligibility gap rearms', an end of the window or a failed  *)
(* sample of health, and as long as there is none an unchanged price is not *)
(* entered twice, whatever was lost, edited or reset in between.            *)
OneEntryPerArrival ==
    engine.gen = ws.gen => \A t \in Tokens : entered[t] <= arrivals[t] + gaps

(* After the last fault and reset, whatever woke the consumer when, the     *)
(* engine follows the newest generation again for as long as it is wanted.  *)
Following ==
    /\ ws.status = "up" /\ stream.valid /\ stream.gen = ws.gen
    /\ engine.valid /\ engine.gen = ws.gen /\ engine.last > 0
Unwanted == ~Wanted /\ engineOk
DecisionsComeBack == []<>(Following \/ Unwanted)
=============================================================================
