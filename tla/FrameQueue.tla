----------------------------- MODULE FrameQueue ------------------------------
(***************************************************************************)
(* The frames between the market stream and the strategy, and the paths    *)
(* that latch a stop (live/strategy_runtime.py): schedule_frame finds the  *)
(* edges and queues them, _frame_worker takes one frame after another, and *)
(* the exit supervisor looks at the current book on its own.  A top is     *)
(* "low" (bid at or below stop_price), "hit" (ask at entry_price) or "mid".*)
(***************************************************************************)
EXTENDS Integers, Sequences, FiniteSets, SequencesExt

CONSTANTS
    Conditions,
    Tokens,
    ConditionOf,    \* the condition of each token
    Held,           \* the token of the position
    CriticalCap,    \* critical_frame_max_depth
    PendingCap,     \* frame_queue_capacity
    MaxFrames,      \* bound on the frames of a behaviour
    LatchFails      \* latch_stop_exit may raise

FrameQueueAssumption ==
    /\ ConditionOf \in [Tokens -> Conditions] /\ Held \in Tokens
    /\ {CriticalCap, PendingCap, MaxFrames} \subseteq Nat /\ PendingCap > 0
    /\ LatchFails \in BOOLEAN

VARIABLES
    book,       \* the current top of each token
    ready,      \* event readiness of each condition
    seen,       \* _critical_price_state and _critical_observed_price_state
    critical,   \* _critical_frames
    pending,    \* _pending_frames, oldest first
    position,   \* the row: open, stop_stage; and the copy of it in RAM
    dipped,     \* the tokens of Held's market with a stop edge, from the last one of Held
                \* on that was found for a position the strategy knew
    frames      \* frames so far

frameVars == <<book, ready, seen, critical, pending, position, dipped, frames>>

Tops == {"low", "hit", "mid"}
NoTop == "none"
Edge(top) == IF top = "low" THEN "STOP_066" ELSE "ENTRY_074"

Init ==
    /\ book = [t \in Tokens |-> "mid"] /\ ready = [c \in Conditions |-> TRUE]
    /\ seen = [r \in BOOLEAN |-> [t \in Tokens |-> NoTop]]
    /\ critical = <<>> /\ pending = <<>> /\ frames = 0 /\ dipped = {}
    /\ position = [open |-> FALSE, stage |-> 0, known |-> FALSE, known_stage |-> 0]

-----------------------------------------------------------------------------
(* schedule_frame *)

\* the tops of one frame in the order they were passed through; NOT_READY
\* edges are found against the tops observed, READY ones against those that
\* were acted on
Before(tops, i, r) ==
    LET earlier == {j \in 1..(i - 1) : tops[j].token = tops[i].token}
    IN IF earlier = {} THEN seen[r][tops[i].token]
       ELSE tops[CHOOSE j \in earlier : \A k \in earlier : k <= j].top

Latched(tops, i, r) ==
    /\ tops[i].top \in {"low", "hit"} /\ tops[i].top # Before(tops, i, r)
    /\ ~(/\ tops[i].top = "low" /\ tops[i].token = Held
         /\ position.known /\ position.known_stage >= 1)

Final(tops, i) == \A j \in (i + 1)..Len(tops) : tops[j].token # tops[i].token

SeenAfter(tops, r) ==
    [s \in BOOLEAN |-> [t \in Tokens |->
        LET mine == {j \in 1..Len(tops) : tops[j].token = t}
        IN IF mine = {} \/ (s /\ ~r) THEN seen[s][t]
           ELSE tops[CHOOSE j \in mine : \A k \in mine : k <= j].top]]

\* _enforce_critical_queue_cap: a frame with a stop edge is never evicted
EnforceCap(queue) ==
    LET victims == {i \in 1..Len(queue) : "STOP_066" \notin queue[i].types}
    IN IF Len(queue) <= CriticalCap \/ victims = {} THEN queue
       ELSE RemoveAt(queue, CHOOSE i \in victims : \A j \in victims : i <= j)

\* mutation: an edge replaces the one of any trigger type
SameKeyOfAnyType(frame) ==
    {i \in 1..Len(critical) : /\ critical[i].condition = frame.condition
                              /\ critical[i].ready = frame.ready}

\* _coalesce_key: it does not name the token
SameKey(frame) ==
    {i \in 1..Len(critical) : /\ critical[i].condition = frame.condition
                              /\ critical[i].types = frame.types /\ critical[i].ready = frame.ready}

\* the first frame of the same key that still waits is replaced in its place
Superseded(frame) == CHOOSE i \in SameKey(frame) : \A j \in SameKey(frame) : i <= j
Queued(frame) ==
    IF SameKey(frame) = {} THEN EnforceCap(Append(critical, frame))
    ELSE [critical EXCEPT ![Superseded(frame)] = frame]

\* mutation: the frames of every condition wait
ConflatedUnbounded(frame) ==
    Append(SelectSeq(pending, LAMBDA f : f.condition # frame.condition), frame)
\* ordinary frames: the latest of each condition, the oldest goes when full
Conflated(frame) ==
    LET old == {i \in 1..Len(pending) : pending[i].condition = frame.condition}
        room == IF old # {} THEN RemoveAt(pending, CHOOSE i \in old : TRUE)
                ELSE IF Len(pending) >= PendingCap THEN Tail(pending) ELSE pending
    IN Append(room, frame)

\* _manage_position: a latched edge stops also when the book was not ready
Stops(frame) ==
    /\ position.known
    /\ \E u \in frame.updates : u.token = Held /\ u.top = "low" /\ (frame.ready \/ u.latched)

\* what an observer notes of the stop edges of a frame of one condition
Dipped(c, tokens) ==
    IF Held \in tokens /\ position.known /\ position.stage = 0 THEN {Held}
    ELSE IF dipped # {} /\ c = ConditionOf[Held] THEN dipped \cup tokens ELSE dipped

ScheduleFrame(c, tops) ==
    LET r == ready[c]
        edges == {i \in 1..Len(tops) : Latched(tops, i, r)}
        updates == {[token |-> tops[i].token, top |-> tops[i].top, latched |-> i \in edges] :
                       i \in edges \cup {j \in 1..Len(tops) : Final(tops, j)}}
        frame == [condition |-> c, ready |-> r, updates |-> updates,
                  types |-> {Edge(tops[i].top) : i \in edges}]
    IN /\ IF edges # {} THEN critical' = Queued(frame) /\ UNCHANGED pending
          ELSE pending' = Conflated(frame) /\ UNCHANGED critical
       /\ seen' = SeenAfter(tops, r)
       /\ dipped' = Dipped(c, {tops[i].token : i \in {j \in edges : tops[j].top = "low"}})

\* a frame of one condition moves one or two tops, one may pass through
Frame ==
    /\ frames < MaxFrames /\ frames' = frames + 1
    /\ \E c \in Conditions : \E n \in 1..2 :
       \E tops \in [1..n -> [token : {t \in Tokens : ConditionOf[t] = c}, top : Tops]] :
           /\ ScheduleFrame(c, tops)
           /\ book' = [t \in Tokens |->
                 IF \E i \in 1..n : tops[i].token = t
                 THEN tops[CHOOSE i \in 1..n : tops[i].token = t /\ Final(tops, i)].top
                 ELSE book[t]]
    /\ UNCHANGED <<ready, position>>

Readiness ==
    /\ frames < MaxFrames /\ frames' = frames + 1
    /\ \E c \in Conditions : ready' = [ready EXCEPT ![c] = ~@]
    /\ UNCHANGED <<book, seen, critical, pending, position, dipped>>

-----------------------------------------------------------------------------
(* _frame_worker, process_atomic_frame, _manage_position *)

\* latch_stop_exit, and the refresh after it; an exception ends the frame
Latch ==
    \/ position' = [position EXCEPT !.stage = 1, !.known_stage = 1]
    \/ LatchFails /\ UNCHANGED position

ProcessFrame(frame) ==
    IF Stops(frame) /\ position.known_stage = 0 THEN Latch ELSE UNCHANGED position

TakeCritical ==
    /\ critical # <<>> /\ critical' = Tail(critical) /\ ProcessFrame(Head(critical))
    /\ UNCHANGED <<book, ready, seen, pending, dipped, frames>>

TakePending ==
    /\ critical = <<>> /\ pending # <<>>
    /\ pending' = Tail(pending) /\ ProcessFrame(Head(pending))
    /\ UNCHANGED <<book, ready, seen, critical, dipped, frames>>

-----------------------------------------------------------------------------
(* The position and its supervisor *)

\* a fill is published as a row
Open ==
    /\ ~position.open /\ position' = [position EXCEPT !.open = TRUE]
    /\ UNCHANGED <<book, ready, seen, critical, pending, dipped, frames>>

\* _refresh_hot_state_once
RefreshHotState ==
    /\ position.open
    /\ position' = [position EXCEPT !.known = TRUE, !.known_stage = position.stage]
    /\ UNCHANGED <<book, ready, seen, critical, pending, dipped, frames>>

\* _exit_book_for_position: the book of the stream, else REST's, else none
ExitBook == {book[Held], NoTop}

\* _evaluate_new_position_exit_state: a position that is published or recovered
\* is compared with the present book, without a frame
EvaluateNewPosition ==
    \E top \in ExitBook :
        IF position.known_stage = 0 /\ top = "low" THEN Latch ELSE UNCHANGED position

\* so is every known position, again and again
Supervise ==
    /\ position.known /\ EvaluateNewPosition
    /\ UNCHANGED <<book, ready, seen, critical, pending, dipped, frames>>

Next ==
    \/ Frame \/ Readiness \/ TakeCritical \/ TakePending
    \/ Open \/ RefreshHotState \/ Supervise

Spec == Init /\ [][Next]_frameVars

-----------------------------------------------------------------------------
(* Properties *)

Updates == [token : Tokens, top : Tops, latched : BOOLEAN]
FrameRecords ==
    {f \in [condition : Conditions, ready : BOOLEAN, updates : SUBSET Updates,
            types : SUBSET {"STOP_066", "ENTRY_074"}] :
        \A u \in f.updates : ConditionOf[u.token] = f.condition}
TypeOK ==
    /\ book \in [Tokens -> Tops] /\ ready \in [Conditions -> BOOLEAN]
    /\ seen \in [BOOLEAN -> [Tokens -> Tops \cup {NoTop}]]
    /\ critical \in Seq(FrameRecords) /\ pending \in Seq(FrameRecords)
    /\ Len(pending) <= PendingCap /\ frames \in 0..MaxFrames /\ dipped \in SUBSET Tokens
    /\ position \in [open : BOOLEAN, stage : {0, 1}, known : BOOLEAN, known_stage : {0, 1}]

Served == position.stage = 1 \/ \E i \in DOMAIN critical : Stops(critical[i])

(* A dip of the held token, however short and whatever the worker is busy   *)
(* with, has latched the stop or waits in the queue that is served first,   *)
(* unless the other token of its market has dipped since: the key frames    *)
(* are coalesced by does not name the token, see StopEdgeIsNeverDropped.    *)
StopEdgeIsServed == dipped = {Held} => Served

(* _enforce_critical_queue_cap: `A STOP_066 edge is never dropped', and     *)
(* schedule_frame: `Only same-readiness repeats of the same edge collapse'. *)
(* A dip of the held token is served whatever its market does after it.     *)
StopEdgeIsNeverDropped == dipped # {} => Served
=============================================================================
