----------------------------- MODULE UserStream ------------------------------
(***************************************************************************)
(* UserWebSocketManager (live/market_websocket.py): the private feed, the  *)
(* bounded queue between its receive loop and the worker that stores the   *)
(* events, and the hold on entries when an event may have been lost.       *)
(* Events of one order or trade are opaque; a frame carries one or two.    *)
(***************************************************************************)
EXTENDS Integers, Sequences, FiniteSets, SequencesExt

CONSTANTS
    Events,      \* how many order and trade events the account has
    EventCap,    \* event_queue_capacity
    UserWorlds,  \* what can happen: subsets of KnownTurns, one is chosen for a behaviour
    MaxFaults    \* how often something goes wrong

KnownTurns ==
    {"drop", "restart", "store", "ask", "hold", "release"}

UserStreamAssumption ==
    /\ Events \in Nat /\ EventCap \in Nat \ {0} /\ MaxFaults \in Nat
    /\ UserWorlds \subseteq SUBSET KnownTurns

VARIABLES
    sent,     \* events the exchange has emitted
    link,     \* "down", "subscribed" (the reconnect run is asked for), "up"
    wire,     \* frames the socket library holds, not yet received
    queue,    \* _event_queue: events, and StateRow for rows of _persist_state
    worker,   \* _event_worker: what it does and the event in its hands
    stored,   \* rows of live_websocket_events
    covered,  \* events a reconciliation asked for later will read
    held,     \* entries are paused for this feed, since which events
    faults,   \* faults so far
    turns     \* the world of this behaviour

userVars == <<sent, link, wire, queue, worker, stored, covered, held, faults, turns>>

StateRow == 0
Idle == [at |-> "idle", hand |-> {}]
NotHeld == [on |-> FALSE, since |-> {}]

Init ==
    /\ sent = {} /\ link = "down" /\ wire = <<>> /\ queue = <<>> /\ worker = Idle
    /\ stored = {} /\ covered = {} /\ held = NotHeld /\ faults = 0
    /\ turns \in UserWorlds

Fault(f) == f \in turns /\ faults < MaxFaults /\ faults' = faults + 1
Room == EventCap - Len(queue)

\* acquire_pause: a pause that is already there keeps its generation, so the
\* run that verifies it may have begun before this loss
Hold == [on |-> TRUE, since |-> IF held.on THEN held.since ELSE sent]

\* coordinator.request: answered by a run that starts after the request
AskRun == covered' = covered \cup sent

-----------------------------------------------------------------------------
(* The exchange and the connection *)

Emit ==
    /\ \E n \in 1..2 :
           LET last == Cardinality(sent)
               frame == [i \in 1..n |-> last + i]
           IN /\ last + n <= Events
              /\ sent' = sent \cup ToSet(frame)
              /\ wire' = IF link = "down" THEN wire ELSE Append(wire, frame)
    /\ UNCHANGED <<link, queue, worker, stored, covered, held, faults, turns>>

\* an event the exchange sends again is a duplicate row
Resend ==
    /\ link = "up" /\ Len(wire) < 2
    /\ \E e \in stored : wire' = Append(wire, <<e>>)
    /\ UNCHANGED <<sent, link, queue, worker, stored, covered, held, faults, turns>>

Connect ==
    /\ link = "down" /\ link' = "subscribed"
    /\ UNCHANGED <<sent, wire, queue, worker, stored, covered, held, faults, turns>>

\* mutation: entries are traded on while the first run has not been asked for
ConnectWithoutRun ==
    /\ link = "subscribed" /\ link' = "up"
    /\ UNCHANGED <<sent, wire, queue, worker, stored, covered, held, faults, turns>>

\* the run is asked for before the first receive, and awaited
AskAfterConnect ==
    /\ link = "subscribed"
    /\ \/ link' = "up" /\ AskRun /\ UNCHANGED <<wire, faults>>
       \/ Fault("ask") /\ link' = "down" /\ wire' = <<>> /\ UNCHANGED covered
    /\ UNCHANGED <<sent, queue, worker, stored, held, turns>>

\* the socket closes, goes stale, or an auth rejection raises
Drop ==
    /\ Fault("drop") /\ link # "down" /\ link' = "down" /\ wire' = <<>>
    /\ UNCHANGED <<sent, queue, worker, stored, covered, held, turns>>

-----------------------------------------------------------------------------
(* _receive *)

\* a full queue loses the rest of the frame: hold the entries, then reconnect
ReceiveLoses ==
    /\ \/ held' = Hold /\ UNCHANGED faults
       \/ Fault("hold") /\ UNCHANGED held
    /\ link' = "down" /\ wire' = <<>>

Receive ==
    /\ link = "up" /\ wire # <<>>
    /\ LET frame == Head(wire)
       IN IF Len(frame) <= Room
          THEN /\ queue' = queue \o frame
               /\ wire' = Tail(wire) /\ UNCHANGED <<link, held, faults>>
          ELSE queue' = queue \o SubSeq(frame, 1, Room) /\ ReceiveLoses
    /\ UNCHANGED <<sent, worker, stored, covered, turns>>

\* PONG and status changes: a row for the worker, or written at once when full
PersistState ==
    /\ Room > 0 /\ queue' = Append(queue, StateRow)
    /\ UNCHANGED <<sent, link, wire, worker, stored, covered, held, faults, turns>>

-----------------------------------------------------------------------------
(* _event_worker *)

TakeEvent ==
    /\ worker.at = "idle" /\ queue # <<>> /\ Head(queue) # StateRow
    /\ worker' = [at |-> "storing", hand |-> {Head(queue)}] /\ queue' = Tail(queue)
    /\ UNCHANGED <<sent, link, wire, stored, covered, held, faults, turns>>

TakeState ==
    /\ worker.at = "idle" /\ queue # <<>> /\ Head(queue) = StateRow
    /\ queue' = Tail(queue)
    /\ \/ UNCHANGED <<worker, faults>>
       \/ Fault("store") /\ worker' = [at |-> "holding", hand |-> {}]
    /\ UNCHANGED <<sent, link, wire, stored, covered, held, turns>>

\* process_message: a duplicate is not stored and asks for no run
StoreEvent ==
    /\ worker.at = "storing"
    /\ \/ /\ stored' = stored \cup worker.hand
          /\ worker' = IF worker.hand \subseteq stored THEN Idle
                       ELSE [worker EXCEPT !.at = "asking"]
          /\ UNCHANGED faults
       \/ /\ Fault("store") /\ UNCHANGED stored
          /\ worker' = [worker EXCEPT !.at = "holding"]
    /\ UNCHANGED <<sent, link, wire, queue, covered, held, turns>>

\* the worker waits for the answer of the run it asked for
AskAfterEvent ==
    /\ worker.at = "asking"
    /\ \/ AskRun /\ worker' = Idle /\ UNCHANGED faults
       \/ Fault("ask") /\ worker' = [worker EXCEPT !.at = "holding"] /\ UNCHANGED covered
    /\ UNCHANGED <<sent, link, wire, queue, stored, held, turns>>

\* _hold_for_unknown_user_event; that this raises as well, which would end the
\* task, is not modelled
HoldEntries ==
    /\ worker.at = "holding"
    /\ held' = Hold /\ worker' = Idle
    /\ UNCHANGED <<sent, link, wire, queue, stored, covered, faults, turns>>

-----------------------------------------------------------------------------
(* Around it *)

\* the pause ends after a clean run that began later than the pause
Release ==
    /\ held.on /\ "release" \in turns
    /\ held' = NotHeld /\ covered' = covered \cup held.since
    /\ UNCHANGED <<sent, link, wire, queue, worker, stored, faults, turns>>

Restart ==
    /\ Fault("restart")
    /\ link' = "down" /\ wire' = <<>> /\ worker' = Idle /\ queue' = <<>>
    /\ UNCHANGED <<sent, stored, covered, held, turns>>

Next ==
    \/ Emit \/ Resend \/ Connect \/ AskAfterConnect \/ Drop
    \/ Receive \/ PersistState
    \/ TakeEvent \/ TakeState \/ StoreEvent \/ AskAfterEvent \/ HoldEntries
    \/ Release \/ Restart

Spec == Init /\ [][Next]_userVars

-----------------------------------------------------------------------------
(* Properties *)

TypeOK ==
    /\ sent \subseteq 1..Events /\ stored \subseteq sent /\ covered \subseteq sent
    /\ link \in {"down", "subscribed", "up"} /\ wire \in Seq(Seq(sent))
    /\ queue \in Seq(sent \cup {StateRow}) /\ Len(queue) <= EventCap
    /\ worker \in [at : {"idle", "storing", "asking", "holding"}, hand : SUBSET sent]
    /\ held \in [on : BOOLEAN, since : SUBSET sent] /\ faults \in 0..MaxFaults

\* where an event is still on its way: the worker stores it, and the run that
\* the next connection asks for reads it
OnItsWay(e) ==
    \/ link # "up" \/ e \in worker.hand
    \/ e \in ToSet(queue) \/ \E i \in DOMAIN wire : e \in ToSet(wire[i])

(* Whatever the feed loses, the queue drops or the database refuses: every  *)
(* event is stored, read by a run that was asked for after it, on its way   *)
(* there, or entries are held.                                              *)
NothingIsForgotten ==
    \A e \in sent : e \in stored \cup covered \/ held.on \/ OnItsWay(e)
=============================================================================
