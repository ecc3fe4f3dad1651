------------------------------- MODULE MCFeeds -------------------------------
(***************************************************************************)
(* Instances for TLC of what lies between the exchange and the strategy:   *)
(* the market stream and its books, the private stream, the readiness row, *)
(* the frames handed to the strategy, and the window of trades a           *)
(* reconciliation run reads.  They share no variable, so a behaviour       *)
(* follows one of them, `focus', and the others rest in their first state. *)
(***************************************************************************)
EXTENDS Integers, Sequences, TLC

CONSTANTS
    Prices, MaxTime, Assets, QueueCap, MaxCuts, MaxExtra, StreamWorlds,
    Events, EventCap, UserWorlds, MaxFaults,
    MaxQueued, MaxTrouble,
    Conditions, Tokens, ConditionOf, Held, CriticalCap, PendingCap, MaxFrames, LatchFails,
    Trades, MaxNow, Overlap, MaxRead, BootstrapRead, Lateness, Slow, Start

VARIABLES
    focus,
    exchange, wanted, conn, queue, loop, books, heard, advertised, resolution, spent, world,
    sent, link, wire, userQueue, worker, stored, covered, held, faults, turns,
    last, pending, batch, row, trouble,
    book, ready, seen, critical, pendingFrames, position, dipped, frames,
    now, trade, persisted, mark, fetch, exhausted

streamVars == <<exchange, wanted, conn, queue, loop, books, heard, advertised, resolution,
                spent, world>>
userVars == <<sent, link, wire, userQueue, worker, stored, covered, held, faults, turns>>
rowVars == <<last, pending, batch, row, trouble>>
frameVars == <<book, ready, seen, critical, pendingFrames, position, dipped, frames>>
windowVars == <<now, trade, persisted, mark, fetch, exhausted>>

Stream == INSTANCE MarketStream
Private == INSTANCE UserStream WITH queue <- userQueue
Row == INSTANCE ReadinessRow
Frames == INSTANCE FrameQueue WITH pending <- pendingFrames
Window == INSTANCE TradeWindow

\* The market of the held token has two tokens; another market competes with it.
TwoMarkets == 1 :> 1 @@ 2 :> 1 @@ 3 :> 2

ASSUME FeedsAssumption ==
    /\ Stream!BookAssumption /\ Stream!StreamAssumption /\ Private!UserStreamAssumption
    /\ Row!ReadinessRowAssumption /\ Frames!FrameQueueAssumption /\ Window!WindowAssumption

Init ==
    /\ focus \in {"stream", "private", "row", "frames", "window"}
    /\ Stream!Init /\ Private!Init /\ Row!Init /\ Frames!Init /\ Window!Init
    /\ focus # "stream" => world = CHOOSE w \in StreamWorlds : TRUE
    /\ focus # "private" => turns = CHOOSE w \in UserWorlds : TRUE
    /\ focus # "window" => \A t \in DOMAIN trade : trade[t] = [at |-> 0, shown |-> 0]

On(what) == focus = what /\ UNCHANGED focus

Next ==
    \/ On("stream") /\ Stream!Next
       /\ UNCHANGED <<userVars, rowVars, frameVars, windowVars>>
    \/ On("private") /\ Private!Next
       /\ UNCHANGED <<streamVars, rowVars, frameVars, windowVars>>
    \/ On("row") /\ Row!Next
       /\ UNCHANGED <<streamVars, userVars, frameVars, windowVars>>
    \/ On("frames") /\ Frames!Next
       /\ UNCHANGED <<streamVars, userVars, rowVars, windowVars>>
    \/ On("window") /\ Window!Next
       /\ UNCHANGED <<streamVars, userVars, rowVars, frameVars>>

(* The fairness of MarketStream, of the behaviours that follow it *)

Speaks == focus = "stream" /\ world \cap {"stale", "unusable", "lost"} = {}
InStream(step) == Speaks /\ step
StreamFairness ==
    /\ WF_streamVars(InStream(Stream!Dial)) /\ WF_streamVars(InStream(Stream!Connect))
    /\ WF_streamVars(InStream(Stream!PipelineEnds))
    /\ WF_streamVars(InStream(Stream!ReconciliationEnds))
    /\ WF_streamVars(InStream(Stream!Process)) /\ WF_streamVars(InStream(Stream!ProcessResolution))
    /\ WF_streamVars(InStream(Stream!LoopWakes)) /\ WF_streamVars(InStream(Stream!LoopSubscribes))
    /\ WF_streamVars(InStream(Stream!LoopNotes)) /\ WF_streamVars(InStream(Stream!LoopReady))
    /\ WF_streamVars(InStream(Stream!LoopTimesOut)) /\ WF_streamVars(InStream(Stream!LoopFinishes))
    /\ \A a \in Assets : /\ WF_streamVars(InStream(Stream!SendBook(a)))
                         /\ WF_streamVars(InStream(Stream!SendDelta(a)))

Spec ==
    /\ Init
    /\ [][Next]_<<focus, streamVars, userVars, rowVars, frameVars,
                  windowVars>>
    /\ StreamFairness

-----------------------------------------------------------------------------
(* Properties, under the names of their modules *)

\* Every variable of every module keeps its type.
TypeOK ==
    /\ focus = "stream" => Stream!TypeOK
    /\ focus = "private" => Private!TypeOK
    /\ focus = "row" => Row!TypeOK
    /\ focus = "frames" => Frames!TypeOK
    /\ focus = "window" => Window!TypeOK

\* A book that is ready is the exchange's as of the last message read about it,
\* where no change is omitted or dropped for an unusable timestamp.
ReadyBookIsTheExchanges == focus = "stream" => Stream!ReadyBookIsTheExchanges

\* A market_resolved frame that was queued is stored, whatever saturates.
ResolutionSurvives == focus = "stream" => Stream!ResolutionSurvives

\* No trade is left behind the watermark of the runs.
NothingBehindTheWatermark == focus = "window" => Window!NothingBehindTheWatermark

\* Once the network rests, every wanted book gets ready again and stays so.
EveryBookComesBack ==
    <>[](Speaks => Stream!Serves)

\* No private event is forgotten: it is stored, read by a later run, on its way
\* there, or entries are held.
NothingIsForgotten == focus = "private" => Private!NothingIsForgotten

\* The readiness value queued last is never lost on its way to the row.
RowFollowsStream == focus = "row" => Row!RowFollowsStream

\* A dip of the held token has latched the stop, or waits to be served first,
\* unless the other token of its market has dipped since.
StopEdgeIsServed == focus = "frames" => Frames!StopEdgeIsServed
=============================================================================
