---------------------------- MODULE ReadinessRow -----------------------------
(***************************************************************************)
(* The rows strategy_readiness and strategy_block_reason: queued by the    *)
(* market stream (live/market_websocket.py), written by its one background *)
(* writer in batches, and written directly by an aborted entry             *)
(* (live/strategy_runtime.py).  Values are numbered in the order queued.   *)
(***************************************************************************)
EXTENDS Integers

CONSTANTS
    MaxQueued,   \* bound on the values the stream queues
    MaxTrouble   \* bound on failed batches, aborted entries and restarts

ReadinessRowAssumption == MaxQueued \in Nat /\ MaxTrouble \in Nat

VARIABLES
    last,     \* _last_queued_state_values: the value and its number
    pending,  \* _pending_states
    batch,    \* the states the executor is writing
    row,      \* the durable row, and who wrote it
    trouble   \* what went wrong so far

rowVars == <<last, pending, batch, row, trouble>>

Readiness == {"READY", "NOT_READY"}
Unset == [value |-> "", n |-> 0]

Init ==
    /\ last = Unset /\ pending = Unset /\ batch = Unset /\ trouble = 0
    /\ row = [value |-> "NOT_READY", n |-> 0, by |-> "seed"]

Trouble == trouble < MaxTrouble /\ trouble' = trouble + 1

-----------------------------------------------------------------------------
(* mark_disconnect, the resyncs, and every frame that moved a top: a value  *)
(* equal to the last one queued is not queued again.                        *)
QueueState ==
    /\ \E value \in Readiness :
           /\ last.n < MaxQueued /\ value # last.value
           /\ last' = [value |-> value, n |-> last.n + 1]
    /\ pending' = last'
    /\ UNCHANGED <<batch, row, trouble>>

\* the writer task sleeps, takes what is pending, and awaits its executor
TakeBatch ==
    /\ batch = Unset /\ pending # Unset
    /\ batch' = pending /\ pending' = Unset
    /\ UNCHANGED <<last, row, trouble>>

\* set_states_on_connection, in the transaction of the batch
Stored(s) == [value |-> s.value, n |-> s.n, by |-> "stream"]
CommitBatch ==
    /\ batch # Unset /\ row' = Stored(batch) /\ batch' = Unset
    /\ UNCHANGED <<last, pending, trouble>>

\* mutation: the failed batch replaces what was queued since
RequeueOver == pending' = batch

\* setdefault: what was queued since the batch was taken is newer
Requeue == pending' = IF pending = Unset THEN batch ELSE pending

\* the transaction fails and is rolled back
FailBatch ==
    /\ batch # Unset /\ Trouble
    /\ Requeue /\ batch' = Unset
    /\ UNCHANGED <<last, row>>

\* _abort_entry with fail_closed, and a submission blocked by stale timestamps
AbortEntry ==
    /\ Trouble
    /\ row' = [value |-> "NOT_READY", n |-> row.n, by |-> "strategy"]
    /\ UNCHANGED <<last, pending, batch>>

\* the process ends: a batch under way is committed or not, the rest is lost
Restart ==
    /\ Trouble
    /\ last' = [value |-> "", n |-> last.n] /\ pending' = Unset /\ batch' = Unset
    /\ row' \in {row} \cup (IF batch = Unset THEN {} ELSE {Stored(batch)})

Next ==
    \/ QueueState \/ TakeBatch \/ CommitBatch \/ FailBatch \/ AbortEntry \/ Restart

Spec == Init /\ [][Next]_rowVars

-----------------------------------------------------------------------------
(* Properties *)

TypeOK ==
    /\ {last, pending, batch} \subseteq [value : Readiness \cup {""}, n : 0..MaxQueued]
    /\ row \in [value : Readiness, n : 0..MaxQueued, by : {"seed", "stream", "strategy"}]

(* The value queued last is never lost on its way to the row, over failed   *)
(* batches and what is queued while one is written: it waits, is being      *)
(* written, or is the row, unless the process restarted.                    *)
RowFollowsStream ==
    last.value # "" => last.n \in {pending.n, batch.n, row.n}
=============================================================================
