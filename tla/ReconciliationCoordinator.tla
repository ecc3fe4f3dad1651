---------------------- MODULE ReconciliationCoordinator ----------------------
(***************************************************************************)
(* live/reconciliation_coordinator.py with its callers: the market         *)
(* WebSocket after each connect, the periodic loop, the events of orders   *)
(* and trades, the operator.                                               *)
(*                                                                         *)
(* Everything runs on one event loop and no critical section of the lock   *)
(* awaits, so the unit of interleaving is the code between two             *)
(* suspensions: a request up to the wait for its answer; a task from its   *)
(* first step, the end of worker.run_once or the end of a sleep up to its  *)
(* next run, its next sleep or its end.                                    *)
(***************************************************************************)
EXTENDS Naturals, FiniteSets

CONSTANTS
    Callers,          \* who asks for a reconciliation
    Market,           \* the market WebSocket, the one that gives a generation
    Periodic,         \* reconciliation_loop, which no exception survives
    EvidenceCallers,  \* ask because the evidence changed
    ForcedCallers,    \* ask with force, past any back-off
    Tasks,            \* identities for _drain tasks
    None,             \* no batch, no task, no readiness
    MaxConnections,   \* bound on connection_generation
    WorkerRaises,     \* run_once may raise (start_reconciliation is in no try)
    MayStop           \* the process may be shut down

Statuses == {"idle", "waiting", "answered", "failed"}

Batch ==
    [waiters : SUBSET Callers, gen : Nat, evidence : BOOLEAN, force : BOOLEAN]

Task == [pc : {"none", "new", "run", "sleep"}, batch : Batch, began : Nat]

ASSUME CoordinatorAssumption ==
    /\ {Market, Periodic} \subseteq Callers /\ Market # Periodic
    /\ EvidenceCallers \subseteq Callers /\ ForcedCallers \subseteq Callers
    /\ None \notin Batch /\ None \notin Tasks /\ None \notin Nat
    /\ MaxConnections \in Nat
    /\ WorkerRaises \in BOOLEAN /\ MayStop \in BOOLEAN

VARIABLES
    pending,   \* _pending: the batch that collects requests, or None
    runner,    \* _runner: the task last created, or None
    task,      \* the _drain tasks; began: the connection its run began in
    cooling,   \* the worker's retry deadline lies ahead
    stopping,  \* _stopping
    gen,       \* connection_generation of the market WebSocket
    link,      \* its connection: "down", "up" (awaits its answer) or "open"
    call,      \* how the last request of each caller stands
    ready      \* READY as published: the connection its run began in, or None

batchVars == <<pending, runner, task>>
vars == <<pending, runner, task, cooling, stopping, gen, link, call, ready>>

EmptyBatch ==
    [waiters |-> {}, gen |-> 0, evidence |-> FALSE, force |-> FALSE]

NoTask == [pc |-> "none", batch |-> EmptyBatch, began |-> 0]

Init ==
    /\ pending = None /\ runner = None
    /\ task = [t \in Tasks |-> NoTask]
    /\ cooling = FALSE /\ stopping = FALSE
    /\ gen = 0 /\ link = "down"
    /\ call = [c \in Callers |-> "idle"]
    /\ ready = None

Live(t) == task[t].pc # "none"
Running(t) == task[t].pc = "run"

Opened(b) == IF b = None THEN EmptyBatch ELSE b

-----------------------------------------------------------------------------
(* request() *)

\* the batch with one more request; generations only grow, so that a
\* connection's own is the latest of them
Join(b, c) ==
    [waiters |-> b.waiters \cup {c},
     gen |-> IF c = Market THEN gen ELSE b.gen,
     evidence |-> b.evidence \/ c \in EvidenceCallers,
     force |-> b.force \/ c \in ForcedCallers]

Asks(c) ==
    /\ call[c] # "waiting"
    /\ c = Market => link = "up"
    /\ c = Periodic => call[c] # "failed"

\* `if self._runner is None or self._runner.done()`
Idle == \A t \in Tasks : runner = t => ~Live(t)

StartRunner ==
    \E t \in Tasks :
        /\ ~Live(t)
        /\ runner' = t
        /\ task' = [task EXCEPT ![t] = [NoTask EXCEPT !.pc = "new"]]

EnsureRunner ==
    \/ Idle /\ StartRunner
    \/ ~Idle /\ UNCHANGED <<runner, task>>

\* Mutant: a request joins the batch that is being run.
RequestJoiningRun(c) ==
    /\ Asks(c) /\ ~stopping
    /\ call' = [call EXCEPT ![c] = "waiting"]
    /\ \/ \E t \in Tasks : /\ Running(t)
                         /\ task' = [task EXCEPT ![t].batch = Join(@, c)]
                         /\ UNCHANGED <<pending, runner>>
       \/ /\ \A t \in Tasks : ~Running(t)
          /\ pending' = Join(Opened(pending), c)
          /\ EnsureRunner
    /\ UNCHANGED <<cooling, stopping, gen, link, ready>>

Request(c) ==
    /\ Asks(c) /\ ~stopping
    /\ pending' = Join(Opened(pending), c)
    /\ EnsureRunner
    /\ call' = [call EXCEPT ![c] = "waiting"]
    /\ UNCHANGED <<cooling, stopping, gen, link, ready>>

\* how the requests S end, and what the market WebSocket makes of its own: an
\* answer opens the stream to the strategy, an exception drops the connection
Settle(S, status) ==
    /\ call' = [c \in Callers |-> IF c \in S THEN status ELSE call[c]]
    /\ link' = IF Market \notin S THEN link
               ELSE IF status = "answered" THEN "open" ELSE "down"

RefuseRequest(c) ==
    /\ Asks(c) /\ stopping
    /\ Settle({c}, "failed")
    /\ UNCHANGED <<batchVars, cooling, stopping, gen, ready>>

-----------------------------------------------------------------------------
(* _drain() *)

\* worker.run_once: an unforced run before the retry deadline returns
\* "backoff" at once, and the task sleeps
Started(b, cool) ==
    [pc |-> IF cool /\ ~b.force THEN "sleep" ELSE "run",
     batch |-> b, began |-> gen]

Released(t) == IF runner = t THEN None ELSE runner

\* Mutant: a task runs the batch it was created for and ends.
ProceedOnce(t, pend, cool) ==
    IF task[t].pc = "new"
    THEN /\ pending' = None
         /\ cooling' = (cool /\ ~pend.evidence)
         /\ task' = [task EXCEPT ![t] = Started(pend, cooling')]
         /\ UNCHANGED runner
    ELSE /\ pending' = pend
         /\ task' = [task EXCEPT ![t] = NoTask]
         /\ runner' = Released(t)
         /\ cooling' = cool

\* _take_pending and the start of its run, or the end of the task; pend and
\* cool are what the step has made of pending and cooling so far
Proceed(t, pend, cool) ==
    /\ pending' = None
    /\ \/ /\ pend = None
          /\ task' = [task EXCEPT ![t] = NoTask]
          /\ runner' = Released(t)
          /\ cooling' = cool
       \/ /\ pend # None
          /\ cooling' = (cool /\ ~pend.evidence)
          /\ task' = [task EXCEPT ![t] = Started(pend, cooling')]
          /\ UNCHANGED runner

FirstStep(t) ==
    /\ task[t].pc = "new" /\ ~stopping
    /\ Proceed(t, pending, cooling)
    /\ UNCHANGED <<stopping, gen, link, call, ready>>

Wake(t) ==
    /\ task[t].pc = "sleep" /\ ~stopping
    /\ task' = [task EXCEPT ![t] = Started(task[t].batch, cooling)]
    /\ UNCHANGED <<pending, runner, cooling, stopping, gen, link, call, ready>>

\* Mutant: nothing compares the generations.
CurrentAlways(b) == TRUE

\* publish_guard()
Current(b) == b.gen = 0 \/ b.gen = gen

\* a clean result of an older connection asks for a run on the current one
FollowUp == [Opened(pending) EXCEPT !.gen = gen]

\* the run ends: the worker publishes and sets its deadline, the batch is
\* answered, the task proceeds
Finish(t, outcome) ==
    LET b == task[t].batch
        stale == outcome = "ok" /\ ~Current(b)
    IN  /\ Running(t) /\ ~stopping
        /\ ready' = IF stale THEN ready
                    ELSE IF outcome = "ok" THEN task[t].began ELSE None
        /\ Settle(b.waiters, "answered")
        /\ Proceed(t, IF stale THEN FollowUp ELSE pending, outcome # "ok")
        /\ UNCHANGED <<stopping, gen>>

\* the run raises: its batch gets the exception and the task ends, whatever
\* is pending
Raise(t) ==
    /\ WorkerRaises /\ Running(t) /\ ~stopping
    /\ Settle(task[t].batch.waiters, "failed")
    /\ task' = [task EXCEPT ![t] = NoTask]
    /\ runner' = Released(t)
    /\ UNCHANGED <<pending, cooling, stopping, gen, ready>>

EndRun(t) == Raise(t) \/ \E outcome \in {"ok", "gaps", "failed"} : Finish(t, outcome)

\* the cancellation of stop() arrives.  A task cancelled before its first
\* step never enters the coroutine, and leaves runner and pending as they are
Cancelled(t) ==
    /\ stopping /\ Live(t)
    /\ task' = [task EXCEPT ![t] = NoTask]
    /\ \/ /\ task[t].pc = "new"
          /\ UNCHANGED <<pending, runner, call, link>>
       \/ /\ task[t].pc # "new"
          /\ LET orphans == IF runner = t THEN Opened(pending).waiters ELSE {}
             IN  Settle(task[t].batch.waiters \cup orphans, "failed")
          /\ pending' = IF runner = t THEN None ELSE pending
          /\ runner' = Released(t)
    /\ UNCHANGED <<cooling, stopping, gen, ready>>

Stop ==
    /\ MayStop /\ ~stopping
    /\ stopping' = TRUE
    /\ UNCHANGED <<batchVars, cooling, gen, link, call, ready>>

-----------------------------------------------------------------------------
(* The market WebSocket and the clock *)

Connect ==
    /\ link = "down" /\ gen < MaxConnections /\ ~stopping
    /\ gen' = gen + 1
    /\ link' = "up"
    /\ UNCHANGED <<batchVars, cooling, stopping, call, ready>>

Without(b) == [b EXCEPT !.waiters = @ \ {Market}]

\* Mutant: the waiter outlives its connection.
DisconnectKeepingWaiter ==
    /\ link # "down"
    /\ link' = "down"
    /\ UNCHANGED <<batchVars, cooling, stopping, gen, call, ready>>

\* the connection ends: its waiter is cancelled, the run is not
Disconnect ==
    /\ link # "down"
    /\ link' = "down"
    /\ call' = [call EXCEPT ![Market] = IF @ = "waiting" THEN "idle" ELSE @]
    /\ pending' = IF pending = None THEN None ELSE Without(pending)
    /\ task' = [t \in Tasks |-> [task[t] EXCEPT !.batch = Without(@)]]
    /\ UNCHANGED <<runner, cooling, stopping, gen, ready>>

CoolDown ==
    /\ cooling
    /\ cooling' = FALSE
    /\ UNCHANGED <<batchVars, stopping, gen, link, call, ready>>

-----------------------------------------------------------------------------
TaskStep(t) == FirstStep(t) \/ Wake(t) \/ EndRun(t) \/ Cancelled(t)

Next ==
    \/ \E c \in Callers : Request(c) \/ RefuseRequest(c)
    \/ \E t \in Tasks : TaskStep(t)
    \/ Stop \/ Connect \/ Disconnect \/ CoolDown

Spec == Init /\ [][Next]_vars

(* The loop runs every ready task, a run of the worker ends (its calls have   *)
(* time limits), a sleep ends; the WebSocket asks right after it connected,  *)
(* and the periodic loop asks again after each interval.                     *)
Fairness ==
    /\ \A t \in Tasks :
        WF_vars(FirstStep(t) \/ Wake(t) \/ EndRun(t) \/ Cancelled(t))
    /\ WF_vars(CoolDown)
    /\ WF_vars(Request(Market)) /\ WF_vars(Request(Periodic))

FairSpec == Spec /\ Fairness

-----------------------------------------------------------------------------
(* Properties *)

\* pending, runner and the tasks hold batches and tasks
TypeOK ==
    /\ pending \in Batch \cup {None}
    /\ runner \in Tasks \cup {None}
    /\ task \in [Tasks -> Task]
    /\ cooling \in BOOLEAN /\ stopping \in BOOLEAN
    /\ gen \in Nat /\ link \in {"down", "up", "open"}
    /\ call \in [Callers -> Statuses]
    /\ ready \in Nat \cup {None}

\* However requests, ends of runs and shutdown interleave, the worker never
\* runs twice at a time and no task is alive that stop() would not cancel.
SingleRun == \A t \in Tasks : Live(t) => runner = t

\* A request that is not settled is held by one batch, never by two: replacing
\* the batch of a stale result, an exception or a cancelled waiter loses none
\* and answers none twice.
EachRequestHeldOnce ==
    /\ \A c \in Callers :
        call[c] = "waiting" <=>
            \/ c \in Opened(pending).waiters
            \/ \E t \in Tasks : c \in task[t].batch.waiters
    /\ \A t \in Tasks : task[t].batch.waiters \cap Opened(pending).waiters = {}

\* Books reach the strategy only after a reconciliation that began in their
\* own connection: the answer to an older connection's request opens nothing.
OpenedByOwnRun ==
    [][link # "open" /\ link' = "open"
        => \E t \in Tasks : Running(t) /\ task[t].began = gen]_vars

Waiting == {c \in Callers : call[c] = "waiting"}
Serving == {c \in Callers :
    \E t \in Tasks : Running(t) /\ c \in task[t].batch.waiters}
Answered == {c \in Callers : call[c] = "answered"}

\* Requests are coalesced, and yet each is answered by a run that began later.
Later == INSTANCE LaterRun WITH
    waiting <- Waiting, serving <- Serving, answered <- Answered
AnsweredByLaterRun == Later!LaterSpec

\* A request made during a run gets the one follow-up run that the report in
\* docs/archive promises, also when that run raises: the market WebSocket, whose
\* connection holds, is not left pending.
FollowUpRuns ==
    Market \in Opened(pending).waiters ~> Market \notin Opened(pending).waiters

\* A run that a connection asked for publishes READY for that connection only,
\* whatever reconnects happened while it was pending, asleep or running.
AskedRunPublishesCurrent ==
    [][\A t \in Tasks :
        Running(t) /\ task[t].batch.gen # 0 /\ ready' # ready /\ ready' # None
            => ready' = gen]_vars
=============================================================================
