------------------------- MODULE CoordinatorProofs -------------------------
(* Proofs about ReconciliationCoordinator, for every value of its          *)
(* constants: any number of callers, tasks and connections.                *)
EXTENDS ReconciliationCoordinator, TLAPS

-----------------------------------------------------------------------------
(* The inductive invariant *)

\* a task that has not begun, or is over, holds no batch
IdleTasksHoldNothing ==
    \A t \in Tasks : task[t].pc \in {"none", "new"} => task[t].batch = EmptyBatch

\* the WebSocket waits only while its connection lives
MarketWaitsConnected == call[Market] = "waiting" => link = "up"

\* a run that will answer the WebSocket began in the current connection
MarketRunIsCurrent ==
    \A t \in Tasks :
        Running(t) /\ Market \in task[t].batch.waiters => task[t].began = gen

CoordinatorInv ==
    /\ TypeOK
    /\ SingleRun
    /\ IdleTasksHoldNothing
    /\ EachRequestHeldOnce
    /\ MarketWaitsConnected
    /\ MarketRunIsCurrent

-----------------------------------------------------------------------------
(* What the helpers return *)

LEMMA BatchFields ==
    ASSUME NEW b \in Batch
    PROVE  b.waiters \subseteq Callers /\ b.gen \in Nat
           /\ b.evidence \in BOOLEAN /\ b.force \in BOOLEAN
  BY DEF Batch

LEMMA EmptyBatchType == EmptyBatch \in Batch /\ EmptyBatch.waiters = {}
  BY DEF EmptyBatch, Batch

LEMMA NoTaskType ==
    /\ NoTask \in Task /\ NoTask.pc = "none" /\ NoTask.batch = EmptyBatch
    /\ [NoTask EXCEPT !.pc = "new"] \in Task
    /\ [NoTask EXCEPT !.pc = "new"].pc = "new"
    /\ [NoTask EXCEPT !.pc = "new"].batch = EmptyBatch
  BY EmptyBatchType DEF NoTask, Task

LEMMA OpenedType ==
    ASSUME NEW b \in Batch \cup {None}
    PROVE  /\ Opened(b) \in Batch
           /\ b = None => Opened(b) = EmptyBatch
           /\ b # None => Opened(b) = b
  BY EmptyBatchType DEF Opened

LEMMA JoinType ==
    ASSUME TypeOK, NEW b \in Batch, NEW c \in Callers
    PROVE  /\ Join(b, c) \in Batch
           /\ Join(b, c).waiters = b.waiters \cup {c}
           /\ Join(b, c) # None
           /\ Opened(Join(b, c)) = Join(b, c)
<1>1. gen \in Nat
  BY DEF TypeOK
<1>2. Join(b, c) \in Batch /\ Join(b, c).waiters = b.waiters \cup {c}
  BY <1>1, BatchFields DEF Join, Batch
<1> QED
  BY <1>2, CoordinatorAssumption DEF Opened

LEMMA WithoutType ==
    ASSUME NEW b \in Batch
    PROVE  /\ Without(b) \in Batch
           /\ Without(b).waiters = b.waiters \ {Market}
           /\ Without(b) # None
           /\ b.waiters = {} => Without(b) = b
<1>1. Without(b) \in Batch /\ Without(b).waiters = b.waiters \ {Market}
  BY DEF Without, Batch
<1>2. b.waiters = {} => Without(b) = b
  BY DEF Without, Batch
<1> QED
  BY <1>1, <1>2, CoordinatorAssumption

LEMMA FollowUpType ==
    ASSUME TypeOK
    PROVE  /\ FollowUp \in Batch
           /\ FollowUp.waiters = Opened(pending).waiters
           /\ FollowUp # None
<1>1. Opened(pending) \in Batch /\ gen \in Nat
  BY OpenedType DEF TypeOK
<1>2. FollowUp \in Batch /\ FollowUp.waiters = Opened(pending).waiters
  BY <1>1 DEF FollowUp, Batch
<1> QED
  BY <1>2, CoordinatorAssumption

LEMMA StartedType ==
    ASSUME TypeOK, NEW b \in Batch, NEW cool \in BOOLEAN
    PROVE  /\ Started(b, cool) \in Task
           /\ Started(b, cool).pc \in {"run", "sleep"}
           /\ Started(b, cool).batch = b
           /\ Started(b, cool).began = gen
  BY DEF Started, Task, TypeOK

\* where a task proceeds to: the next batch, which it takes over, or its end
LEMMA ProceedEffect ==
    ASSUME TypeOK, NEW t \in Tasks, NEW pend \in Batch \cup {None},
           NEW cool \in BOOLEAN, Proceed(t, pend, cool)
    PROVE  /\ pending' = None
           /\ cooling' \in BOOLEAN
           /\ task' \in [Tasks -> Task]
           /\ \A u \in Tasks : u # t => task'[u] = task[u]
           /\ task'[t].batch.waiters = Opened(pend).waiters
           /\ \/ task'[t] = NoTask /\ runner' = Released(t)
              \/ /\ task'[t].pc \in {"run", "sleep"}
                 /\ task'[t].began = gen
                 /\ runner' = runner
<1>1. task \in [Tasks -> Task]
  BY DEF TypeOK
<1>2. CASE pend = None
  <2>1. task' = [task EXCEPT ![t] = NoTask] /\ runner' = Released(t)
        /\ cooling' = cool /\ pending' = None
    BY <1>2 DEF Proceed
  <2>2. task' \in [Tasks -> Task] /\ task'[t] = NoTask
        /\ \A u \in Tasks : u # t => task'[u] = task[u]
    BY <1>1, <2>1, NoTaskType
  <2> QED
    BY <1>2, <2>1, <2>2, NoTaskType, OpenedType
<1>3. CASE pend # None
  <2>1. cooling' = (cool /\ ~pend.evidence) /\ pend \in Batch
        /\ task' = [task EXCEPT ![t] = Started(pend, cooling')]
        /\ runner' = runner /\ pending' = None
    BY <1>3 DEF Proceed
  <2>2. cooling' \in BOOLEAN
    BY <2>1
  <2>3. Started(pend, cooling') \in Task
        /\ Started(pend, cooling').pc \in {"run", "sleep"}
        /\ Started(pend, cooling').batch = pend
        /\ Started(pend, cooling').began = gen
    BY <2>1, <2>2, StartedType
  <2>4. task' \in [Tasks -> Task] /\ task'[t] = Started(pend, cooling')
        /\ \A u \in Tasks : u # t => task'[u] = task[u]
    BY <1>1, <2>1, <2>3
  <2> QED
    BY <1>3, <2>1, <2>2, <2>3, <2>4, OpenedType
<1> QED
  BY <1>2, <1>3

LEMMA SettleEffect ==
    ASSUME TypeOK, NEW S \in SUBSET Callers, NEW status \in {"answered", "failed"},
           Settle(S, status)
    PROVE  /\ call' \in [Callers -> Statuses]
           /\ link' \in {"down", "up", "open"}
           /\ \A c \in Callers : call'[c] = IF c \in S THEN status ELSE call[c]
           /\ Market \notin S => link' = link
           /\ link' = "open" => link = "open" \/ (Market \in S /\ status = "answered")
  BY CoordinatorAssumption DEF Settle, TypeOK, Statuses

LEMMA InitInv == Init => CoordinatorInv
<1> SUFFICES ASSUME Init PROVE CoordinatorInv
  OBVIOUS
<1>1. \A t \in Tasks : task[t] = NoTask
  BY DEF Init
<1>2. TypeOK
  BY <1>1, NoTaskType DEF Init, TypeOK, Statuses
<1>3. SingleRun /\ IdleTasksHoldNothing
  BY <1>1, NoTaskType DEF SingleRun, IdleTasksHoldNothing, Live
<1>4. EachRequestHeldOnce
  BY <1>1, NoTaskType, EmptyBatchType
     DEF EachRequestHeldOnce, Init, Opened
<1>5. MarketWaitsConnected /\ MarketRunIsCurrent
  BY <1>1, NoTaskType, CoordinatorAssumption
     DEF MarketWaitsConnected, MarketRunIsCurrent, Running, Init
<1> QED
  BY <1>2, <1>3, <1>4, <1>5 DEF CoordinatorInv

LEMMA IdleWaiters ==
    ASSUME IdleTasksHoldNothing, NEW t \in Tasks, task[t].pc \in {"none", "new"}
    PROVE  task[t].batch = EmptyBatch /\ task[t].batch.waiters = {}
  BY EmptyBatchType DEF IdleTasksHoldNothing

LEMMA TaskFields ==
    ASSUME TypeOK, NEW t \in Tasks
    PROVE  /\ task[t] \in Task
           /\ task[t].batch \in Batch
           /\ task[t].batch.waiters \subseteq Callers
           /\ task[t].pc \in {"none", "new", "run", "sleep"}
  BY BatchFields DEF TypeOK, Task

LEMMA PendingWaiters ==
    ASSUME TypeOK
    PROVE  /\ Opened(pending) \in Batch
           /\ Opened(pending).waiters \subseteq Callers
           /\ pending' = None => Opened(pending').waiters = {}
<1>1. Opened(pending) \in Batch
  BY OpenedType DEF TypeOK
<1>2. pending' = None => Opened(pending').waiters = {}
  BY EmptyBatchType DEF Opened
<1> QED
  BY <1>1, <1>2, BatchFields

-----------------------------------------------------------------------------
(* Each action keeps the invariant *)

LEMMA RequestInv ==
    ASSUME CoordinatorInv, NEW c \in Callers, Request(c)
    PROVE  CoordinatorInv'
<1> USE DEF CoordinatorInv
<1>1. /\ pending' = Join(Opened(pending), c)
      /\ pending' \in Batch
      /\ Opened(pending').waiters = Opened(pending).waiters \cup {c}
  <2>1. Opened(pending) \in Batch
    BY PendingWaiters
  <2>2. pending' = Join(Opened(pending), c)
    BY DEF Request
  <2> QED
    BY <2>1, <2>2, JoinType
<1>2. /\ task' \in [Tasks -> Task]
      /\ runner' \in Tasks \cup {None}
      /\ \A t \in Tasks : task'[t].batch = task[t].batch
      /\ \A t \in Tasks : task'[t] = task[t]
           \/ (task[t].pc = "none" /\ task'[t].pc = "new" /\ task'[t].batch = EmptyBatch)
      /\ SingleRun'
  <2>1. CASE ~Idle /\ UNCHANGED <<runner, task>>
    BY <2>1 DEF TypeOK, SingleRun, Live
  <2>2. CASE Idle /\ StartRunner
    <3>1. PICK t \in Tasks : ~Live(t) /\ runner' = t
            /\ task' = [task EXCEPT ![t] = [NoTask EXCEPT !.pc = "new"]]
      BY <2>2 DEF StartRunner
    <3>2. \A u \in Tasks : ~Live(u)
      BY <2>2 DEF Idle, SingleRun
    <3>3. task'[t] = [NoTask EXCEPT !.pc = "new"]
          /\ \A u \in Tasks : u # t => task'[u] = task[u]
      BY <3>1 DEF TypeOK
    <3>4. task[t].pc = "none" /\ task[t].batch = EmptyBatch
          /\ task'[t].pc = "new" /\ task'[t].batch = EmptyBatch
      BY <3>1, <3>3, NoTaskType, IdleWaiters DEF Live
    <3>5. task' \in [Tasks -> Task]
      BY <3>1, NoTaskType DEF TypeOK
    <3>6. SingleRun'
      BY <3>1, <3>2, <3>3 DEF SingleRun, Live
    <3> QED
      BY <3>1, <3>3, <3>4, <3>5, <3>6
  <2> QED
    BY <2>1, <2>2 DEF Request, EnsureRunner
<1>3. /\ call[c] # "waiting" /\ (c = Market => link = "up")
      /\ call' = [call EXCEPT ![c] = "waiting"]
      /\ UNCHANGED <<cooling, stopping, gen, link, ready>>
  BY DEF Request, Asks
<1>4. TypeOK'
  BY <1>1, <1>2, <1>3 DEF TypeOK, Statuses
<1>5. IdleTasksHoldNothing'
  BY <1>2 DEF IdleTasksHoldNothing
<1>6. EachRequestHeldOnce'
  <2>1. \A t \in Tasks : c \notin task[t].batch.waiters
    BY <1>3 DEF EachRequestHeldOnce
  <2>2. \A d \in Callers : call'[d] = IF d = c THEN "waiting" ELSE call[d]
    BY <1>3 DEF TypeOK
  <2> QED
    BY <1>1, <1>2, <2>1, <2>2 DEF EachRequestHeldOnce
<1>7. MarketWaitsConnected'
  BY <1>3, CoordinatorAssumption DEF MarketWaitsConnected, TypeOK
<1>8. MarketRunIsCurrent'
  BY <1>2, <1>3 DEF MarketRunIsCurrent, Running
<1> QED
  BY <1>2, <1>4, <1>5, <1>6, <1>7, <1>8

(* A task proceeds: pend is what it finds pending, the callers in S are    *)
(* answered and hold no request any more.                                  *)
LEMMA ProceedInv ==
    ASSUME CoordinatorInv, NEW t \in Tasks, Live(t),
           NEW pend \in Batch \cup {None}, NEW cool \in BOOLEAN,
           Opened(pend).waiters = Opened(pending).waiters,
           Proceed(t, pend, cool),
           Settle(task[t].batch.waiters, "answered"),
           ready' \in Nat \cup {None}, UNCHANGED <<stopping, gen>>
    PROVE  CoordinatorInv'
<1> USE DEF CoordinatorInv
<1> DEFINE S == task[t].batch.waiters
<1>1. /\ pending' = None
      /\ cooling' \in BOOLEAN
      /\ task' \in [Tasks -> Task]
      /\ \A u \in Tasks : u # t => task'[u] = task[u]
      /\ task'[t].batch.waiters = Opened(pending).waiters
      /\ \/ task'[t] = NoTask /\ runner' = Released(t)
         \/ /\ task'[t].pc \in {"run", "sleep"}
            /\ task'[t].began = gen
            /\ runner' = runner
  BY ProceedEffect
<1>2. S \subseteq Callers
  BY TaskFields
<1>3. /\ call' \in [Callers -> Statuses]
      /\ link' \in {"down", "up", "open"}
      /\ \A c \in Callers : call'[c] = IF c \in S THEN "answered" ELSE call[c]
      /\ Market \notin S => link' = link
  BY <1>2, SettleEffect
<1>4. runner = t /\ \A u \in Tasks : u # t => task[u].pc = "none"
  BY DEF SingleRun, Live
<1>5. \A u \in Tasks : u # t => task[u].batch.waiters = {}
  BY <1>4, IdleWaiters
<1>6. TypeOK'
  <2>1. runner' \in Tasks \cup {None}
    BY <1>1 DEF Released, TypeOK
  <2> QED
    BY <1>1, <1>3, <2>1 DEF TypeOK
<1>7. SingleRun'
  BY <1>1, <1>4, NoTaskType DEF SingleRun, Live
<1>8. IdleTasksHoldNothing'
  BY <1>1, NoTaskType DEF IdleTasksHoldNothing
<1>9. EachRequestHeldOnce'
  <2>1. Opened(pending').waiters = {}
    BY <1>1, PendingWaiters
  <2>2. \A c \in Callers :
          (\E u \in Tasks : c \in task'[u].batch.waiters)
            <=> c \in Opened(pending).waiters
    BY <1>1, <1>5
  <2>3. \A c \in Callers : c \in Opened(pending).waiters => c \notin S
    BY DEF EachRequestHeldOnce
  <2>4. \A c \in Callers : call[c] = "waiting"
          <=> c \in Opened(pending).waiters \/ c \in S
    BY <1>5 DEF EachRequestHeldOnce
  <2> HIDE DEF S
  <2>5. \A c \in Callers : call'[c] = "waiting" <=> c \in Opened(pending).waiters
    BY <1>3, <2>3, <2>4
  <2> QED
    BY <2>1, <2>2, <2>5 DEF EachRequestHeldOnce
<1>10. MarketWaitsConnected'
  BY <1>3, CoordinatorAssumption DEF MarketWaitsConnected
<1>11. MarketRunIsCurrent'
  BY <1>1, <1>4, NoTaskType DEF MarketRunIsCurrent, Running
<1> QED
  BY <1>6, <1>7, <1>8, <1>9, <1>10, <1>11

LEMMA FirstStepInv ==
    ASSUME CoordinatorInv, NEW t \in Tasks, FirstStep(t)
    PROVE  CoordinatorInv'
<1>1. TypeOK /\ IdleTasksHoldNothing
  BY DEF CoordinatorInv
<1>2. task[t].pc = "new" /\ Proceed(t, pending, cooling)
      /\ UNCHANGED <<stopping, gen, link, call, ready>>
  BY DEF FirstStep
<1>3. task[t].batch.waiters = {}
  BY <1>1, <1>2, IdleWaiters
<1>4. Settle({}, "answered")
  BY <1>1, <1>2 DEF Settle, TypeOK
<1>5. Settle(task[t].batch.waiters, "answered")
  BY <1>3, <1>4
<1>6. Live(t)
  BY <1>2 DEF Live
<1>7. pending \in Batch \cup {None} /\ cooling \in BOOLEAN
      /\ ready' \in Nat \cup {None}
  BY <1>1, <1>2 DEF TypeOK
<1> QED
  BY <1>2, <1>5, <1>6, <1>7, ProceedInv

LEMMA FinishInv ==
    ASSUME CoordinatorInv, NEW t \in Tasks,
           NEW outcome \in {"ok", "gaps", "failed"}, Finish(t, outcome)
    PROVE  CoordinatorInv'
<1> DEFINE stale == outcome = "ok" /\ ~Current(task[t].batch)
           pend == IF stale THEN FollowUp ELSE pending
           cool == outcome # "ok"
<1>1. TypeOK
  BY DEF CoordinatorInv
<1>2. /\ Live(t)
      /\ Settle(task[t].batch.waiters, "answered")
      /\ Proceed(t, pend, cool)
      /\ UNCHANGED <<stopping, gen>>
  BY DEF Finish, Running, Live
<1>3. ready' \in Nat \cup {None}
  BY <1>1, TaskFields DEF Finish, TypeOK, Task
<1>4. pend \in Batch \cup {None} /\ Opened(pend).waiters = Opened(pending).waiters
  <2>1. CASE stale
    BY <1>1, <2>1, FollowUpType, OpenedType
  <2>2. CASE ~stale
    BY <1>1, <2>2 DEF TypeOK
  <2> QED
    BY <2>1, <2>2
<1>5. cool \in BOOLEAN
  OBVIOUS
<1> HIDE DEF pend, cool
<1> QED
  BY <1>2, <1>3, <1>4, <1>5, ProceedInv

LEMMA WakeInv ==
    ASSUME CoordinatorInv, NEW t \in Tasks, Wake(t)
    PROVE  CoordinatorInv'
<1> USE DEF CoordinatorInv
<1>1. /\ task[t].pc = "sleep"
      /\ task' = [task EXCEPT ![t] = Started(task[t].batch, cooling)]
      /\ UNCHANGED <<pending, runner, cooling, stopping, gen, link, call, ready>>
  BY DEF Wake
<1>2. task[t].batch \in Batch /\ cooling \in BOOLEAN
  BY TaskFields DEF TypeOK
<1>3. /\ task' \in [Tasks -> Task]
      /\ \A u \in Tasks : u # t => task'[u] = task[u]
      /\ \A u \in Tasks : task'[u].batch = task[u].batch
      /\ task'[t].pc \in {"run", "sleep"}
      /\ task'[t].began = gen
  BY <1>1, <1>2, StartedType DEF TypeOK
<1>4. TypeOK'
  BY <1>1, <1>3 DEF TypeOK
<1>5. SingleRun'
  BY <1>1, <1>3 DEF SingleRun, Live
<1>6. IdleTasksHoldNothing'
  BY <1>3 DEF IdleTasksHoldNothing
<1>7. EachRequestHeldOnce' /\ MarketWaitsConnected'
  BY <1>1, <1>3 DEF EachRequestHeldOnce, MarketWaitsConnected
<1>8. MarketRunIsCurrent'
  BY <1>1, <1>3 DEF MarketRunIsCurrent, Running
<1> QED
  BY <1>4, <1>5, <1>6, <1>7, <1>8

(* A task ends and the callers in S with it: those of its batch and, at a  *)
(* shutdown, those that are pending.                                       *)
LEMMA TaskEndInv ==
    ASSUME CoordinatorInv, NEW t \in Tasks, Live(t),
           task' = [task EXCEPT ![t] = NoTask],
           runner' = Released(t),
           \/ /\ pending' = pending
              /\ Settle(task[t].batch.waiters, "failed")
           \/ /\ pending' = None
              /\ Settle(task[t].batch.waiters \cup Opened(pending).waiters, "failed"),
           UNCHANGED <<cooling, stopping, gen, ready>>
    PROVE  CoordinatorInv'
<1> USE DEF CoordinatorInv
<1> DEFINE B == task[t].batch.waiters
           P == Opened(pending).waiters
           Q == Opened(pending').waiters
<1>1. runner = t /\ \A u \in Tasks : u # t => task[u].pc = "none"
  BY DEF SingleRun, Live
<1>2. /\ task' \in [Tasks -> Task] /\ task'[t] = NoTask
      /\ \A u \in Tasks : u # t => task'[u] = task[u]
  BY NoTaskType DEF TypeOK
<1>3. \A u \in Tasks : task'[u].pc = "none" /\ task'[u].batch.waiters = {}
  BY <1>1, <1>2, NoTaskType, EmptyBatchType, IdleWaiters
<1>4. PICK S \in SUBSET Callers :
        /\ Settle(S, "failed")
        /\ \/ pending' = pending /\ S = B
           \/ pending' = None /\ S = B \cup P
  BY TaskFields, PendingWaiters
<1>5. /\ call' \in [Callers -> Statuses]
      /\ link' \in {"down", "up", "open"}
      /\ \A c \in Callers : call'[c] = IF c \in S THEN "failed" ELSE call[c]
      /\ Market \notin S => link' = link
  BY <1>4, SettleEffect
<1>6. TypeOK'
  BY <1>1, <1>2, <1>4, <1>5 DEF TypeOK, Released
<1>7. SingleRun' /\ IdleTasksHoldNothing'
  <2>1. SingleRun'
    BY <1>3 DEF SingleRun, Live
  <2>2. IdleTasksHoldNothing'
    BY <1>1, <1>2, NoTaskType DEF IdleTasksHoldNothing
  <2> QED
    BY <2>1, <2>2
<1>8. EachRequestHeldOnce'
  <2>1. \A c \in Callers : call[c] = "waiting" <=> c \in P \/ c \in B
    <3>1. \A u \in Tasks : u # t => task[u].batch.waiters = {}
      BY <1>1, IdleWaiters
    <3> QED
      BY <3>1 DEF EachRequestHeldOnce
  <2>2. B \cap P = {}
    BY DEF EachRequestHeldOnce
  <2>3. Q = IF pending' = None THEN {} ELSE P
    <3>1. pending' = None => Q = {}
      BY PendingWaiters
    <3>2. pending' # None => pending' = pending
      BY <1>4
    <3> QED
      BY <3>1, <3>2
  <2>4. S = B \cup IF pending' = None THEN P ELSE {}
    <3>1. pending = None => P = {}
      BY EmptyBatchType DEF Opened
    <3> HIDE DEF B, P
    <3> QED
      BY <1>4, <3>1
  <2> HIDE DEF B, P, Q
  <2>5. \A c \in Callers : call'[c] = "waiting" <=> c \in Q
    BY <1>4, <1>5, <2>1, <2>2, <2>3, <2>4
  <2> USE DEF Q
  <2> QED
    BY <1>3, <2>5 DEF EachRequestHeldOnce
<1>9. MarketWaitsConnected'
  BY <1>5, CoordinatorAssumption DEF MarketWaitsConnected
<1>10. MarketRunIsCurrent'
  BY <1>3 DEF MarketRunIsCurrent, Running
<1> QED
  BY <1>6, <1>7, <1>8, <1>9, <1>10

LEMMA RaiseInv ==
    ASSUME CoordinatorInv, NEW t \in Tasks, Raise(t)
    PROVE  CoordinatorInv'
<1>1. Live(t)
  BY DEF Raise, Running, Live
<1> QED
  BY <1>1, TaskEndInv DEF Raise

LEMMA CancelledInv ==
    ASSUME CoordinatorInv, NEW t \in Tasks, Cancelled(t)
    PROVE  CoordinatorInv'
<1> USE DEF CoordinatorInv
<1>1. runner = t
  BY DEF Cancelled, SingleRun
<1>2. CASE task[t].pc # "new"
  <2>1. /\ Live(t) /\ task' = [task EXCEPT ![t] = NoTask]
        /\ Settle(task[t].batch.waiters \cup Opened(pending).waiters, "failed")
        /\ pending' = None /\ runner' = Released(t)
        /\ UNCHANGED <<cooling, stopping, gen, ready>>
    BY <1>1, <1>2 DEF Cancelled
  <2> QED
    BY <2>1, TaskEndInv
<1>3. CASE task[t].pc = "new"
  <2>1. /\ task' = [task EXCEPT ![t] = NoTask]
        /\ UNCHANGED <<pending, runner, call, link, cooling, stopping, gen, ready>>
    BY <1>3 DEF Cancelled
  <2>2. /\ task' \in [Tasks -> Task] /\ task'[t] = NoTask
        /\ \A u \in Tasks : u # t => task'[u] = task[u]
    BY <2>1, NoTaskType DEF TypeOK
  <2>3. \A u \in Tasks : task'[u].batch = task[u].batch
    BY <1>3, <2>2, NoTaskType, IdleWaiters
  <2>4. TypeOK' /\ SingleRun' /\ IdleTasksHoldNothing'
    <3>1. TypeOK'
      BY <2>1, <2>2 DEF TypeOK
    <3>2. SingleRun'
      BY <2>1, <2>2, NoTaskType DEF SingleRun, Live
    <3>3. IdleTasksHoldNothing'
      BY <2>2, NoTaskType DEF IdleTasksHoldNothing
    <3> QED
      BY <3>1, <3>2, <3>3
  <2>5. EachRequestHeldOnce' /\ MarketWaitsConnected'
    BY <2>1, <2>3 DEF EachRequestHeldOnce, MarketWaitsConnected
  <2>6. MarketRunIsCurrent'
    BY <2>1, <2>2, NoTaskType DEF MarketRunIsCurrent, Running
  <2> QED
    BY <2>4, <2>5, <2>6
<1> QED
  BY <1>2, <1>3

LEMMA RefuseInv ==
    ASSUME CoordinatorInv, NEW c \in Callers, RefuseRequest(c)
    PROVE  CoordinatorInv'
<1> USE DEF CoordinatorInv
<1>1. /\ Settle({c}, "failed") /\ call[c] # "waiting"
      /\ UNCHANGED <<batchVars, cooling, stopping, gen, ready>>
  BY DEF RefuseRequest, Asks
<1>2. /\ call' \in [Callers -> Statuses]
      /\ link' \in {"down", "up", "open"}
      /\ \A d \in Callers : call'[d] = IF d = c THEN "failed" ELSE call[d]
      /\ Market # c => link' = link
  BY <1>1, SettleEffect
<1>3. TypeOK'
  BY <1>1, <1>2 DEF TypeOK, batchVars
<1>4. SingleRun' /\ IdleTasksHoldNothing' /\ MarketRunIsCurrent'
  BY <1>1 DEF SingleRun, Live, IdleTasksHoldNothing, MarketRunIsCurrent, Running, batchVars
<1>5. EachRequestHeldOnce'
  BY <1>1, <1>2 DEF EachRequestHeldOnce, batchVars
<1>6. MarketWaitsConnected'
  BY <1>2, CoordinatorAssumption DEF MarketWaitsConnected
<1> QED
  BY <1>3, <1>4, <1>5, <1>6

LEMMA DisconnectInv ==
    ASSUME CoordinatorInv, Disconnect
    PROVE  CoordinatorInv'
<1> USE DEF CoordinatorInv
<1>1. /\ link' = "down"
      /\ call' = [call EXCEPT ![Market] = IF @ = "waiting" THEN "idle" ELSE @]
      /\ pending' = IF pending = None THEN None ELSE Without(pending)
      /\ task' = [t \in Tasks |-> [task[t] EXCEPT !.batch = Without(@)]]
      /\ UNCHANGED <<runner, cooling, stopping, gen, ready>>
  BY DEF Disconnect
<1>2. /\ call' \in [Callers -> Statuses]
      /\ call'[Market] # "waiting"
      /\ \A c \in Callers : c # Market => call'[c] = call[c]
  BY <1>1, CoordinatorAssumption DEF TypeOK, Statuses
<1>3. pending' \in Batch \cup {None}
      /\ Opened(pending').waiters = Opened(pending).waiters \ {Market}
  <2>1. CASE pending = None
    BY <1>1, <2>1, EmptyBatchType DEF Opened
  <2>2. CASE pending # None
    BY <1>1, <2>2, WithoutType DEF Opened, TypeOK
  <2> QED
    BY <2>1, <2>2
<1>4. \A t \in Tasks :
        /\ task'[t] \in Task /\ task'[t].pc = task[t].pc
        /\ task'[t].began = task[t].began
        /\ task'[t].batch = Without(task[t].batch)
        /\ task'[t].batch.waiters = task[t].batch.waiters \ {Market}
  <2> TAKE t \in Tasks
  <2>1. task'[t] = [task[t] EXCEPT !.batch = Without(task[t].batch)]
    BY <1>1
  <2>2. task[t] \in Task /\ Without(task[t].batch) \in Batch
        /\ Without(task[t].batch).waiters = task[t].batch.waiters \ {Market}
    BY TaskFields, WithoutType
  <2> QED
    BY <2>1, <2>2 DEF Task
<1>5. TypeOK'
  BY <1>1, <1>2, <1>3, <1>4 DEF TypeOK
<1>6. SingleRun' /\ IdleTasksHoldNothing'
  <2>1. SingleRun'
    BY <1>1, <1>4 DEF SingleRun, Live
  <2>2. IdleTasksHoldNothing'
    BY <1>4, WithoutType, EmptyBatchType DEF IdleTasksHoldNothing
  <2> QED
    BY <2>1, <2>2
<1>7. EachRequestHeldOnce'
  BY <1>2, <1>3, <1>4 DEF EachRequestHeldOnce
<1>8. MarketWaitsConnected' /\ MarketRunIsCurrent'
  BY <1>2, <1>4 DEF MarketWaitsConnected, MarketRunIsCurrent, Running
<1> QED
  BY <1>5, <1>6, <1>7, <1>8

LEMMA ConnectInv ==
    ASSUME CoordinatorInv, Connect
    PROVE  CoordinatorInv'
<1> USE DEF CoordinatorInv
<1>1. /\ link = "down" /\ link' = "up" /\ gen' = gen + 1
      /\ UNCHANGED <<batchVars, cooling, stopping, call, ready>>
  BY DEF Connect
<1>2. call[Market] # "waiting"
  BY <1>1 DEF MarketWaitsConnected
<1>3. \A t \in Tasks : Market \notin task[t].batch.waiters
  BY <1>2, CoordinatorAssumption DEF EachRequestHeldOnce
<1>4. TypeOK'
  BY <1>1 DEF TypeOK, batchVars
<1>5. SingleRun' /\ IdleTasksHoldNothing' /\ EachRequestHeldOnce'
  BY <1>1 DEF SingleRun, Live, IdleTasksHoldNothing, EachRequestHeldOnce, batchVars
<1>6. MarketWaitsConnected' /\ MarketRunIsCurrent'
  BY <1>1, <1>2, <1>3 DEF MarketWaitsConnected, MarketRunIsCurrent, Running, batchVars
<1> QED
  BY <1>4, <1>5, <1>6

LEMMA QuietInv ==
    ASSUME CoordinatorInv, Stop \/ CoolDown \/ UNCHANGED vars
    PROVE  CoordinatorInv'
<1> USE DEF CoordinatorInv
<1>1. /\ UNCHANGED <<pending, runner, task, gen, link, call, ready>>
      /\ cooling' \in BOOLEAN /\ stopping' \in BOOLEAN
  BY DEF Stop, CoolDown, vars, batchVars, TypeOK
<1>2. TypeOK'
  BY <1>1 DEF TypeOK
<1>3. SingleRun' /\ IdleTasksHoldNothing' /\ MarketRunIsCurrent'
  BY <1>1 DEF SingleRun, Live, IdleTasksHoldNothing, MarketRunIsCurrent, Running
<1>4. EachRequestHeldOnce' /\ MarketWaitsConnected'
  BY <1>1 DEF EachRequestHeldOnce, MarketWaitsConnected
<1> QED
  BY <1>2, <1>3, <1>4

LEMMA NextInv == CoordinatorInv /\ [Next]_vars => CoordinatorInv'
<1> SUFFICES ASSUME CoordinatorInv, [Next]_vars PROVE CoordinatorInv'
  OBVIOUS
<1>1. ASSUME NEW c \in Callers, Request(c) \/ RefuseRequest(c)
      PROVE  CoordinatorInv'
  BY <1>1, RequestInv, RefuseInv
<1>2. ASSUME NEW t \in Tasks, TaskStep(t) PROVE CoordinatorInv'
  BY <1>2, FirstStepInv, WakeInv, RaiseInv, FinishInv, CancelledInv
     DEF TaskStep, EndRun
<1>3. CASE Connect \/ Disconnect
  BY <1>3, ConnectInv, DisconnectInv
<1>4. CASE Stop \/ CoolDown \/ UNCHANGED vars
  BY <1>4, QuietInv
<1> QED
  BY <1>1, <1>2, <1>3, <1>4 DEF Next

(* The invariant that the theorems below rest on.                          *)
THEOREM InvariantHolds == Spec => []CoordinatorInv
<1> QED
  BY InitInv, NextInv, PTL DEF Spec

(* The state of the coordinator is well-formed in every reachable state.   *)
THEOREM TypeCorrect == Spec => []TypeOK
<1>1. CoordinatorInv => TypeOK
  BY DEF CoordinatorInv
<1> QED
  BY <1>1, InvariantHolds, PTL

(* The worker never runs twice at a time, whatever requests, exceptions    *)
(* and shutdown do to pending and runner.                                  *)
THEOREM SingleRunTheorem == Spec => []SingleRun
<1>1. CoordinatorInv => SingleRun
  BY DEF CoordinatorInv
<1> QED
  BY <1>1, InvariantHolds, PTL

(* No request is lost and none is held twice while batches are taken,      *)
(* merged with a follow-up, answered, failed or cancelled.                 *)
THEOREM EachRequestHeldOnceTheorem == Spec => []EachRequestHeldOnce
<1>1. CoordinatorInv => EachRequestHeldOnce
  BY DEF CoordinatorInv
<1> QED
  BY <1>1, InvariantHolds, PTL

(* Only a run that began in the connection opens its stream to the         *)
(* strategy.                                                               *)
THEOREM OpenedByOwnRunTheorem == Spec => OpenedByOwnRun
<1> DEFINE Opens == link # "open" /\ link' = "open"
           ByOwnRun == \E t \in Tasks : Running(t) /\ task[t].began = gen
<1>1. ASSUME CoordinatorInv, [Next]_vars, Opens
      PROVE  ByOwnRun
  <2>1. \A c \in Callers : ~Request(c)
    BY <1>1 DEF Request
  <2>2. \A c \in Callers : ~RefuseRequest(c)
    BY <1>1, CoordinatorAssumption DEF RefuseRequest, Settle
  <2>3. \A t \in Tasks : ~FirstStep(t) /\ ~Wake(t)
    BY <1>1 DEF FirstStep, Wake
  <2>4. \A t \in Tasks : ~Raise(t) /\ ~Cancelled(t)
    BY <1>1, CoordinatorAssumption DEF Raise, Cancelled, Settle
  <2>5. ~Stop /\ ~Connect /\ ~Disconnect /\ ~CoolDown /\ ~UNCHANGED vars
    BY <1>1 DEF Stop, Connect, Disconnect, CoolDown, vars
  <2>6. PICK t \in Tasks, outcome \in {"ok", "gaps", "failed"} : Finish(t, outcome)
    BY <1>1, <2>1, <2>2, <2>3, <2>4, <2>5 DEF Next, TaskStep, EndRun
  <2>7. Running(t) /\ Settle(task[t].batch.waiters, "answered")
    BY <2>6 DEF Finish
  <2>8. Market \in task[t].batch.waiters
    BY <1>1, <2>7 DEF Settle
  <2> QED
    BY <1>1, <2>7, <2>8 DEF CoordinatorInv, MarketRunIsCurrent
<1>2. CoordinatorInv /\ [Next]_vars => [Opens => ByOwnRun]_vars
  BY <1>1
<1> QED
  BY <1>2, InvariantHolds, PTL DEF Spec, OpenedByOwnRun

-----------------------------------------------------------------------------
(* The coordinator implements LaterRun *)

LEMMA ServingWaits == CoordinatorInv => Serving \subseteq Waiting
  BY DEF CoordinatorInv, EachRequestHeldOnce, Serving, Waiting

(* Only one task runs, and its batch is whom it serves.                    *)
LEMMA ServingOf ==
    ASSUME CoordinatorInv, NEW t \in Tasks, Live(t)
    PROVE  /\ Running(t) => Serving = task[t].batch.waiters
           /\ ~Running(t) => Serving = {}
<1>1. \A u \in Tasks : Running(u) => u = t
  BY DEF CoordinatorInv, SingleRun, Running, Live
<1>2. task[t].batch.waiters \subseteq Callers
  BY TaskFields DEF CoordinatorInv
<1> QED
  BY <1>1, <1>2 DEF Serving

LEMMA TurnStep ==
    ASSUME CoordinatorInv', NEW done \in SUBSET Serving,
           Waiting' = Waiting \ done, Answered' = Answered \cup done
    PROVE  Later!Turn
<1>1. Serving' \subseteq Waiting'
  BY DEF CoordinatorInv, EachRequestHeldOnce, Serving, Waiting
<1> QED
  BY <1>1 DEF Later!Turn

LEMMA FailStep ==
    ASSUME CoordinatorInv, NEW S \in SUBSET Callers, S \subseteq Waiting,
           Settle(S, "failed")
    PROVE  Waiting' = Waiting \ S /\ Answered' = Answered
<1>1. \A c \in Callers : call'[c] = IF c \in S THEN "failed" ELSE call[c]
  BY SettleEffect DEF CoordinatorInv
<1>2. \A c \in S : call[c] = "waiting"
  BY DEF Waiting
<1> QED
  BY <1>1, <1>2 DEF Waiting, Answered

LEMMA RequestLater ==
    ASSUME CoordinatorInv, NEW c \in Callers, Request(c)
    PROVE  Later!Ask(c)
<1>1. call[c] # "waiting" /\ \A d \in Callers :
        call'[d] = IF d = c THEN "waiting" ELSE call[d]
  BY DEF Request, Asks, CoordinatorInv, TypeOK
<1>2. Waiting' = Waiting \cup {c} /\ Answered' = Answered \ {c} /\ c \notin Waiting
  BY <1>1 DEF Waiting, Answered
<1>3. \A t \in Tasks : Running(t)' = Running(t)
        /\ (Running(t) => task'[t].batch = task[t].batch)
  <2>1. CASE UNCHANGED <<runner, task>>
    BY <2>1 DEF Running
  <2>2. CASE StartRunner
    <3>1. PICK t \in Tasks : ~Live(t)
            /\ task' = [task EXCEPT ![t] = [NoTask EXCEPT !.pc = "new"]]
      BY <2>2 DEF StartRunner
    <3>2. task'[t] = [NoTask EXCEPT !.pc = "new"]
          /\ \A u \in Tasks : u # t => task'[u] = task[u]
      BY <3>1 DEF CoordinatorInv, TypeOK
    <3>3. ~Running(t) /\ ~Running(t)'
      BY <3>1, <3>2, NoTaskType DEF Live, Running
    <3> QED
      BY <3>2, <3>3 DEF Running
  <2> QED
    BY <2>1, <2>2 DEF Request, EnsureRunner
<1>4. Serving' = Serving
  BY <1>3 DEF Serving
<1> QED
  BY <1>2, <1>4 DEF Later!Ask

LEMMA RefuseLater ==
    ASSUME CoordinatorInv, NEW c \in Callers, RefuseRequest(c)
    PROVE  Later!Refuse(c)
<1>1. call[c] # "waiting" /\ \A d \in Callers :
        call'[d] = IF d = c THEN "failed" ELSE call[d]
  BY SettleEffect DEF RefuseRequest, Asks, CoordinatorInv
<1>2. Waiting' = Waiting /\ Answered' = Answered \ {c} /\ c \notin Waiting
  BY <1>1 DEF Waiting, Answered
<1>3. Serving' = Serving
  BY DEF RefuseRequest, batchVars, Serving, Running
<1> QED
  BY <1>2, <1>3 DEF Later!Refuse

LEMMA SilentTurn ==
    ASSUME CoordinatorInv', UNCHANGED call
    PROVE  Later!Turn
<1>1. Waiting' = Waiting \ {} /\ Answered' = Answered \cup {}
  BY DEF Waiting, Answered
<1>2. {} \in SUBSET Serving
  OBVIOUS
<1> QED
  BY <1>1, <1>2, TurnStep, Zenon

LEMMA FinishLater ==
    ASSUME CoordinatorInv, CoordinatorInv', NEW t \in Tasks,
           NEW outcome \in {"ok", "gaps", "failed"}, Finish(t, outcome)
    PROVE  Later!Turn
<1>1. Running(t) /\ Settle(task[t].batch.waiters, "answered")
  BY DEF Finish
<1>2. Serving = task[t].batch.waiters /\ Serving \subseteq Callers
  BY <1>1, ServingOf DEF Running, Live, Serving
<1>3. \A c \in Callers : call'[c] = IF c \in Serving THEN "answered" ELSE call[c]
  BY <1>1, <1>2, SettleEffect DEF CoordinatorInv
<1>4. Waiting' = Waiting \ Serving /\ Answered' = Answered \cup Serving
  BY <1>2, <1>3 DEF Waiting, Answered
<1> QED
  BY <1>4, TurnStep

(* A task that ends takes its batch, or also the pending requests, with it. *)
LEMMA TaskEndLater ==
    ASSUME CoordinatorInv, NEW t \in Tasks, Live(t),
           task' = [task EXCEPT ![t] = NoTask],
           NEW S \in SUBSET Callers, task[t].batch.waiters \subseteq S,
           S \subseteq task[t].batch.waiters \cup Opened(pending).waiters,
           Settle(S, "failed")
    PROVE  Later!GiveUp
<1>1. S \subseteq Waiting
  BY DEF CoordinatorInv, EachRequestHeldOnce, Waiting
<1>2. Waiting' = Waiting \ S /\ Answered' = Answered
  BY <1>1, FailStep
<1>3. \A u \in Tasks : ~Running(u)'
  <2>1. task'[t] = NoTask /\ \A u \in Tasks : u # t => task'[u] = task[u]
    BY DEF CoordinatorInv, TypeOK
  <2> QED
    BY <2>1, NoTaskType DEF CoordinatorInv, SingleRun, Live, Running
<1>4. Serving' = {}
  BY <1>3 DEF Serving
<1>5. Serving \ S = {}
  BY ServingOf
<1> QED
  BY <1>1, <1>2, <1>4, <1>5 DEF Later!GiveUp

LEMMA CancelledLater ==
    ASSUME CoordinatorInv, NEW t \in Tasks, Cancelled(t)
    PROVE  Later!GiveUp \/ UNCHANGED <<Waiting, Serving, Answered>>
<1>1. Live(t) /\ task' = [task EXCEPT ![t] = NoTask] /\ runner = t
  BY DEF Cancelled, CoordinatorInv, SingleRun
<1>2. CASE task[t].pc = "new"
  <2>1. task'[t] = NoTask /\ \A u \in Tasks : u # t => task'[u] = task[u]
    BY <1>1 DEF CoordinatorInv, TypeOK
  <2>2. UNCHANGED call
    BY <1>2 DEF Cancelled
  <2>3. \A u \in Tasks : ~Running(u) /\ ~Running(u)'
    BY <1>1, <1>2, <2>1, NoTaskType DEF CoordinatorInv, SingleRun, Live, Running
  <2> QED
    BY <2>2, <2>3 DEF Waiting, Serving, Answered
<1>3. CASE task[t].pc # "new"
  <2>1. Settle(task[t].batch.waiters \cup Opened(pending).waiters, "failed")
    BY <1>1, <1>3 DEF Cancelled
  <2>2. task[t].batch.waiters \cup Opened(pending).waiters \subseteq Callers
    BY TaskFields, PendingWaiters DEF CoordinatorInv
  <2> QED
    BY <1>1, <2>1, <2>2, TaskEndLater
<1> QED
  BY <1>2, <1>3

LEMMA RaiseLater ==
    ASSUME CoordinatorInv, NEW t \in Tasks, Raise(t)
    PROVE  Later!GiveUp
<1>1. Live(t) /\ Settle(task[t].batch.waiters, "failed")
      /\ task' = [task EXCEPT ![t] = NoTask]
  BY DEF Raise, Running, Live
<1>2. task[t].batch.waiters \subseteq Callers
  BY TaskFields DEF CoordinatorInv
<1> QED
  BY <1>1, <1>2, TaskEndLater

LEMMA DisconnectLater ==
    ASSUME CoordinatorInv, Disconnect
    PROVE  Later!GiveUp
<1> DEFINE lost == Waiting \cap {Market}
<1>1. \A c \in Callers : call'[c] =
        IF c = Market /\ call[c] = "waiting" THEN "idle" ELSE call[c]
  BY CoordinatorAssumption DEF Disconnect, CoordinatorInv, TypeOK
<1>2. Waiting' = Waiting \ lost /\ Answered' = Answered
  BY <1>1 DEF Waiting, Answered
<1>3. \A t \in Tasks : Running(t)' = Running(t)
        /\ task'[t].batch.waiters = task[t].batch.waiters \ {Market}
  <2> TAKE t \in Tasks
  <2>1. task'[t] = [task[t] EXCEPT !.batch = Without(task[t].batch)]
    BY DEF Disconnect
  <2>2. task[t] \in Task
        /\ Without(task[t].batch).waiters = task[t].batch.waiters \ {Market}
    BY TaskFields, WithoutType DEF CoordinatorInv
  <2> QED
    BY <2>1, <2>2 DEF Running, Task
<1>4. Serving' = Serving \ {Market}
  BY <1>3 DEF Serving
<1>5. Serving' = Serving \ lost
  BY <1>4, ServingWaits
<1> QED
  BY <1>2, <1>5 DEF Later!GiveUp

LEMMA QuietLater ==
    ASSUME Stop \/ CoolDown \/ Connect \/ UNCHANGED vars
    PROVE  UNCHANGED <<Waiting, Serving, Answered>>
<1>1. UNCHANGED <<task, call>>
  BY DEF Stop, CoolDown, Connect, vars, batchVars
<1> QED
  BY <1>1 DEF Waiting, Serving, Answered, Running

(* Coalescing keeps the promise of LaterRun: a request is answered only by *)
(* a run that began after it, and whom a run answers is settled when it    *)
(* begins.                                                                 *)
THEOREM CoordinatorImplementsLaterRun == Spec => AnsweredByLaterRun
<1>1. Init => Later!LaterInit
  <2> SUFFICES ASSUME Init PROVE Later!LaterInit
    OBVIOUS
  <2>1. \A c \in Callers : call[c] = "idle"
    BY DEF Init
  <2>2. \A t \in Tasks : ~Running(t)
    BY NoTaskType DEF Init, Running
  <2> QED
    BY <2>1, <2>2 DEF Later!LaterInit, Waiting, Serving, Answered
<1>2. ASSUME CoordinatorInv, CoordinatorInv', [Next]_vars
      PROVE  Later!LaterNext \/ UNCHANGED <<Waiting, Serving, Answered>>
  <2>1. ASSUME NEW c \in Callers, Request(c) \/ RefuseRequest(c)
        PROVE  Later!LaterNext
    BY <1>2, <2>1, RequestLater, RefuseLater DEF Later!LaterNext
  <2>2. ASSUME NEW t \in Tasks, FirstStep(t) \/ Wake(t)
        PROVE  Later!LaterNext
    <3>1. UNCHANGED call
      BY <2>2 DEF FirstStep, Wake
    <3> QED
      BY <1>2, <3>1, SilentTurn DEF Later!LaterNext
  <2>3. ASSUME NEW t \in Tasks, EndRun(t) PROVE Later!LaterNext
    BY <1>2, <2>3, RaiseLater, FinishLater DEF EndRun, Later!LaterNext
  <2>4. ASSUME NEW t \in Tasks, Cancelled(t)
        PROVE  Later!LaterNext \/ UNCHANGED <<Waiting, Serving, Answered>>
    BY <1>2, <2>4, CancelledLater DEF Later!LaterNext
  <2>5. CASE Disconnect
    BY <1>2, <2>5, DisconnectLater DEF Later!LaterNext
  <2>6. CASE Stop \/ CoolDown \/ Connect \/ UNCHANGED vars
    BY <2>6, QuietLater
  <2> QED
    BY <1>2, <2>1, <2>2, <2>3, <2>4, <2>5, <2>6 DEF Next, TaskStep
<1>3. CoordinatorInv /\ CoordinatorInv' /\ [Next]_vars
        => [Later!LaterNext]_<<Waiting, Serving, Answered>>
  BY <1>2
<1> QED
  BY <1>1, <1>3, InvariantHolds, PTL
     DEF Spec, AnsweredByLaterRun, Later!LaterSpec, Later!laterVars

-----------------------------------------------------------------------------
(* What a run that a connection asked for publishes                        *)

\* a batch was asked for before its run began, and that was not in the future
Ordered(t) == task[t].batch.gen <= task[t].began /\ task[t].began <= gen
GenerationsInOrder ==
    /\ pending # None => pending.gen <= gen
    /\ \A t \in Tasks : Ordered(t)

LEMMA GenTypes ==
    ASSUME TypeOK
    PROVE  /\ gen \in Nat
           /\ pending # None => pending \in Batch /\ pending.gen \in Nat
           /\ \A t \in Tasks : task[t].batch.gen \in Nat /\ task[t].began \in Nat
<1>1. pending # None => pending \in Batch
  BY DEF TypeOK
<1>2. \A t \in Tasks : task[t].batch \in Batch /\ task[t].began \in Nat
  BY DEF TypeOK, Task
<1> QED
  BY <1>1, <1>2, BatchFields DEF TypeOK

LEMMA NoTaskOrdered ==
    NoTask.batch.gen = 0 /\ NoTask.began = 0
    /\ [NoTask EXCEPT !.pc = "new"].batch.gen = 0
    /\ [NoTask EXCEPT !.pc = "new"].began = 0
  BY DEF NoTask, EmptyBatch

LEMMA NewTaskOrdered ==
    ASSUME TypeOK, NEW new \in {NoTask, [NoTask EXCEPT !.pc = "new"]}
    PROVE  new \in Task /\ new.batch.gen <= new.began /\ new.began <= gen
<1>1. new \in Task
  BY NoTaskType
<1>2. new.batch.gen = 0 /\ new.began = 0
  BY NoTaskOrdered
<1>3. 0 <= gen
  BY GenTypes
<1> QED
  BY <1>1, <1>2, <1>3

(* A step of task t keeps the order when what it leaves t with is ordered. *)
LEMMA TaskOrdered ==
    ASSUME TypeOK, GenerationsInOrder, NEW t \in Tasks, NEW new \in Task,
           new.batch.gen <= new.began, new.began <= gen,
           task' = [task EXCEPT ![t] = new], gen' = gen
    PROVE  \A u \in Tasks : Ordered(u)'
<1>1. task'[t] = new /\ \A u \in Tasks : u # t => task'[u] = task[u]
  BY DEF TypeOK
<1> QED
  BY <1>1 DEF GenerationsInOrder, Ordered

LEMMA RequestOrdered ==
    ASSUME TypeOK, GenerationsInOrder, NEW c \in Callers, Request(c)
    PROVE  GenerationsInOrder'
<1>1. /\ pending' = Join(Opened(pending), c) /\ gen' = gen
      /\ EnsureRunner
  BY DEF Request
<1>2. Opened(pending) \in Batch /\ Opened(pending).gen <= gen
  <2>1. CASE pending = None
    BY <2>1, GenTypes, EmptyBatchType DEF Opened, EmptyBatch
  <2>2. CASE pending # None
    BY <2>2, GenTypes DEF Opened, GenerationsInOrder
  <2> QED
    BY <2>1, <2>2
<1>3. pending'.gen <= gen
  BY <1>1, <1>2, GenTypes DEF Join
<1>4. \A u \in Tasks : Ordered(u)'
  <2>1. CASE UNCHANGED task
    BY <1>1, <2>1 DEF GenerationsInOrder, Ordered
  <2>2. CASE StartRunner
    <3>1. PICK t \in Tasks : task' = [task EXCEPT ![t] = [NoTask EXCEPT !.pc = "new"]]
      BY <2>2 DEF StartRunner
    <3> DEFINE new == [NoTask EXCEPT !.pc = "new"]
    <3>2. new \in Task /\ new.batch.gen <= new.began /\ new.began <= gen
      BY NewTaskOrdered
    <3>3. task' = [task EXCEPT ![t] = new]
      BY <3>1
    <3> HIDE DEF new
    <3> QED
      BY <1>1, <3>2, <3>3, TaskOrdered
  <2> QED
    BY <1>1, <2>1, <2>2 DEF EnsureRunner
<1> QED
  BY <1>1, <1>3, <1>4 DEF GenerationsInOrder

LEMMA StartedOrdered ==
    ASSUME TypeOK, NEW b \in Batch, b.gen <= gen, NEW cool \in BOOLEAN
    PROVE  /\ Started(b, cool) \in Task
           /\ Started(b, cool).batch.gen <= Started(b, cool).began
           /\ Started(b, cool).began <= gen
  BY StartedType, GenTypes

LEMMA ProceedOrdered ==
    ASSUME TypeOK, GenerationsInOrder, NEW t \in Tasks,
           NEW pend \in Batch \cup {None}, pend # None => pend.gen <= gen,
           NEW cool \in BOOLEAN, Proceed(t, pend, cool), gen' = gen
    PROVE  GenerationsInOrder'
<1>1. pending' = None
  BY DEF Proceed
<1>2. \A u \in Tasks : Ordered(u)'
  <2>1. CASE pend = None
    BY <2>1, NoTaskType, NoTaskOrdered, GenTypes, TaskOrdered DEF Proceed
  <2>2. CASE pend # None
    <3>1. cooling' \in BOOLEAN /\ pend \in Batch
          /\ task' = [task EXCEPT ![t] = Started(pend, cooling')]
      BY <2>2 DEF Proceed
    <3> QED
      BY <2>2, <3>1, StartedOrdered, TaskOrdered
  <2> QED
    BY <2>1, <2>2
<1> QED
  BY <1>1, <1>2 DEF GenerationsInOrder

LEMMA FinishOrdered ==
    ASSUME TypeOK, GenerationsInOrder, NEW t \in Tasks,
           NEW outcome \in {"ok", "gaps", "failed"}, Finish(t, outcome)
    PROVE  GenerationsInOrder'
<1>1. PICK pend \in {FollowUp, pending} : Proceed(t, pend, outcome # "ok")
  BY DEF Finish
<1>2. gen' = gen
  BY DEF Finish
<1>3. FollowUp \in Batch /\ FollowUp.gen <= gen
  <2>1. Opened(pending) \in Batch
    BY PendingWaiters
  <2> QED
    BY <2>1, FollowUpType, GenTypes DEF FollowUp, Batch
<1>4. pend \in Batch \cup {None} /\ (pend # None => pend.gen <= gen)
  BY <1>3 DEF TypeOK, GenerationsInOrder
<1>5. (outcome # "ok") \in BOOLEAN
  OBVIOUS
<1> QED
  BY <1>1, <1>2, <1>4, <1>5, ProceedOrdered

LEMMA TaskEndOrdered ==
    ASSUME TypeOK, GenerationsInOrder, NEW t \in Tasks,
           Raise(t) \/ Cancelled(t)
    PROVE  GenerationsInOrder'
<1>1. task' = [task EXCEPT ![t] = NoTask] /\ gen' = gen
      /\ pending' \in {pending, None}
  BY DEF Raise, Cancelled
<1>2. NoTask \in Task /\ NoTask.batch.gen <= NoTask.began /\ NoTask.began <= gen
  BY NewTaskOrdered
<1>3. \A u \in Tasks : Ordered(u)'
  BY <1>1, <1>2, TaskOrdered
<1> QED
  BY <1>1, <1>3 DEF GenerationsInOrder

LEMMA ConnectionOrdered ==
    ASSUME TypeOK, GenerationsInOrder, Connect \/ Disconnect
    PROVE  GenerationsInOrder'
<1>1. CASE Connect
  <2>1. gen' = gen + 1 /\ UNCHANGED <<pending, task>>
    BY <1>1 DEF Connect, batchVars
  <2> QED
    BY <2>1, GenTypes DEF GenerationsInOrder, Ordered
<1>2. CASE Disconnect
  <2>1. /\ pending' = IF pending = None THEN None ELSE Without(pending)
        /\ task' = [t \in Tasks |-> [task[t] EXCEPT !.batch = Without(@)]]
        /\ gen' = gen
    BY <1>2 DEF Disconnect
  <2>2. \A b \in Batch : Without(b).gen = b.gen
    BY DEF Without, Batch
  <2>3. pending' # None => pending'.gen <= gen'
    BY <2>1, <2>2, GenTypes DEF GenerationsInOrder
  <2>4. \A t \in Tasks : task'[t].began = task[t].began
                         /\ task'[t].batch.gen = task[t].batch.gen
    <3> TAKE t \in Tasks
    <3>1. task[t] \in Task /\ task[t].batch \in Batch
      BY TaskFields
    <3> QED
      BY <2>1, <2>2, <3>1 DEF Task
  <2> QED
    BY <2>1, <2>3, <2>4 DEF GenerationsInOrder, Ordered
<1> QED
  BY <1>1, <1>2

LEMMA GenerationsStep ==
    TypeOK /\ GenerationsInOrder /\ [Next]_vars => GenerationsInOrder'
<1> SUFFICES ASSUME TypeOK, GenerationsInOrder, [Next]_vars
             PROVE  GenerationsInOrder'
  OBVIOUS
<1>1. CASE UNCHANGED <<pending, task, gen>>
  BY <1>1 DEF GenerationsInOrder, Ordered
<1>2. ASSUME NEW c \in Callers, Request(c) \/ RefuseRequest(c)
      PROVE  GenerationsInOrder'
  BY <1>1, <1>2, RequestOrdered DEF RefuseRequest, batchVars
<1>3. ASSUME NEW t \in Tasks, FirstStep(t) PROVE GenerationsInOrder'
  <2>1. Proceed(t, pending, cooling) /\ gen' = gen
    BY <1>3 DEF FirstStep
  <2>2. pending \in Batch \cup {None} /\ cooling \in BOOLEAN
        /\ (pending # None => pending.gen <= gen)
    BY DEF TypeOK, GenerationsInOrder
  <2> QED
    BY <2>1, <2>2, ProceedOrdered
<1>4. ASSUME NEW t \in Tasks, Wake(t) PROVE GenerationsInOrder'
  <2>1. /\ task' = [task EXCEPT ![t] = Started(task[t].batch, cooling)]
        /\ UNCHANGED <<pending, gen>>
    BY <1>4 DEF Wake
  <2>2. task[t].batch \in Batch /\ cooling \in BOOLEAN
    BY TaskFields DEF TypeOK
  <2>3. task[t].batch.gen <= gen
    BY GenTypes DEF GenerationsInOrder, Ordered
  <2>4. \A u \in Tasks : Ordered(u)'
    BY <2>1, <2>2, <2>3, StartedOrdered, TaskOrdered
  <2> QED
    BY <2>1, <2>4 DEF GenerationsInOrder
<1>5. ASSUME NEW t \in Tasks, EndRun(t) \/ Cancelled(t) PROVE GenerationsInOrder'
  BY <1>5, FinishOrdered, TaskEndOrdered DEF EndRun
<1>6. CASE Connect \/ Disconnect
  BY <1>6, ConnectionOrdered
<1>7. CASE Stop \/ CoolDown \/ UNCHANGED vars
  BY <1>1, <1>7 DEF Stop, CoolDown, vars, batchVars
<1> QED
  BY <1>2, <1>3, <1>4, <1>5, <1>6, <1>7 DEF Next, TaskStep

LEMMA GenerationsInit == Init => GenerationsInOrder
<1> SUFFICES ASSUME Init PROVE GenerationsInOrder
  OBVIOUS
<1>1. \A t \in Tasks : task[t] = NoTask
  BY DEF Init
<1> QED
  BY <1>1, NoTaskOrdered DEF Init, GenerationsInOrder, Ordered

(* A run that a connection asked for publishes READY for that connection   *)
(* only, however often the market WebSocket reconnected meanwhile.         *)
THEOREM AskedRunPublishes == Spec => AskedRunPublishesCurrent
<1> DEFINE Asked(t) ==
        Running(t) /\ task[t].batch.gen # 0 /\ ready' # ready /\ ready' # None
<1>1. ASSUME CoordinatorInv, GenerationsInOrder, [Next]_vars,
             NEW t \in Tasks, Asked(t)
      PROVE  ready' = gen
  <2>1. PICK u \in Tasks, outcome \in {"ok", "gaps", "failed"} : Finish(u, outcome)
    <3>1. \A c \in Callers : ~Request(c) /\ ~RefuseRequest(c)
      BY <1>1 DEF Request, RefuseRequest
    <3>2. \A u \in Tasks : ~FirstStep(u) /\ ~Wake(u) /\ ~Raise(u) /\ ~Cancelled(u)
      BY <1>1 DEF FirstStep, Wake, Raise, Cancelled
    <3>3. ~Connect /\ ~Disconnect /\ ~Stop /\ ~CoolDown /\ ~UNCHANGED vars
      BY <1>1 DEF Connect, Disconnect, Stop, CoolDown, vars
    <3> QED
      BY <1>1, <3>1, <3>2, <3>3 DEF Next, TaskStep, EndRun
  <2>2. u = t
    BY <1>1, <2>1 DEF Finish, CoordinatorInv, SingleRun, Running, Live
  <2>3. Current(task[t].batch) /\ ready' = task[t].began
    BY <1>1, <2>1, <2>2 DEF Finish
  <2>4. task[t].batch.gen = gen
    BY <1>1, <2>3 DEF Current
  <2>5. task[t].batch.gen <= task[t].began /\ task[t].began <= gen
    BY <1>1 DEF GenerationsInOrder, Ordered
  <2>6. task[t].began \in Nat /\ gen \in Nat
    BY <1>1, GenTypes DEF CoordinatorInv
  <2> QED
    BY <2>3, <2>4, <2>5, <2>6
<1>2. CoordinatorInv => TypeOK
  BY DEF CoordinatorInv
<1>3. CoordinatorInv /\ GenerationsInOrder /\ [Next]_vars
        => [\A t \in Tasks : Asked(t) => ready' = gen]_vars
  BY <1>1
<1> QED
  BY <1>2, <1>3, GenerationsInit, GenerationsStep, InvariantHolds, PTL
     DEF Spec, AskedRunPublishesCurrent

=============================================================================
