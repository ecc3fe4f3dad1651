---------------------------- MODULE PauseRecovery ----------------------------
(***************************************************************************)
(* The entry pause of the trader process and everybody who writes it.      *)
(*                                                                         *)
(* Two actors run concurrently.  The event loop runs the reconciliation    *)
(* worker, the IPC commands of the operator, the strategy runtime and the  *)
(* heartbeat; between two awaits it runs one handler at a time.  The       *)
(* recovery tick runs in a worker thread (asyncio.to_thread), so its       *)
(* transactions interleave with those of a handler.  An action is one      *)
(* SQLite transaction, or one read of the database, of one of them.        *)
(*                                                                         *)
(* Blocker codes raised by the outside world (sockets, books, geography,   *)
(* kill switch, open intents ...) are members of the variable signals;     *)
(* the codes the evaluator derives from the pause, the reconciliation rows *)
(* and the heartbeat rows are computed by Blockers.                        *)
(***************************************************************************)
EXTENDS PauseRecord, FiniteSets

CONSTANTS
    Signals,            \* blocker codes the environment may raise
    RuntimeReasons,     \* causes the runtime, risk and exit supervisor pause for
    OperatorReasons,    \* causes an operator pauses for
    ReconFailures,      \* outcomes of an unclean reconciliation run
    RealTrading,        \* execution_mode = "REAL_TRADING", submission armed
    CanaryMode,         \* ~continuous_trading_enabled
    MaxFaults           \* bound: disturbances of the environment per behaviour

\* BLOCKER_TO_CAUSE, and the default cause of MARKET_READINESS_NOT_READY
SignalCause ==
    [MARKET_WS_NOT_CONNECTED            |-> "MARKET_WS_DOWN",
     MARKET_DATA_STALE                  |-> "MARKET_DATA_STALE",
     BOOK_NOT_READY                     |-> "BOOK_NOT_READY",
     USER_WS_NOT_CONNECTED              |-> "USER_WS_DOWN",
     USER_WS_STALE                      |-> "USER_WS_STALE",
     MARKET_READINESS_NOT_READY         |-> "MARKET_DATA_NOT_READY",
     KILL_SWITCH_ACTIVE                 |-> "KILL_SWITCH_ACTIVE",
     UNRESOLVED_INTENT                  |-> "RECONCILIATION_GAP",
     UNKNOWN_ORDER_FILL_OR_CANCELLATION |-> "RECONCILIATION_GAP",
     UNKNOWN_POSITION_OR_EXPOSURE       |-> "RECONCILIATION_GAP",
     GEOGRAPHIC_NOT_ALLOWED             |-> "GEOGRAPHIC_AVAILABILITY_FAILED",
     GEOGRAPHIC_EVIDENCE_STALE          |-> "GEOGRAPHIC_EVIDENCE_STALE",
     CONFIG_INVALID                     |-> "CONFIG_INVALID",
     PROVENANCE_UNVERIFIED              |-> "PROVENANCE_UNVERIFIED",
     CANARY_NOT_ARMED                   |-> "CANARY_NOT_ARMED"]

\* codes settled when the process starts (their cause has the code's name)
ProcessSignals == {"CONFIG_INVALID", "PROVENANCE_UNVERIFIED"}

\* codes whose truth is a matter of time passing, not of a loop handler
TimedSignals == {"MARKET_DATA_STALE", "USER_WS_STALE", "GEOGRAPHIC_EVIDENCE_STALE"}

\* codes read from process memory: a restart begins with them raised
RamSignals == {"MARKET_WS_NOT_CONNECTED", "MARKET_DATA_STALE", "BOOK_NOT_READY",
               "USER_WS_NOT_CONNECTED", "USER_WS_STALE"}

FinancialSignals == {"UNRESOLVED_INTENT", "UNKNOWN_ORDER_FILL_OR_CANCELLATION",
                     "UNKNOWN_POSITION_OR_EXPOSURE"}

\* codes the evaluator looks up after its one snapshot of the state rows
LiveSignals == RamSignals \cup FinancialSignals

DebouncedCodes == {"BOOK_NOT_READY", "MARKET_DATA_STALE",
                   "MARKET_READINESS_NOT_READY"}

DerivedCodes == {"RECONCILIATION_NOT_READY", "HEARTBEAT_NOT_OK",
                 "HEARTBEAT_SUCCESS_NOT_NEWER_THAN_PAUSE", "MANUAL_ONLY_PAUSE",
                 "FINANCIAL_REPAIR_NOT_VERIFIED",
                 "RECONCILIATION_CLEAN_EVIDENCE_NOT_NEWER_THAN_PAUSE",
                 "AUTO_RECOVERY_DEGRADED"}

ReconReasons == {"RECONCILIATION_GAP", "RECONCILIATION_CONTRADICTION",
                 "RECONCILIATION_RATE_LIMITED",
                 "RECONCILIATION_TEMPORARY_ERROR", "RECONCILIATION_FAILED"}

ASSUME PauseRecoveryAssumption ==
    /\ Signals \subseteq DOMAIN SignalCause
    /\ RuntimeReasons \subseteq Causes \ {""}
    /\ OperatorReasons \subseteq {"OPERATOR_PAUSE", "EMERGENCY_CLOSE_REQUESTED"}
    /\ ReconFailures \subseteq ReconReasons
    /\ RealTrading \in BOOLEAN /\ CanaryMode \in BOOLEAN
    /\ CanaryMode => RealTrading
    /\ "CANARY_NOT_ARMED" \in Signals <=> CanaryMode
    /\ MaxFaults \in Nat

VARIABLES
    pause,      \* the durable pause record
    signals,    \* environment blocker codes now true
    recon,      \* durable reconciliation rows: ready, reason, stamp of the last
                \* clean run, whether that run is at most 300s old
    heartbeat,  \* durable heartbeat rows: ok, last success stamp
    engine,     \* recovery_engine_status
    up,         \* startup reconciliation done, the recovery loop runs
    tick,       \* the recovery thread: pc and what it holds in locals
    loop,       \* the event loop: the handler it is in and what that holds
    faults,     \* disturbances so far (bounded by MaxFaults)
    decided     \* history: an operator, risk or compliance pause was acquired
                \* and no operator has resumed since

vars == <<pause, signals, recon, heartbeat, engine, up, tick, loop, faults, decided>>

TickPCs == {"idle", "escalate", "read_pause", "evaluate", "observe", "acquire",
            "read_record", "reset", "wait", "deescalate", "release", "degrade"}
LoopPCs == {"boot", "idle", "publish_pause", "publish_flags", "reclassify",
            "promote", "heartbeat_pause", "reserve", "resume_evaluate",
            "resume_read_record", "resume_release"}

\* The locals of an actor.  seen is the pause record its evaluation started
\* from, evaluated (of a tick) the generation of that record, codes the
\* blockers found; claim is what its compare-and-swap expects to find.
Claim(p) == [gen |-> p.gen, owner |-> p.owner, cause |-> p.cause]
NoRecord == SeedRecord(FALSE)

IdleTick == [pc |-> "idle", seen |-> NoRecord, evaluated |-> 0, codes |-> {},
             cleared |-> FALSE, claim |-> Claim(NoRecord)]
IdleLoop == [pc |-> "idle", seen |-> NoRecord,
             outcome |-> "ok", at |-> 0, claim |-> Claim(NoRecord)]

Init ==
    /\ pause \in {SeedRecord(d) : d \in BOOLEAN} \cup {LegacyShapePause}
    /\ signals = Signals \cap (RamSignals \cup {"CANARY_NOT_ARMED"})
    /\ recon = [ready |-> FALSE, reason |-> "", cleanAt |-> 0, recent |-> FALSE]
    /\ heartbeat = [ok |-> FALSE, at |-> 0]
    /\ engine = "STARTING"
    /\ up = FALSE
    /\ tick = IdleTick
    /\ loop = [IdleLoop EXCEPT !.pc = "boot"]
    /\ faults = 0
    /\ decided = FALSE

-----------------------------------------------------------------------------
(* The evaluator: the codes that hold given the pause record p read first, *)
(* the snapshot of the state rows read next, and the sockets, books and    *)
(* intents looked up after it.                                             *)
SnapshotBlockers(p, allowManual, cleared) ==
    (signals \ LiveSignals) \cup
    {c \in DerivedCodes :
        CASE c = "RECONCILIATION_NOT_READY" -> ~recon.ready
          [] c = "HEARTBEAT_NOT_OK" -> RealTrading /\ ~heartbeat.ok
          [] c = "HEARTBEAT_SUCCESS_NOT_NEWER_THAN_PAUSE" ->
                /\ RealTrading /\ p.cause = "HEARTBEAT_FAILURE"
                /\ heartbeat.at < p.acquired
          [] c = "MANUAL_ONLY_PAUSE" ->
                /\ p.entries /\ p.policy = "MANUAL_ONLY"
                /\ ~allowManual /\ ~cleared
          [] c = "FINANCIAL_REPAIR_NOT_VERIFIED" ->
                /\ p.entries /\ p.policy = "AUTO_AFTER_REPAIR"
                /\ pause.verified # p.gen
          [] c = "RECONCILIATION_CLEAN_EVIDENCE_NOT_NEWER_THAN_PAUSE" ->
                /\ p.entries /\ p.cause \in CleanAfterPauseCauses
                /\ recon.cleanAt < p.acquired
          [] c = "AUTO_RECOVERY_DEGRADED" -> engine = "DEGRADED"}

Blockers(p, allowManual, cleared) == signals \cup SnapshotBlockers(p, allowManual, cleared)

\* fault: a clean run of before the pause counts as proof
ManualCauseResolvedByAge(p) ==
    /\ p.entries
    /\ p.cause \in ReconciliationCauses \ NeverAutoCauses
    /\ recon.ready /\ recon.recent /\ p.age = 2

\* _manual_cause_resolved
ManualCauseResolved(p) ==
    /\ p.entries
    /\ p.cause \in ReconciliationCauses \ NeverAutoCauses
    /\ recon.ready
    /\ recon.cleanAt >= p.acquired
    /\ recon.recent /\ p.age = 2

\* fault: the financial blockers have no cause
CauseForOperational(code) ==
    IF code \in DOMAIN SignalCause \ FinancialSignals THEN SignalCause[code]
    ELSE IF code = "HEARTBEAT_NOT_OK" THEN "HEARTBEAT_FAILURE" ELSE ""

\* _cause_for_blocker: the policy and evidence codes have no cause
CauseFor(code) ==
    IF code \in DOMAIN SignalCause THEN SignalCause[code]
    ELSE CASE code = "RECONCILIATION_NOT_READY" ->
                  IF recon.reason = "" THEN "RECONCILIATION_FAILED" ELSE recon.reason
           [] code = "HEARTBEAT_NOT_OK" -> "HEARTBEAT_FAILURE"
           [] code = "AUTO_RECOVERY_DEGRADED" -> "RECOVERY_MONITOR_TEMPORARY_ERROR"
           [] OTHER -> ""

\* _acquire_from_evaluation: the causes whose debounce time is over; a code is
\* debounced only while entries are not paused yet
Debounced(code) ==
    /\ ~pause.entries
    /\ code \in DebouncedCodes
    /\ recovery_policy(CauseFor(code)) = "AUTO_WHEN_CLEAN"

Strongest(causes) ==
    {c \in causes : \A d \in causes : Rank(recovery_policy(c)) >= Rank(recovery_policy(d))}

\* one acquire_pause transaction
Acquire(reason, owner) ==
    /\ pause' = AfterAcquire(pause, reason, owner)
    /\ decided' = (decided \/ (/\ reason \in NeverAutoCauses
                               /\ ~AcquireRejected(pause, reason, owner)))

-----------------------------------------------------------------------------
(* The recovery tick (PauseRecoveryCoordinator.tick, in a thread).         *)

TickStart ==
    /\ up /\ tick.pc = "idle"
    /\ engine' = "HEALTHY"
    /\ tick' = [tick EXCEPT !.pc = "escalate"]
    /\ UNCHANGED <<pause, signals, recon, heartbeat, up, loop, faults, decided>>

TickEscalate ==
    /\ tick.pc = "escalate"
    /\ pause' = AfterEscalate(pause)
    /\ tick' = [tick EXCEPT !.pc = "read_pause"]
    /\ UNCHANGED <<signals, recon, heartbeat, engine, up, loop, faults, decided>>

TickReadPause ==
    /\ tick.pc = "read_pause"
    /\ tick' = [tick EXCEPT !.pc = "evaluate", !.seen = pause]
    /\ UNCHANGED <<pause, signals, recon, heartbeat, engine, up, loop, faults, decided>>

TickEvaluate ==
    /\ tick.pc = "evaluate"
    /\ LET cleared == ManualCauseResolved(tick.seen)
       IN  tick' = [tick EXCEPT !.pc = "observe", !.seen = NoRecord,
                                !.evaluated = tick.seen.gen, !.cleared = cleared,
                                !.codes = SnapshotBlockers(tick.seen, FALSE, cleared)]
    /\ UNCHANGED <<pause, signals, recon, heartbeat, engine, up, loop, faults, decided>>

TickObserve ==
    /\ tick.pc = "observe"
    /\ tick' = [tick EXCEPT !.pc = "acquire",
                            !.codes = tick.codes \cup (signals \cap LiveSignals)]
    /\ UNCHANGED <<pause, signals, recon, heartbeat, engine, up, loop, faults, decided>>

TickAcquire ==
    /\ tick.pc = "acquire"
    /\ tick' = [tick EXCEPT !.pc = "read_record"]
    /\ \E due \in SUBSET {c \in tick.codes : Debounced(c)} :
          LET causes == {CauseFor(c) : c \in {x \in tick.codes : ~Debounced(x)} \cup due}
                        \ {""}
          IN  IF causes = {} THEN UNCHANGED <<pause, decided>>
              ELSE \E c \in Strongest(causes) : Acquire(c, "MACHINE")
    /\ UNCHANGED <<signals, recon, heartbeat, engine, up, loop, faults>>

\* the record is read again, after the evaluation and the acquisition
NextStep(record) ==
    CASE ~record.entries                            -> "idle"
      [] record.entries /\ tick.codes # {}          -> "reset"
      [] record.entries /\ tick.codes = {} ->
            (CASE record.eligible = ""        -> "wait"
               [] record.eligible = "started" -> "idle"
               [] record.eligible = "elapsed" -> IF tick.cleared THEN "deescalate"
                                                 ELSE "release")

TickReadRecord ==
    /\ tick.pc = "read_record"
    /\ engine' = IF pause.entries THEN engine ELSE "HEALTHY"
    /\ tick' = IF NextStep(pause) = "idle" THEN IdleTick
               ELSE [IdleTick EXCEPT !.pc = NextStep(pause), !.claim = Claim(pause),
                                     !.evaluated = tick.evaluated]
    /\ UNCHANGED <<pause, signals, recon, heartbeat, up, loop, faults, decided>>

TickReset ==
    /\ tick.pc = "reset"
    /\ pause' = AfterReset(pause, tick.claim.gen)
    /\ tick' = IdleTick
    /\ UNCHANGED <<signals, recon, heartbeat, engine, up, loop, faults, decided>>

TickWait ==
    /\ tick.pc = "wait"
    /\ pause' = AfterWaiting(pause, tick.claim.gen)
    /\ tick' = IdleTick
    /\ UNCHANGED <<signals, recon, heartbeat, engine, up, loop, faults, decided>>

TickDeescalate ==
    /\ tick.pc = "deescalate"
    /\ pause' = AfterDeescalate(pause, tick.claim.gen, tick.claim.cause)
    /\ tick' = [tick EXCEPT !.pc = "release"]
    /\ UNCHANGED <<signals, recon, heartbeat, engine, up, loop, faults, decided>>

TickRelease ==
    /\ tick.pc = "release"
    /\ pause' = IF ReleaseAccepted(pause, tick.claim.gen, tick.claim.owner,
                                   "pause_recovery")
                THEN AfterRelease(pause) ELSE pause
    /\ tick' = IdleTick
    /\ UNCHANGED <<signals, recon, heartbeat, engine, up, loop, faults, decided>>

\* an exception anywhere in the tick ends it; mark_degraded then writes the
\* engine status and acquires in a second transaction
TickFail ==
    /\ tick.pc \notin {"idle", "degrade"}
    /\ faults < MaxFaults
    /\ faults' = faults + 1
    /\ engine' = "DEGRADED"
    /\ tick' = [IdleTick EXCEPT !.pc = "degrade"]
    /\ UNCHANGED <<pause, signals, recon, heartbeat, up, loop, decided>>

TickDegrade ==
    /\ tick.pc = "degrade"
    /\ Acquire("RECOVERY_MONITOR_TEMPORARY_ERROR", "MACHINE")
    /\ tick' = IdleTick
    /\ UNCHANGED <<signals, recon, heartbeat, engine, up, loop, faults>>

-----------------------------------------------------------------------------
(* The event loop: one handler at a time.                                  *)

LoopIdle == loop.pc = "idle"

\* startup(): the hold, then the configuration and provenance gates, whose
\* outcome is settled for the life of the process
Boot ==
    /\ loop.pc = "boot"
    /\ \E invalid \in SUBSET (Signals \cap ProcessSignals) :
          LET gate(p, code) == IF code \in invalid
                               THEN AfterAcquire(p, code, "MACHINE") ELSE p
              held == AfterAcquire(pause, "SAFETY_STARTUP_HOLD", "MACHINE")
          IN  /\ signals' = (signals \ ProcessSignals) \cup invalid
              /\ pause' = gate(gate(held, "CONFIG_INVALID"), "PROVENANCE_UNVERIFIED")
    /\ decided' = (decided \/ pause'.cause \in NeverAutoCauses)
    /\ loop' = IdleLoop
    /\ UNCHANGED <<recon, heartbeat, engine, up, tick, faults>>

\* A reconciliation run ends: completed_at is taken, an exception disarms the
\* canary, and set_reconciliation_state publishes in several transactions.
\* The first run of a process is the startup reconciliation.
ReconClean ==
    /\ LoopIdle
    /\ loop' = [loop EXCEPT !.pc = "publish_flags", !.outcome = "ok", !.at = pause.gen]
    /\ UNCHANGED <<pause, signals, recon, heartbeat, engine, up, tick, faults, decided>>

ReconUnclean(outcome) ==
    /\ LoopIdle
    /\ faults < MaxFaults
    /\ faults' = faults + 1
    /\ signals' = IF outcome \in {"RECONCILIATION_GAP", "RECONCILIATION_CONTRADICTION"}
                  THEN signals ELSE signals \cup (Signals \cap {"CANARY_NOT_ARMED"})
    /\ loop' = [loop EXCEPT !.pc = "publish_pause", !.outcome = outcome]
    /\ UNCHANGED <<pause, recon, heartbeat, engine, up, tick, decided>>

PublishPause ==
    /\ loop.pc = "publish_pause"
    /\ Acquire(loop.outcome, "RECONCILIATION")
    /\ loop' = [loop EXCEPT !.pc = "publish_flags"]
    /\ UNCHANGED <<signals, recon, heartbeat, engine, up, tick, faults>>

PublishFlags ==
    /\ loop.pc = "publish_flags"
    /\ IF loop.outcome = "ok"
       THEN /\ recon' = [ready |-> TRUE, reason |-> "", cleanAt |-> loop.at,
                         recent |-> TRUE]
            /\ loop' = [loop EXCEPT !.pc = "reclassify"]
            /\ UNCHANGED up
       ELSE /\ recon' = [recon EXCEPT !.ready = FALSE, !.reason = loop.outcome]
            /\ loop' = IdleLoop
            /\ up' = TRUE
    /\ UNCHANGED <<pause, signals, heartbeat, engine, tick, faults, decided>>

PublishReclassify ==
    /\ loop.pc = "reclassify"
    /\ pause' = AfterReclassifyTransient(pause)
    /\ loop' = [loop EXCEPT !.pc = "promote"]
    /\ UNCHANGED <<signals, recon, heartbeat, engine, up, tick, faults, decided>>

PublishPromote ==
    /\ loop.pc = "promote"
    /\ pause' = AfterPromote(pause, loop.at, signals \cap FinancialSignals # {})
    /\ loop' = IdleLoop
    /\ up' = TRUE
    /\ UNCHANGED <<signals, recon, heartbeat, engine, tick, faults, decided>>

\* the exit repair of a running reconciliation narrows the incident to a position
ScopedRepair ==
    /\ LoopIdle
    /\ faults < MaxFaults
    /\ pause.entries
    /\ faults' = faults + 1
    /\ pause' = AfterScoped(pause)
    /\ UNCHANGED <<signals, recon, heartbeat, engine, up, tick, loop, decided>>

RuntimePause(reason) ==
    /\ LoopIdle /\ up
    /\ faults < MaxFaults
    /\ faults' = faults + 1
    /\ Acquire(reason, "MACHINE")
    /\ UNCHANGED <<signals, recon, heartbeat, engine, up, tick, loop>>

\* PAUSE_ENTRIES, or the first step of emergency_close_all
OperatorPause(reason) ==
    /\ LoopIdle
    /\ faults < MaxFaults
    /\ faults' = faults + 1
    /\ Acquire(reason, "OPERATOR")
    /\ UNCHANGED <<signals, recon, heartbeat, engine, up, tick, loop>>

HeartbeatOk ==
    /\ LoopIdle /\ up /\ RealTrading
    /\ heartbeat' = [ok |-> TRUE, at |-> pause.gen]
    /\ UNCHANGED <<pause, signals, recon, engine, up, tick, loop, faults, decided>>

HeartbeatFailed ==
    /\ LoopIdle /\ up /\ RealTrading
    /\ faults < MaxFaults
    /\ faults' = faults + 1
    /\ heartbeat' = [heartbeat EXCEPT !.ok = FALSE]
    /\ loop' = [loop EXCEPT !.pc = "heartbeat_pause"]
    /\ UNCHANGED <<pause, signals, recon, engine, up, tick, decided>>

HeartbeatPause ==
    /\ loop.pc = "heartbeat_pause"
    /\ Acquire("HEARTBEAT_FAILURE", "MACHINE")
    /\ loop' = IdleLoop
    /\ UNCHANGED <<signals, recon, heartbeat, engine, up, tick, faults>>

\* An entry of the canary mode: _durable_entry_gate, then the transaction of
\* reserve_event_entry; one handler, but the recovery thread may come between.
CanaryGate ==
    /\ LoopIdle /\ up
    /\ CanaryMode /\ ~pause.entries
    /\ signals \cap {"CANARY_NOT_ARMED", "KILL_SWITCH_ACTIVE"} = {}
    /\ faults < MaxFaults
    /\ faults' = faults + 1
    /\ loop' = [loop EXCEPT !.pc = "reserve"]
    /\ UNCHANGED <<pause, signals, recon, heartbeat, engine, up, tick, decided>>

\* what the transaction reads again before it writes; whoever arms the canary
\* resets canary_consumed with it
CanaryAvailable ==
    ~pause.entries /\ signals \cap {"CANARY_NOT_ARMED", "KILL_SWITCH_ACTIVE"} = {}

\* fault: the gate's answer is taken to be good still
CanaryReserveUnchecked ==
    /\ loop.pc = "reserve" /\ CanaryMode
    /\ pause' = AfterCanary(pause)
    /\ signals' = signals \cup (Signals \cap {"CANARY_NOT_ARMED"})
    /\ loop' = IdleLoop
    /\ UNCHANGED <<recon, heartbeat, engine, up, tick, faults, decided>>

\* otherwise CANARY_NOT_AVAILABLE, and nothing is written
CanaryReserve ==
    /\ loop.pc = "reserve" /\ CanaryMode
    /\ IF CanaryAvailable
       THEN /\ pause' = AfterCanary(pause)
            /\ signals' = signals \cup (Signals \cap {"CANARY_NOT_ARMED"})
       ELSE UNCHANGED <<pause, signals>>
    /\ loop' = IdleLoop
    /\ UNCHANGED <<recon, heartbeat, engine, up, tick, faults, decided>>

\* request_manual_resume: evaluate, read the record, compare and swap, all in
\* one handler (so the two reads of the evaluation need no step between them)
ResumeReadPause ==
    /\ LoopIdle
    /\ loop' = [loop EXCEPT !.pc = "resume_evaluate", !.seen = pause]
    /\ UNCHANGED <<pause, signals, recon, heartbeat, engine, up, tick, faults, decided>>

ResumeEvaluate ==
    /\ loop.pc = "resume_evaluate"
    /\ loop' = IF Blockers(loop.seen, TRUE, FALSE) = {}
               THEN [IdleLoop EXCEPT !.pc = "resume_read_record"]
               ELSE IdleLoop
    /\ UNCHANGED <<pause, signals, recon, heartbeat, engine, up, tick, faults, decided>>

ResumeReadRecord ==
    /\ loop.pc = "resume_read_record"
    /\ loop' = IF pause.entries
               THEN [loop EXCEPT !.pc = "resume_release", !.claim = Claim(pause)]
               ELSE IdleLoop
    /\ UNCHANGED <<pause, signals, recon, heartbeat, engine, up, tick, faults, decided>>

ResumeRelease ==
    /\ loop.pc = "resume_release"
    /\ IF ReleaseAccepted(pause, loop.claim.gen, loop.claim.owner, "operator")
       THEN pause' = AfterRelease(pause) /\ decided' = FALSE
       ELSE UNCHANGED <<pause, decided>>
    /\ loop' = IdleLoop
    /\ UNCHANGED <<signals, recon, heartbeat, engine, up, tick, faults>>

-----------------------------------------------------------------------------
(* The environment.                                                        *)

Raise(code) ==
    /\ code \notin signals \cup ProcessSignals
    /\ code \in TimedSignals \/ LoopIdle
    /\ faults < MaxFaults
    /\ faults' = faults + 1
    /\ signals' = signals \cup {code}
    /\ UNCHANGED <<pause, recon, heartbeat, engine, up, tick, loop, decided>>

Clear(code) ==
    /\ code \in signals \ ProcessSignals
    /\ LoopIdle
    /\ signals' = signals \ {code}
    /\ UNCHANGED <<pause, recon, heartbeat, engine, up, tick, loop, faults, decided>>

StabilityElapses ==
    /\ pause.eligible = "started"
    /\ pause' = [pause EXCEPT !.eligible = "elapsed"]
    /\ UNCHANGED <<signals, recon, heartbeat, engine, up, tick, loop, faults, decided>>

\* no clean run for 300 seconds
EvidenceAges ==
    /\ recon.recent
    /\ faults < MaxFaults
    /\ faults' = faults + 1
    /\ recon' = [recon EXCEPT !.recent = FALSE]
    /\ UNCHANGED <<pause, signals, heartbeat, engine, up, tick, loop, decided>>

\* the age is read only for unclassified and reconciliation causes
PauseAges ==
    /\ pause.entries /\ pause.age < 2
    /\ pause.cause \in UnknownCauses \cup ReconciliationCauses
    /\ pause' = [pause EXCEPT !.age = pause.age + 1]
    /\ UNCHANGED <<signals, recon, heartbeat, engine, up, tick, loop, faults, decided>>

\* the process dies and is started again; the database survives
Crash ==
    /\ loop.pc # "boot"
    /\ faults < MaxFaults
    /\ faults' = faults + 1
    /\ up' = FALSE
    /\ tick' = IdleTick
    /\ loop' = [IdleLoop EXCEPT !.pc = "boot"]
    /\ signals' = signals \cup (Signals \cap RamSignals)
    /\ UNCHANGED <<pause, recon, heartbeat, engine, decided>>

Tick == \/ TickStart \/ TickEscalate \/ TickReadPause \/ TickEvaluate
        \/ TickObserve \/ TickAcquire \/ TickReadRecord \/ TickReset \/ TickWait
        \/ TickDeescalate \/ TickRelease \/ TickDegrade

Handler == \/ Boot \/ PublishPause \/ PublishFlags \/ PublishReclassify
           \/ PublishPromote \/ HeartbeatPause \/ ResumeEvaluate
           \/ ResumeReadRecord \/ ResumeRelease

Next == \/ Tick \/ TickFail \/ Handler
        \/ ReconClean \/ ScopedRepair
        \/ \E reason \in OperatorReasons : OperatorPause(reason)
        \/ \E outcome \in ReconFailures : ReconUnclean(outcome)
        \/ \E reason \in RuntimeReasons : RuntimePause(reason)
        \/ HeartbeatOk \/ HeartbeatFailed \/ ResumeReadPause
        \/ \E code \in Signals : Raise(code) \/ Clear(code)
        \/ StabilityElapses \/ PauseAges \/ EvidenceAges \/ Crash

Spec == Init /\ [][Next]_vars

\* The one-shot mode: an entry writes the pause, too.
CanaryNext == Next \/ CanaryGate \/ CanaryReserve
CanarySpec == Init /\ [][CanaryNext]_vars

\* The recovery thread is rescheduled every half second and each of its steps
\* ends; the event loop runs handlers to completion and serves its ready tasks
\* in order, so that the periodic reconciliation and heartbeat get their turn
\* (strong fairness: other handlers keep disabling them); clocks advance.
Fairness ==
    /\ WF_vars(Tick) /\ WF_vars(Handler)
    /\ SF_vars(ReconClean) /\ SF_vars(HeartbeatOk)
    /\ WF_vars(StabilityElapses) /\ WF_vars(PauseAges)

FairSpec == Spec /\ Fairness

-----------------------------------------------------------------------------
(* Properties.                                                             *)

Claims == [gen: Nat, owner: Owners, cause: Causes]
TickStates == [pc: TickPCs, seen: PauseRecords, evaluated: Nat,
               codes: SUBSET (DOMAIN SignalCause \cup DerivedCodes),
               cleared: BOOLEAN, claim: Claims]
LoopStates == [pc: LoopPCs, seen: PauseRecords,
               outcome: ReconReasons \cup {"ok"}, at: Nat, claim: Claims]

(* Every variable keeps its type.                                          *)
TypeOK ==
    /\ pause \in PauseRecords
    /\ signals \subseteq Signals
    /\ recon \in [ready: BOOLEAN, reason: ReconReasons \cup {""},
                 cleanAt: Nat, recent: BOOLEAN]
    /\ heartbeat \in [ok: BOOLEAN, at: Nat]
    /\ engine \in {"STARTING", "HEALTHY", "DEGRADED"}
    /\ up \in BOOLEAN
    /\ tick \in TickStates
    /\ loop \in LoopStates
    /\ faults \in Nat
    /\ decided \in BOOLEAN

Released == pause.entries /\ ~pause'.entries
MachineRelease == Released /\ tick.pc = "release" /\ tick' # tick
OperatorRelease == Released /\ loop.pc = "resume_release" /\ loop' # loop

(* The recovery thread releases only the pause it evaluated: although the  *)
(* compare-and-swap uses a record read after the evaluation, a generation  *)
(* that was acquired in between is never released by it.                   *)
MachineReleasesWhatItEvaluated ==
    [][MachineRelease => tick.evaluated = pause.gen]_vars

(* A pause that an operator (or the configured startup pause) holds ends   *)
(* only in an operator resume, whatever reclassification, repair or        *)
(* verification the machine performed on it meanwhile.                     *)
HumanPauseEndsByHuman ==
    [][Released /\ pause.owner \in HumanOwners => OperatorRelease]_vars

(* No machine step takes over a pause a human holds, nor does the entry of *)
(* the one-shot mode, which writes an owner.                               *)
HumanKeepsCustody ==
    [][pause.entries /\ pause'.entries /\ pause.owner \in HumanOwners
       => pause'.owner \in HumanOwners]_vars

(* The one-shot canary is consumed by an entry that finds entries open and *)
(* leaves them paused: a pause that the recovery thread acquires between   *)
(* the entry's gate and its reservation, on evidence older than both, is   *)
(* neither bought through nor written over.                                *)
OneShotConsumed == loop.pc = "reserve" /\ "CANARY_NOT_ARMED" \in signals' \ signals
OneShotEntersOpen ==
    [][OneShotConsumed => ~pause.entries /\ pause'.entries]_vars

(* When the machine releases a repairable pause, a MANUAL_ONLY pause whose *)
(* stamp it cleared, or one that needs clean evidence, a clean             *)
(* reconciliation that finished after the acquisition has been published.  *)
MachineReleaseHasCleanEvidence ==
    [][/\ MachineRelease
       /\ \/ pause.policy = "AUTO_AFTER_REPAIR"
          \/ pause.cause \in CleanAfterPauseCauses \cup ManualCauses
       => recon.cleanAt >= pause.acquired]_vars

(* A repairable pause is released by the machine only in the generation    *)
(* whose repair reconciliation verified: the stamp of an earlier           *)
(* generation never opens a later one.                                     *)
RepairVerifiedForThisPause ==
    [][MachineRelease /\ pause.policy = "AUTO_AFTER_REPAIR"
       => pause.verified = pause.gen]_vars

(* The machine releases only after a stability window of this very pause   *)
(* has run out (SYSTEM_CONTEXT.md: clean gates must remain stable for the  *)
(* configured window before auto release).                                 *)
StabilityBeforeRelease ==
    [][MachineRelease => pause.eligible = "elapsed"]_vars

(* The pause is an implementation of EntryCustody: under all the changes   *)
(* of cause and policy the machine performs, custody moves only as there.  *)
CustodianOf(p) == IF ~p.entries THEN "nobody"
                  ELSE IF p.owner \in HumanOwners THEN "human" ELSE "machine"

Custody == INSTANCE EntryCustody
           WITH custodian <- CustodianOf(pause), ticket <- pause.gen,
                resuming <- loop.pc = "resume_release"

RefinesCustody == Custody!CustodySpec

(* Once the environment stays quiet and every gate it controls is open,    *)
(* entries are enabled again for good, unless the pause is one the machine *)
(* may not end: a human's, or MANUAL_ONLY for a cause reconciliation       *)
(* cannot prove gone.                                                      *)
LeftToOperator ==
    \/ pause.owner \in HumanOwners
    \/ pause.policy = "MANUAL_ONLY" /\ pause.cause \notin ReconciliationCauses

RecoversUnlessManual ==
    <>[](signals = {}) => <>[](~pause.entries \/ LeftToOperator)

(* A financial blocker that stays is not survived by enabled entries:      *)
(* whatever releases were already under way, from some point on entries    *)
(* are paused.                                                             *)
PersistentBlockerPauses ==
    <>[](signals \cap FinancialSignals # {}) => <>[]pause.entries

(* pause_recovery.py: an operator, risk or compliance decision is not      *)
(* something the machine may reverse on its own.                           *)
DecisionsReversedOnlyByOperator ==
    [][MachineRelease => ~decided]_vars
=============================================================================
