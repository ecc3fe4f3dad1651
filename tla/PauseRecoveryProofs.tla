------------------------- MODULE PauseRecoveryProofs -------------------------
(* Proofs about PauseRecovery, for every value of its constants.           *)
EXTENDS PauseRecovery, TLAPS

-----------------------------------------------------------------------------
(* What the transactions of PauseRecord do to a record.                    *)

LEMMA Successor == \A n \in Nat : n + 1 \in Nat /\ n < n + 1 /\ n + 1 # 0
  OBVIOUS

LEMMA AgeSuccessor == \A n \in 0..2 : n < 2 => n + 1 \in 0..2
  OBVIOUS

LEMMA GenerationType == \A p \in PauseRecords : p.gen \in Nat /\ p.age \in 0..2
  BY DEF PauseRecords

(* A freshly acquired pause is a well-formed record.                       *)
LEMMA FreshType ==
    ASSUME NEW state \in PauseState, NEW owner \in Owners, NEW cause \in Causes,
           NEW policy \in ReleasePolicy, NEW gen \in Nat
    PROVE  [entries |-> TRUE, state |-> state, owner |-> owner, cause |-> cause,
            policy |-> policy, gen |-> gen, acquired |-> gen, verified |-> 0,
            eligible |-> "", age |-> 0, shape |-> FALSE] \in PauseRecords
  BY DEF PauseRecords

(* Every transaction leaves a well-formed record behind.                   *)
LEMMA AcquireType ==
    ASSUME NEW p \in PauseRecords, NEW reason \in Causes,
           NEW owner \in {"OPERATOR", "MACHINE", "RECONCILIATION"}
    PROVE  AfterAcquire(p, reason, owner) \in PauseRecords
<1>1. recovery_policy(reason) \in ReleasePolicy
  BY DEF recovery_policy, ReleasePolicy
<1>2. p.gen \in Nat
  BY DEF PauseRecords
<1>3. PICK next \in Nat : next = p.gen + 1
  BY <1>2
<1>4. {"PAUSED_MANUAL_ONLY", "PAUSED_RECOVERING"} \subseteq PauseState
  BY DEF PauseState
<1>5. owner \in Owners
  BY DEF Owners, HumanOwners, RepairOwners
<1>6. CASE AcquireRejected(p, reason, owner)
  BY <1>6 DEF AfterAcquire
<1>7. CASE ~AcquireRejected(p, reason, owner)
  <2> DEFINE state == IF recovery_policy(reason) = "MANUAL_ONLY"
                      THEN "PAUSED_MANUAL_ONLY" ELSE "PAUSED_RECOVERING"
  <2>1. state \in PauseState
    BY <1>4
  <2>2. AfterAcquire(p, reason, owner) =
          [entries |-> TRUE, state |-> state, owner |-> owner, cause |-> reason,
           policy |-> recovery_policy(reason), gen |-> next, acquired |-> next,
           verified |-> 0, eligible |-> "", age |-> 0, shape |-> FALSE]
    BY <1>3, <1>7 DEF AfterAcquire
  <2> HIDE DEF state
  <2> QED
    BY <1>1, <1>5, <2>1, <2>2, FreshType
<1> QED
  BY <1>6, <1>7

LEMMA RepairTypes ==
    ASSUME NEW p \in PauseRecords, NEW at \in Nat, NEW unresolved \in BOOLEAN
    PROVE  /\ AfterPromote(p, at, unresolved) \in PauseRecords
           /\ AfterReclassifyTransient(p) \in PauseRecords
           /\ AfterScoped(p) \in PauseRecords
           /\ AfterEscalate(p) \in PauseRecords
           /\ AfterCanary(p) \in PauseRecords
           /\ AfterRelease(p) \in PauseRecords
<1>1. {"RECONCILIATION_TEMPORARY_ERROR", "RECONCILIATION_GAP", ""} \subseteq Causes
  BY DEF Causes, KnownCauses, TransientCauses, RepairableCauses
<1>g. p.gen \in Nat
  BY DEF PauseRecords
<1>n. PICK next \in Nat : next = p.gen + 1
  BY <1>g
<1>2. AfterPromote(p, at, unresolved) \in PauseRecords
  BY DEF AfterPromote, PauseRecords
<1>3. AfterReclassifyTransient(p) \in PauseRecords
  BY <1>1, <1>n DEF AfterReclassifyTransient, PauseRecords, PauseState, ReleasePolicy
<1>4. AfterScoped(p) \in PauseRecords
  BY <1>1, <1>n DEF AfterScoped, PauseRecords, PauseState, ReleasePolicy
<1>5. AfterEscalate(p) \in PauseRecords
  BY <1>n DEF AfterEscalate, PauseRecords, PauseState, ReleasePolicy
<1>6. AfterCanary(p) \in PauseRecords
  BY DEF AfterCanary, PauseRecords, Owners, HumanOwners, RepairOwners
<1>7. AfterRelease(p) \in PauseRecords
  BY <1>1 DEF AfterRelease, PauseRecords, PauseState, ReleasePolicy, Owners,
              HumanOwners, RepairOwners
<1> QED BY <1>2, <1>3, <1>4, <1>5, <1>6, <1>7

LEMMA RecoveryTypes ==
    ASSUME NEW p \in PauseRecords, NEW gen \in Nat, NEW cause \in Causes
    PROVE  /\ AfterWaiting(p, gen) \in PauseRecords
           /\ AfterReset(p, gen) \in PauseRecords
           /\ AfterDeescalate(p, gen, cause) \in PauseRecords
  BY DEF AfterWaiting, AfterReset, AfterDeescalate, PauseRecords, PauseState,
         ReleasePolicy

(* The cause a blocker is paused for is a cause of the table.              *)
LEMMA SignalCauseType ==
    ASSUME NEW code \in DOMAIN SignalCause
    PROVE  SignalCause[code] \in Causes
<1>1. SignalCause[code] \in
        {"MARKET_WS_DOWN", "MARKET_DATA_STALE", "BOOK_NOT_READY",
         "USER_WS_DOWN", "USER_WS_STALE", "MARKET_DATA_NOT_READY",
         "KILL_SWITCH_ACTIVE", "RECONCILIATION_GAP",
         "GEOGRAPHIC_AVAILABILITY_FAILED", "GEOGRAPHIC_EVIDENCE_STALE",
         "CONFIG_INVALID", "PROVENANCE_UNVERIFIED", "CANARY_NOT_ARMED"}
  BY DEF SignalCause
<1>2. {"MARKET_WS_DOWN", "MARKET_DATA_STALE", "BOOK_NOT_READY",
       "USER_WS_DOWN", "USER_WS_STALE", "MARKET_DATA_NOT_READY",
       "KILL_SWITCH_ACTIVE", "RECONCILIATION_GAP",
       "GEOGRAPHIC_AVAILABILITY_FAILED", "GEOGRAPHIC_EVIDENCE_STALE",
       "CONFIG_INVALID", "PROVENANCE_UNVERIFIED", "CANARY_NOT_ARMED"}
      \subseteq Causes
  BY DEF Causes, KnownCauses, TransientCauses, RepairableCauses, ManualCauses
<1> QED
  BY <1>1, <1>2

LEMMA CauseType ==
    ASSUME NEW code \in DOMAIN SignalCause \cup DerivedCodes,
           recon.reason \in ReconReasons \cup {""}
    PROVE  CauseFor(code) \in Causes
<1>1. ReconReasons \subseteq Causes
  BY DEF ReconReasons, Causes, KnownCauses, TransientCauses, RepairableCauses,
         ManualCauses
<1>2. code \in DOMAIN SignalCause => SignalCause[code] \in Causes
  BY SignalCauseType
<1>3. {"RECONCILIATION_FAILED", "HEARTBEAT_FAILURE",
       "RECOVERY_MONITOR_TEMPORARY_ERROR", ""} \subseteq Causes
  BY DEF Causes, KnownCauses, TransientCauses, ManualCauses
<1> QED
  BY <1>1, <1>2, <1>3 DEF CauseFor

-----------------------------------------------------------------------------
(* Type correctness.  "ok" is not a cause: TypeOK alone is not inductive,  *)
(* a run that pauses entries must be known to have failed.                 *)

FailureBehindPause == loop.pc = "publish_pause" => loop.outcome # "ok"

TypeInv == TypeOK /\ FailureBehindPause

LEMMA IdleTypes ==
    /\ NoRecord \in PauseRecords
    /\ IdleTick \in TickStates
    /\ IdleLoop \in LoopStates
<1>1. NoRecord \in PauseRecords
  BY DEF NoRecord, SeedRecord, PauseRecords, PauseState, ReleasePolicy, Owners,
         HumanOwners, RepairOwners, Causes
<1>2. Claim(NoRecord) \in Claims
  BY <1>1 DEF Claim, Claims, PauseRecords
<1>3. "idle" \in TickPCs /\ "idle" \in LoopPCs
  BY DEF TickPCs, LoopPCs
<1> QED
  BY <1>1, <1>2, <1>3 DEF IdleTick, IdleLoop, TickStates, LoopStates

LEMMA ClaimType == ASSUME NEW p \in PauseRecords PROVE Claim(p) \in Claims
  BY DEF Claim, Claims, PauseRecords

LEMMA InitType == Init => TypeOK
<1> SUFFICES ASSUME Init PROVE TypeOK
  OBVIOUS
<1>1. pause \in PauseRecords
  <2>1. /\ "RECONCILIATION_FAILED" \in Causes
        /\ "CONFIGURED_STARTUP_PAUSE" \in Causes
    BY DEF Causes, KnownCauses, ManualCauses
  <2>2. "PAUSED_MANUAL_ONLY" \in PauseState /\ "MANUAL_ONLY" \in ReleasePolicy
    BY DEF PauseState, ReleasePolicy
  <2>3. "STARTUP" \in Owners /\ "RECONCILIATION" \in Owners
    BY DEF Owners, HumanOwners, RepairOwners
  <2>4. SeedRecord(TRUE) \in PauseRecords
    BY <2>1, <2>2, <2>3 DEF SeedRecord, PauseRecords
  <2>5. LegacyShapePause \in PauseRecords
    BY <2>1, <2>2, <2>3 DEF LegacyShapePause, PauseRecords
  <2> QED
    BY <2>4, <2>5, IdleTypes DEF Init, NoRecord
<1>2. loop \in LoopStates
  BY IdleTypes DEF Init, LoopStates, LoopPCs
<1>3. recon \in [ready: BOOLEAN, reason: ReconReasons \cup {""}, cleanAt: Nat,
                 recent: BOOLEAN]
  BY DEF Init
<1> QED
  BY <1>1, <1>2, <1>3, IdleTypes DEF Init, TypeOK

\* Every action keeps the types: first the actions of the recovery thread.
LEMMA TickType ==
    ASSUME TypeOK, Tick \/ TickFail
    PROVE  TypeOK'
<1> USE DEF TypeOK
<1>1. CASE TickStart
  BY <1>1 DEF TickStart, TickStates, TickPCs
<1>2. CASE TickEscalate
  BY <1>2, RepairTypes DEF TickEscalate, TickStates, TickPCs
<1>3. CASE TickReadPause
  BY <1>3 DEF TickReadPause, TickStates, TickPCs
<1>4. CASE TickEvaluate
  <2>1. tick' \in TickStates
    <3>1. \A p \in PauseRecords : p.gen \in Nat
      BY DEF PauseRecords
    <3>2. \A p, m, c : SnapshotBlockers(p, m, c)
                          \subseteq DOMAIN SignalCause \cup DerivedCodes
      BY PauseRecoveryAssumption DEF SnapshotBlockers
    <3>3. ManualCauseResolved(tick.seen) \in BOOLEAN
      BY DEF ManualCauseResolved
    <3> QED
      BY <1>4, <3>1, <3>2, <3>3, IdleTypes DEF TickEvaluate, TickStates, TickPCs
  <2> QED
    BY <1>4, <2>1 DEF TickEvaluate
<1>5. CASE TickAcquire
  <2>1. pause' \in PauseRecords /\ decided' \in BOOLEAN
    <3>1. \A c \in tick.codes : CauseFor(c) \in Causes
      BY CauseType DEF TickStates
    <3>2. ASSUME NEW c \in Causes, Acquire(c, "MACHINE")
          PROVE  pause' \in PauseRecords /\ decided' \in BOOLEAN
      BY <3>2, AcquireType DEF Acquire
    <3> DEFINE Causing(due) == {CauseFor(x) : x \in
                       {y \in tick.codes : ~Debounced(y)} \cup due} \ {""}
    <3>3. PICK due \in SUBSET {c \in tick.codes : Debounced(c)} :
             \/ UNCHANGED <<pause, decided>>
             \/ \E c \in Strongest(Causing(due)) : Acquire(c, "MACHINE")
      BY <1>5, Zenon DEF TickAcquire
    <3>4. Causing(due) \subseteq Causes
      BY <3>1, ZenonT(60)
    <3>5. Strongest(Causing(due)) \subseteq Causes
      BY <3>4 DEF Strongest
    <3> HIDE DEF Causing
    <3> QED
      BY <3>2, <3>3, <3>5
  <2>2. tick' \in TickStates
    BY <1>5 DEF TickAcquire, TickStates, TickPCs
  <2> QED
    BY <1>5, <2>1, <2>2 DEF TickAcquire
<1>6. CASE TickReadRecord
  <2>1. NextStep(pause) \in TickPCs
    BY DEF NextStep, TickPCs, PauseRecords
  <2>2. tick' \in TickStates
    BY <1>6, <2>1, IdleTypes, ClaimType DEF TickReadRecord, TickStates
  <2> QED
    BY <1>6, <2>2 DEF TickReadRecord
<1>7. CASE TickReset
  BY <1>7, RecoveryTypes, IdleTypes DEF TickReset, TickStates, Claims
<1>8. CASE TickWait
  BY <1>8, RecoveryTypes, IdleTypes DEF TickWait, TickStates, Claims
<1>9. CASE TickDeescalate
  BY <1>9, RecoveryTypes DEF TickDeescalate, TickStates, TickPCs, Claims
<1>10. CASE TickRelease
  BY <1>10, RepairTypes, IdleTypes DEF TickRelease
<1>11. CASE TickDegrade
  <2>1. "RECOVERY_MONITOR_TEMPORARY_ERROR" \in Causes
    BY DEF Causes, KnownCauses, TransientCauses
  <2> QED
    BY <1>11, <2>1, AcquireType, IdleTypes DEF TickDegrade, Acquire
<1>13. CASE TickObserve
  <2>1. tick' \in TickStates
    BY <1>13, PauseRecoveryAssumption DEF TickObserve, TickStates, TickPCs
  <2> QED
    BY <1>13, <2>1 DEF TickObserve
<1>12. CASE TickFail
  <2>1. faults' \in Nat
    BY <1>12, Successor, Zenon DEF TickFail
  <2>2. tick' \in TickStates
    BY <1>12, IdleTypes DEF TickFail, TickStates, TickPCs
  <2> QED
    BY <1>12, <2>1, <2>2 DEF TickFail
<1> HIDE DEF TypeOK
<1> QED
  BY <1>1, <1>2, <1>3, <1>4, <1>5, <1>6, <1>7, <1>8, <1>9, <1>10, <1>11, <1>12,
     <1>13 DEF Tick

\* The actions of the event loop and of the environment.
LEMMA LoopType ==
    ASSUME TypeOK, FailureBehindPause, CanaryNext, ~Tick, ~TickFail
    PROVE  TypeOK'
<1> USE DEF TypeOK
<1>0. /\ RuntimeReasons \subseteq Causes
      /\ OperatorReasons \subseteq Causes
      /\ ReconFailures \subseteq ReconReasons
      /\ ReconReasons \subseteq Causes
  <2>1. {"OPERATOR_PAUSE", "EMERGENCY_CLOSE_REQUESTED"} \subseteq Causes
    BY DEF Causes, KnownCauses, ManualCauses
  <2>2. ReconReasons \subseteq Causes
    BY DEF ReconReasons, Causes, KnownCauses, TransientCauses,
           RepairableCauses, ManualCauses
  <2> QED
    BY <2>1, <2>2, PauseRecoveryAssumption
<1>a. ASSUME NEW reason \in Causes, NEW owner \in {"OPERATOR", "MACHINE", "RECONCILIATION"},
             Acquire(reason, owner)
      PROVE  pause' \in PauseRecords /\ decided' \in BOOLEAN
  BY <1>a, AcquireType DEF Acquire
<1>f. faults' = faults \/ faults' = faults + 1 => faults' \in Nat
  BY Successor, Zenon
<1>n. pause.gen \in Nat
  BY DEF PauseRecords
<1>1. CASE Boot
  <2>1. /\ "SAFETY_STARTUP_HOLD" \in Causes
        /\ "CONFIG_INVALID" \in Causes
        /\ "PROVENANCE_UNVERIFIED" \in Causes
    BY DEF Causes, KnownCauses, TransientCauses, ManualCauses
  <2>2. PICK invalid \in SUBSET (Signals \cap ProcessSignals) :
          LET gate(p, code) == IF code \in invalid
                               THEN AfterAcquire(p, code, "MACHINE") ELSE p
              held == AfterAcquire(pause, "SAFETY_STARTUP_HOLD", "MACHINE")
          IN  /\ signals' = (signals \ ProcessSignals) \cup invalid
              /\ pause' = gate(gate(held, "CONFIG_INVALID"), "PROVENANCE_UNVERIFIED")
    BY <1>1 DEF Boot
  <2>3. pause' \in PauseRecords
    BY <2>1, <2>2, AcquireType
  <2>4. signals' \subseteq Signals
    BY <2>2
  <2> QED
    BY <1>1, <2>3, <2>4, IdleTypes DEF Boot
<1>2. CASE ReconClean
  BY <1>2, <1>n DEF ReconClean, LoopStates, LoopPCs
<1>3. ASSUME NEW outcome \in ReconFailures, ReconUnclean(outcome) PROVE TypeOK'
  <2>1. loop' \in LoopStates
    BY <1>0, <1>3 DEF ReconUnclean, LoopStates, LoopPCs
  <2>2. signals' \subseteq Signals
    BY <1>3 DEF ReconUnclean
  <2> QED
    BY <1>3, <1>f, <2>1, <2>2 DEF ReconUnclean
<1>4. CASE PublishPause
  <2>1. loop.outcome \in ReconReasons
    BY <1>4 DEF PublishPause, FailureBehindPause, LoopStates
  <2>3. loop' \in LoopStates
    BY <1>4 DEF PublishPause, LoopStates, LoopPCs
  <2>4. pause' \in PauseRecords /\ decided' \in BOOLEAN
    BY <1>0, <1>4, <1>a, <2>1 DEF PublishPause
  <2> QED
    BY <1>4, <2>3, <2>4 DEF PublishPause
<1>5. CASE PublishFlags
  <2>1. loop' \in LoopStates /\ up' \in BOOLEAN
    BY <1>5, IdleTypes DEF PublishFlags, LoopStates, LoopPCs
  <2>2. recon' \in [ready: BOOLEAN, reason: ReconReasons \cup {""},
                    cleanAt: Nat, recent: BOOLEAN]
    <3>1. loop.at \in Nat /\ loop.outcome \in ReconReasons \cup {"ok"}
      BY DEF LoopStates
    <3>2. CASE loop.outcome = "ok"
      <4>1. recon' = [ready |-> TRUE, reason |-> "", cleanAt |-> loop.at,
                      recent |-> TRUE]
        BY <1>5, <3>2 DEF PublishFlags
      <4> HIDE DEF TypeOK
      <4> QED
        BY <3>1, <4>1
    <3>3. CASE loop.outcome # "ok"
      BY <1>5, <3>1, <3>3 DEF PublishFlags
    <3> QED
      BY <3>2, <3>3
  <2> QED
    BY <1>5, <2>1, <2>2 DEF PublishFlags
<1>6. CASE PublishReclassify
  BY <1>6, RepairTypes DEF PublishReclassify, LoopStates, LoopPCs
<1>7. CASE PublishPromote
  <2>1. loop.at \in Nat /\ (signals \cap FinancialSignals # {}) \in BOOLEAN
    BY DEF LoopStates
  <2> QED
    BY <1>7, <2>1, RepairTypes, IdleTypes DEF PublishPromote
<1>8. CASE ScopedRepair
  BY <1>8, <1>f, RepairTypes DEF ScopedRepair
<1>9. ASSUME NEW reason \in RuntimeReasons, RuntimePause(reason) PROVE TypeOK'
  BY <1>0, <1>9, <1>a, <1>f DEF RuntimePause
<1>10. ASSUME NEW reason \in OperatorReasons, OperatorPause(reason) PROVE TypeOK'
  BY <1>0, <1>10, <1>a, <1>f DEF OperatorPause
<1>11. CASE HeartbeatOk
  BY <1>11, <1>n DEF HeartbeatOk
<1>12. CASE HeartbeatFailed
  BY <1>12, <1>f DEF HeartbeatFailed, LoopStates, LoopPCs
<1>13. CASE HeartbeatPause
  <2>1. "HEARTBEAT_FAILURE" \in Causes
    BY DEF Causes, KnownCauses, TransientCauses
  <2> QED
    BY <1>13, <1>a, <2>1, IdleTypes DEF HeartbeatPause
<1>14. CASE CanaryGate
  BY <1>14, <1>f DEF CanaryGate, LoopStates, LoopPCs
<1>15. CASE CanaryReserve
  BY <1>15, RepairTypes, IdleTypes DEF CanaryReserve
<1>16. CASE ResumeReadPause
  BY <1>16 DEF ResumeReadPause, LoopStates, LoopPCs
<1>17. CASE ResumeEvaluate
  <2>1. loop.seen.gen \in Nat
    BY GenerationType DEF LoopStates
  <2>2. loop' \in LoopStates
    BY <1>17, <2>1, IdleTypes DEF ResumeEvaluate, LoopStates, LoopPCs
  <2> QED
    BY <1>17, <2>2 DEF ResumeEvaluate
<1>18. CASE ResumeReadRecord
  BY <1>18, IdleTypes, ClaimType DEF ResumeReadRecord, LoopStates, LoopPCs
<1>19. CASE ResumeRelease
  BY <1>19, RepairTypes, IdleTypes DEF ResumeRelease
<1>20. ASSUME NEW code \in Signals, Raise(code) \/ Clear(code) PROVE TypeOK'
  BY <1>20, <1>f DEF Raise, Clear
<1>21. CASE StabilityElapses
  BY <1>21 DEF StabilityElapses, PauseRecords
<1>22. CASE PauseAges
  <2>1. pause.age + 1 \in 0..2
    BY <1>22, AgeSuccessor, GenerationType DEF PauseAges
  <2> QED
    BY <1>22, <2>1 DEF PauseAges, PauseRecords
<1>23. CASE EvidenceAges
  BY <1>23, <1>f DEF EvidenceAges
<1>24. CASE Crash
  BY <1>24, <1>f, IdleTypes DEF Crash, LoopStates, LoopPCs
<1> HIDE DEF TypeOK
<1> QED
  BY <1>1, <1>2, <1>3, <1>4, <1>5, <1>6, <1>7, <1>8, <1>9, <1>10, <1>11, <1>12,
     <1>13, <1>14, <1>15, <1>16, <1>17, <1>18, <1>19, <1>20, <1>21, <1>22,
     <1>23, <1>24
     DEF CanaryNext, Next, Handler

LEMMA FailureStep == ASSUME [CanaryNext]_vars, FailureBehindPause, TypeOK PROVE FailureBehindPause'
<1>1. \A outcome \in ReconFailures : outcome # "ok"
  BY PauseRecoveryAssumption DEF ReconReasons
<1>2. IdleLoop.pc = "idle"
  BY DEF IdleLoop
<1>3. CASE UNCHANGED loop
  BY <1>3 DEF FailureBehindPause
<1>4. ASSUME NEW outcome \in ReconFailures, ReconUnclean(outcome)
      PROVE  FailureBehindPause'
  BY <1>1, <1>4 DEF ReconUnclean, FailureBehindPause, TypeOK, LoopStates
<1>5. CASE loop'.pc # "publish_pause"
  BY <1>5 DEF FailureBehindPause
<1>6. \/ UNCHANGED loop
      \/ \E outcome \in ReconFailures : ReconUnclean(outcome)
      \/ loop'.pc # "publish_pause"
  <2> SUFFICES ASSUME CanaryNext, ~UNCHANGED loop,
                      \A outcome \in ReconFailures : ~ReconUnclean(outcome)
               PROVE  loop'.pc # "publish_pause"
    BY DEF vars
  <2>1. CASE loop' = IdleLoop
    BY <1>2, <2>1
  <2>2. CASE Boot \/ PublishPromote \/ HeartbeatPause \/ CanaryReserve \/ ResumeRelease
    BY <2>1, <2>2 DEF Boot, PublishPromote, HeartbeatPause, CanaryReserve, ResumeRelease
  <2>3. CASE \/ ReconClean \/ PublishPause \/ PublishReclassify \/ HeartbeatFailed
             \/ CanaryGate \/ ResumeReadPause
    BY <2>3 DEF ReconClean, PublishPause, PublishReclassify, HeartbeatFailed,
                CanaryGate, ResumeReadPause, TypeOK, LoopStates
  <2>4. CASE PublishFlags \/ ResumeEvaluate \/ ResumeReadRecord \/ Crash
    BY <1>2, <2>4 DEF PublishFlags, ResumeEvaluate, ResumeReadRecord, Crash,
                      IdleLoop, TypeOK, LoopStates
  <2> QED
    BY <2>2, <2>3, <2>4
       DEF CanaryNext, Next, Handler, Tick, TickStart, TickEscalate, TickReadPause,
           TickEvaluate, TickObserve, TickAcquire, TickReadRecord, TickReset, TickWait,
           TickDeescalate, TickRelease, TickDegrade, TickFail, ScopedRepair,
           RuntimePause, OperatorPause, HeartbeatOk, Raise, Clear,
           StabilityElapses, PauseAges, EvidenceAges
<1> QED
  BY <1>3, <1>4, <1>5, <1>6

LEMMA CanaryTypeInductive == TypeInv /\ [CanaryNext]_vars => TypeInv'
<1> SUFFICES ASSUME TypeInv, [CanaryNext]_vars PROVE TypeInv'
  OBVIOUS
<1>1. FailureBehindPause'
  BY FailureStep DEF TypeInv
<1>2. CASE UNCHANGED vars
  BY <1>1, <1>2 DEF vars, TypeOK, TypeInv
<1>3. CASE CanaryNext
  BY <1>1, <1>3, TickType, LoopType DEF TypeInv
<1> QED
  BY <1>2, <1>3

LEMMA TypeInductive == TypeInv /\ [Next]_vars => TypeInv'
  BY CanaryTypeInductive DEF CanaryNext

LEMMA TypeInitial == (Init => TypeInv) /\ (TypeInv => TypeOK)
  BY InitType DEF TypeInv, FailureBehindPause, Init, IdleLoop

(* Every variable keeps its type in every reachable state, whatever sets   *)
(* of signals, reasons and failures the constants give.                    *)
THEOREM TypeCorrect == Spec => []TypeOK
  BY TypeInitial, TypeInductive, PTL DEF Spec

(* The same where the one-shot entry writes the pause.                     *)
THEOREM CanaryTypeCorrect == CanarySpec => []TypeOK
  BY TypeInitial, CanaryTypeInductive, PTL DEF CanarySpec

-----------------------------------------------------------------------------
(* Who may end a pause, and on which evidence: proofs about continuous     *)
(* trading (Spec).  The one-shot canary entry (CanarySpec) writes the      *)
(* pause without a new generation, which is why it is left out here.       *)

HumanHeld(p) == p.entries /\ p.owner \in HumanOwners

\* Why no machine release can end a pause a human holds: it is MANUAL_ONLY for
\* a cause no evidence clears, or (after a scoped reclassification) a repair
\* that nobody verifies.
Shielded(p) ==
    HumanHeld(p) =>
       \/ p.policy = "MANUAL_ONLY" /\ p.cause \notin ReconciliationCauses
       \/ /\ p.policy = "AUTO_AFTER_REPAIR" /\ p.cause = "RECONCILIATION_GAP"
          /\ p.verified # p.gen

\* The two things a transaction outside the recovery thread does to a pause,
\* short of releasing it: take a new generation, or leave it where it is.
Renewed(p, q) ==
    /\ q.entries /\ p.gen < q.gen /\ q.eligible = ""
    /\ HumanHeld(p) => HumanHeld(q)
    /\ Shielded(q)

Kept(p, q) ==
    /\ q.gen = p.gen /\ q.acquired = p.acquired
    /\ q.entries <=> p.entries
    /\ q.owner = p.owner /\ q.cause = p.cause /\ q.policy = p.policy
    /\ \/ q.verified = p.verified
       \/ q.verified = p.gen /\ p.owner \in RepairOwners
    /\ q.eligible # p.eligible => p.eligible = "started" /\ q.eligible = "elapsed"

LEMMA KeptItself == ASSUME NEW p PROVE Kept(p, p)
  BY DEF Kept

LEMMA AcquireTurn ==
    ASSUME NEW p \in PauseRecords, NEW reason \in Causes,
           NEW owner \in {"OPERATOR", "MACHINE", "RECONCILIATION"},
           owner = "OPERATOR" => reason \in OperatorReasons
    PROVE  LET q == AfterAcquire(p, reason, owner)
           IN  q = p \/ Renewed(p, q)
<1> DEFINE q == AfterAcquire(p, reason, owner)
<1>1. CASE AcquireRejected(p, reason, owner)
  BY <1>1 DEF AfterAcquire
<1>2. CASE ~AcquireRejected(p, reason, owner)
  <2>1. /\ q.entries /\ q.eligible = "" /\ q.owner = owner /\ q.cause = reason
        /\ q.policy = recovery_policy(reason) /\ q.gen = p.gen + 1
    BY <1>2 DEF AfterAcquire
  <2>2. p.gen < q.gen
    BY <2>1, Successor, GenerationType
  <2>3. HumanHeld(p) => owner = "OPERATOR"
    BY <1>2 DEF AcquireRejected, HumanHeld, HumanOwners
  <2>4. HumanHeld(p) => HumanHeld(q)
    BY <2>1, <2>3 DEF HumanHeld, HumanOwners
  <2>5. Shielded(q)
    <3>1. HumanHeld(q) => owner = "OPERATOR"
      BY <2>1 DEF HumanHeld, HumanOwners
    <3>2. OperatorReasons \subseteq {"OPERATOR_PAUSE", "EMERGENCY_CLOSE_REQUESTED"}
      BY PauseRecoveryAssumption
    <3>3. \A r \in {"OPERATOR_PAUSE", "EMERGENCY_CLOSE_REQUESTED"} :
             recovery_policy(r) = "MANUAL_ONLY" /\ r \notin ReconciliationCauses
      BY DEF recovery_policy, ManualCauses, RepairableCauses, ReconciliationCauses
    <3> HIDE DEF q
    <3> QED
      BY <2>1, <3>1, <3>2, <3>3 DEF Shielded
  <2> QED
    BY <2>1, <2>2, <2>4, <2>5 DEF Renewed
<1> QED
  BY <1>1, <1>2

LEMMA ScopedTurn ==
    ASSUME NEW p \in PauseRecords
    PROVE  AfterScoped(p) = p \/ Renewed(p, AfterScoped(p))
<1>1. CASE ~p.entries
  BY <1>1 DEF AfterScoped
<1>2. CASE p.entries
  <2> DEFINE q == AfterScoped(p)
  <2>1. /\ q.entries /\ q.eligible = "" /\ q.owner = p.owner
        /\ q.cause = "RECONCILIATION_GAP" /\ q.policy = "AUTO_AFTER_REPAIR"
        /\ q.gen = p.gen + 1 /\ q.verified = 0
    BY <1>2 DEF AfterScoped, PauseRecords
  <2>2. p.gen < q.gen /\ q.verified # q.gen
    <3> HIDE DEF q
    <3> QED
      BY <2>1, Successor, GenerationType, Zenon
  <2> HIDE DEF q
  <2>3. Shielded(q)
    BY <2>1, <2>2 DEF Shielded
  <2>4. Renewed(p, q)
    BY <1>2, <2>1, <2>2, <2>3 DEF Renewed, HumanHeld
  <2> QED
    BY <2>4 DEF q
<1> QED
  BY <1>1, <1>2

LEMMA ReclassifyTurn ==
    ASSUME NEW p \in PauseRecords
    PROVE  LET q == AfterReclassifyTransient(p) IN q = p \/ Renewed(p, q)
<1> DEFINE q == AfterReclassifyTransient(p)
<1>1. CASE q = p
  BY <1>1
<1>2. CASE q # p
  <2>1. /\ q.entries /\ q.eligible = "" /\ q.owner = p.owner
        /\ q.gen = p.gen + 1 /\ p.owner \in RepairOwners
    BY <1>2 DEF AfterReclassifyTransient, PauseRecords
  <2>2. p.gen < q.gen
    BY <2>1, Successor, GenerationType
  <2> HIDE DEF q
  <2>3. ~HumanHeld(p) /\ ~HumanHeld(q)
    BY <2>1 DEF HumanHeld, HumanOwners, RepairOwners
  <2>4. Renewed(p, q)
    BY <2>1, <2>2, <2>3 DEF Renewed, Shielded
  <2> QED
    BY <2>4 DEF q
<1> QED
  BY <1>1, <1>2

LEMMA PromoteTurn ==
    ASSUME NEW p \in PauseRecords, NEW at, NEW unresolved
    PROVE  Kept(p, AfterPromote(p, at, unresolved))
  BY DEF AfterPromote, Kept, PauseRecords

LEMMA RenewedTwice ==
    ASSUME NEW p \in PauseRecords, NEW q \in PauseRecords, NEW r \in PauseRecords,
           q = p \/ Renewed(p, q), r = q \/ Renewed(q, r)
    PROVE  r = p \/ Renewed(p, r)
<1>1. p.gen \in Nat /\ q.gen \in Nat /\ r.gen \in Nat
  BY GenerationType
<1>2. p.gen < q.gen /\ q.gen < r.gen => p.gen < r.gen
  BY <1>1
<1> QED
  BY <1>2, Zenon DEF Renewed

-----------------------------------------------------------------------------
(* A step of the event loop or of the environment, as the recovery thread  *)
(* sees it: the pause is renewed, kept, or released by the operator.       *)
LEMMA OutsideStep ==
    ASSUME TypeInv, Next, ~Tick, ~TickFail
    PROVE  /\ Renewed(pause, pause') \/ Kept(pause, pause') \/ ResumeRelease
           /\ tick' = tick \/ tick' = IdleTick
           /\ \/ loop.pc = "resume_release" <=> loop'.pc = "resume_release"
              \/ pause' = pause
              \/ ResumeRelease
<1> DEFINE Goal == /\ Renewed(pause, pause') \/ Kept(pause, pause') \/ ResumeRelease
                   /\ tick' = tick \/ tick' = IdleTick
                   /\ \/ loop.pc = "resume_release" <=> loop'.pc = "resume_release"
                      \/ pause' = pause
                      \/ ResumeRelease
<1>p. pause \in PauseRecords /\ loop \in LoopStates
  BY DEF TypeInv, TypeOK
<1>i. IdleLoop.pc = "idle"
  BY DEF IdleLoop
<1>a. ASSUME NEW reason \in Causes, NEW owner \in {"OPERATOR", "MACHINE", "RECONCILIATION"},
             owner = "OPERATOR" => reason \in OperatorReasons,
             Acquire(reason, owner)
      PROVE  Renewed(pause, pause') \/ Kept(pause, pause')
  BY <1>a, <1>p, AcquireTurn, KeptItself DEF Acquire
<1>s. pause' = pause => Kept(pause, pause')
  BY KeptItself
<1>r. /\ RuntimeReasons \subseteq Causes /\ OperatorReasons \subseteq Causes
      /\ ReconReasons \subseteq Causes
      /\ "SAFETY_STARTUP_HOLD" \in Causes /\ "HEARTBEAT_FAILURE" \in Causes
      /\ "CONFIG_INVALID" \in Causes /\ "PROVENANCE_UNVERIFIED" \in Causes
  <2>1. {"OPERATOR_PAUSE", "EMERGENCY_CLOSE_REQUESTED"} \subseteq Causes
    BY DEF Causes, KnownCauses, ManualCauses
  <2>2. ReconReasons \subseteq Causes
    BY DEF ReconReasons, Causes, KnownCauses, TransientCauses,
           RepairableCauses, ManualCauses
  <2>3. /\ "SAFETY_STARTUP_HOLD" \in Causes /\ "HEARTBEAT_FAILURE" \in Causes
        /\ "CONFIG_INVALID" \in Causes /\ "PROVENANCE_UNVERIFIED" \in Causes
    BY DEF Causes, KnownCauses, TransientCauses, ManualCauses
  <2> QED
    BY <2>1, <2>2, <2>3, PauseRecoveryAssumption
<1>1. CASE Boot
  <2> DEFINE held == AfterAcquire(pause, "SAFETY_STARTUP_HOLD", "MACHINE")
  <2>1. \A p \in PauseRecords, c \in Causes :
           LET q == AfterAcquire(p, c, "MACHINE")
           IN  q \in PauseRecords /\ (q = p \/ Renewed(p, q))
    BY AcquireTurn, AcquireType
  <2>2. PICK invalid \in SUBSET (Signals \cap ProcessSignals) :
          LET gate(p, code) == IF code \in invalid
                               THEN AfterAcquire(p, code, "MACHINE") ELSE p
          IN  pause' = gate(gate(held, "CONFIG_INVALID"), "PROVENANCE_UNVERIFIED")
    BY <1>1, Zenon DEF Boot
  <2> DEFINE valid == IF "CONFIG_INVALID" \in invalid
                      THEN AfterAcquire(held, "CONFIG_INVALID", "MACHINE") ELSE held
  <2>3. held \in PauseRecords /\ (held = pause \/ Renewed(pause, held))
    BY <1>p, <1>r, <2>1
  <2>4. valid \in PauseRecords /\ (valid = held \/ Renewed(held, valid))
    BY <1>r, <2>1, <2>3
  <2>5. /\ pause' \in PauseRecords
        /\ pause' = valid \/ Renewed(valid, pause')
    BY <1>r, <2>1, <2>2, <2>4
  <2> HIDE DEF held, valid
  <2>6. valid = pause \/ Renewed(pause, valid)
    BY <1>p, <2>3, <2>4, RenewedTwice
  <2>7. pause' = pause \/ Renewed(pause, pause')
    BY <1>p, <2>4, <2>5, <2>6, RenewedTwice
  <2> QED
    BY <1>1, <1>i, <1>s, <2>7 DEF Boot
<1>2. CASE \/ ReconClean \/ HeartbeatFailed \/ ResumeReadPause \/ ResumeEvaluate
           \/ ResumeReadRecord \/ HeartbeatOk \/ PublishFlags \/ EvidenceAges
           \/ Crash
  <2>1. pause' = pause /\ (tick' = tick \/ tick' = IdleTick)
    BY <1>2 DEF ReconClean, HeartbeatFailed, ResumeReadPause, ResumeEvaluate,
                ResumeReadRecord, HeartbeatOk, PublishFlags, EvidenceAges,
                Crash
  <2> QED
    BY <1>s, <2>1
<1>3. ASSUME \/ \E outcome \in ReconFailures : ReconUnclean(outcome)
             \/ \E code \in Signals : Raise(code) \/ Clear(code)
      PROVE  Goal
  <2>1. pause' = pause /\ tick' = tick
    BY <1>3 DEF ReconUnclean, Raise, Clear
  <2> QED
    BY <1>s, <2>1
<1>4. CASE PublishPause
  <2>1. loop.outcome \in ReconReasons /\ loop'.pc = "publish_flags"
    BY <1>4, <1>p DEF PublishPause, TypeInv, FailureBehindPause, LoopStates
  <2>2. Renewed(pause, pause') \/ Kept(pause, pause')
    BY <1>4, <1>a, <1>r, <2>1 DEF PublishPause
  <2> QED
    BY <1>4, <2>1, <2>2 DEF PublishPause
<1>5. CASE PublishReclassify
  <2>1. Renewed(pause, pause') \/ Kept(pause, pause')
    BY <1>5, <1>p, <1>s, ReclassifyTurn DEF PublishReclassify
  <2>2. loop'.pc = "promote"
    BY <1>5, <1>p DEF PublishReclassify, LoopStates
  <2> QED
    BY <1>5, <2>1, <2>2 DEF PublishReclassify
<1>6. CASE PublishPromote
  <2>1. Kept(pause, pause')
    BY <1>6, <1>p, PromoteTurn DEF PublishPromote
  <2> QED
    BY <1>6, <1>i, <2>1 DEF PublishPromote
<1>7. CASE ScopedRepair
  <2>1. Renewed(pause, pause') \/ Kept(pause, pause')
    BY <1>7, <1>p, <1>s, ScopedTurn DEF ScopedRepair
  <2> QED
    BY <1>7, <2>1 DEF ScopedRepair
<1>8. ASSUME \/ \E reason \in RuntimeReasons : RuntimePause(reason)
             \/ \E reason \in OperatorReasons : OperatorPause(reason)
      PROVE  Goal
  <2>1. Renewed(pause, pause') \/ Kept(pause, pause')
    BY <1>8, <1>a, <1>r DEF RuntimePause, OperatorPause
  <2> QED
    BY <1>8, <2>1 DEF RuntimePause, OperatorPause
<1>9. CASE HeartbeatPause
  <2>1. Renewed(pause, pause') \/ Kept(pause, pause')
    BY <1>9, <1>a, <1>r DEF HeartbeatPause
  <2> QED
    BY <1>9, <1>i, <2>1 DEF HeartbeatPause
<1>10. CASE StabilityElapses \/ PauseAges
  <2>1. Kept(pause, pause')
    BY <1>10, <1>p DEF StabilityElapses, PauseAges, Kept, PauseRecords
  <2> QED
    BY <1>10, <2>1 DEF StabilityElapses, PauseAges
<1>11. CASE ResumeRelease
  BY <1>11 DEF ResumeRelease
<1> QED
  BY <1>1, <1>2, <1>3, <1>4, <1>5, <1>6, <1>7, <1>8, <1>9, <1>10, <1>11
     DEF Next, Handler

-----------------------------------------------------------------------------
(* The inductive invariant.  What the recovery thread holds in its locals  *)
(* may be stale, and these three say how stale it can be: as soon as the   *)
(* generation moved, the stability stamp is gone (Renewed clears it and    *)
(* only this thread sets it), so that the release path is closed.          *)

SeenIsCurrent(t, p) ==
    t.pc = "evaluate" =>
       /\ t.seen.gen <= p.gen
       /\ t.seen.gen = p.gen \/ p.eligible = ""
       /\ t.seen.gen = p.gen /\ p.entries =>
             t.seen.entries /\ t.seen.policy = p.policy

EvaluationIsCurrent(t, p) ==
    t.pc \in {"observe", "acquire", "read_record"} =>
       /\ t.evaluated <= p.gen
       /\ t.evaluated = p.gen \/ p.eligible = ""
       /\ /\ t.evaluated = p.gen /\ p.entries
          /\ t.codes = {} /\ p.policy = "AUTO_AFTER_REPAIR"
          => p.verified = p.gen

ClaimIsCurrent(t, p) ==
    t.pc \in {"deescalate", "release"} =>
       /\ t.claim.gen <= p.gen
       /\ t.evaluated = t.claim.gen
       /\ t.claim.gen = p.gen /\ p.entries =>
             /\ p.eligible = "elapsed"
             /\ p.policy = "AUTO_AFTER_REPAIR" => p.verified = p.gen

TickView(t, p) == SeenIsCurrent(t, p) /\ EvaluationIsCurrent(t, p) /\ ClaimIsCurrent(t, p)

ReleaseInv == TypeInv /\ Shielded(pause) /\ TickView(tick, pause)

LEMMA Later == \A a, b, c \in Nat : a <= b /\ b < c => a <= c /\ a # c
  OBVIOUS

LEMMA IdleView == \A p : TickView(IdleTick, p)
  BY DEF TickView, SeenIsCurrent, EvaluationIsCurrent, ClaimIsCurrent, IdleTick

\* What the thread holds stays valid under what the others do to the pause.
LEMMA ViewKept ==
    ASSUME NEW t \in TickStates, NEW p \in PauseRecords, NEW q \in PauseRecords,
           TickView(t, p), Kept(p, q)
    PROVE  TickView(t, q)
<1>1. SeenIsCurrent(t, q)
  BY DEF TickView, SeenIsCurrent, Kept
<1>2. EvaluationIsCurrent(t, q)
  BY DEF TickView, EvaluationIsCurrent, Kept
<1>3. ClaimIsCurrent(t, q)
  BY DEF TickView, ClaimIsCurrent, Kept
<1> QED
  BY <1>1, <1>2, <1>3 DEF TickView

LEMMA ViewRenewed ==
    ASSUME NEW t \in TickStates, NEW p \in PauseRecords, NEW q \in PauseRecords,
           TickView(t, p), Renewed(p, q)
    PROVE  TickView(t, q)
<1>1. /\ p.gen \in Nat /\ q.gen \in Nat /\ t.seen.gen \in Nat
      /\ t.evaluated \in Nat /\ t.claim.gen \in Nat
  BY GenerationType DEF TickStates, Claims
<1>2. p.gen < q.gen /\ q.eligible = ""
  BY DEF Renewed
<1>3. \A x \in Nat : x <= p.gen => x <= q.gen /\ x # q.gen
  BY <1>1, <1>2, Later
<1>4. SeenIsCurrent(t, q)
  BY <1>1, <1>2, <1>3 DEF TickView, SeenIsCurrent
<1>5. EvaluationIsCurrent(t, q)
  BY <1>1, <1>2, <1>3 DEF TickView, EvaluationIsCurrent
<1>6. ClaimIsCurrent(t, q)
  BY <1>1, <1>2, <1>3 DEF TickView, ClaimIsCurrent
<1> QED
  BY <1>4, <1>5, <1>6 DEF TickView

LEMMA ViewReleased ==
    ASSUME NEW t \in TickStates, NEW p \in PauseRecords, TickView(t, p)
    PROVE  TickView(t, AfterRelease(p))
<1> DEFINE q == AfterRelease(p)
<1>1. ~q.entries /\ q.gen = p.gen /\ q.eligible = ""
  BY DEF AfterRelease, PauseRecords
<1> HIDE DEF q
<1>2. SeenIsCurrent(t, q)
  BY <1>1 DEF TickView, SeenIsCurrent
<1>3. EvaluationIsCurrent(t, q)
  BY <1>1 DEF TickView, EvaluationIsCurrent
<1>4. ClaimIsCurrent(t, q)
  BY <1>1 DEF TickView, ClaimIsCurrent
<1>5. TickView(t, q)
  BY <1>2, <1>3, <1>4 DEF TickView
<1> QED
  BY <1>5 DEF q

LEMMA ShieldKept ==
    ASSUME NEW p \in PauseRecords, NEW q, Shielded(p), Kept(p, q)
    PROVE  Shielded(q)
  BY DEF Shielded, Kept, HumanHeld, HumanOwners, RepairOwners

LEMMA EscalateTurn ==
    ASSUME NEW p \in PauseRecords, Shielded(p)
    PROVE  Shielded(AfterEscalate(p)) /\ (HumanHeld(p) <=> HumanHeld(AfterEscalate(p)))
<1>1. CASE AfterEscalate(p) = p
  BY <1>1
<1>2. CASE AfterEscalate(p) # p
  <2> DEFINE q == AfterEscalate(p)
  <2>1. /\ ~is_known_reason(p.cause) /\ q.cause = p.cause /\ q.owner = p.owner
        /\ q.entries /\ p.entries /\ q.policy = "MANUAL_ONLY"
    BY <1>2 DEF AfterEscalate, PauseRecords
  <2>2. q.cause \notin ReconciliationCauses
    BY <2>1 DEF is_known_reason, KnownCauses, TransientCauses, RepairableCauses,
                ManualCauses, ReconciliationCauses
  <2> HIDE DEF q
  <2>3. Shielded(q) /\ (HumanHeld(p) <=> HumanHeld(q))
    BY <2>1, <2>2 DEF Shielded, HumanHeld
  <2> QED
    BY <2>3 DEF q
<1> QED
  BY <1>1, <1>2

LEMMA DeescalateTurn ==
    ASSUME NEW p \in PauseRecords, NEW gen, NEW cause, Shielded(p)
    PROVE  LET q == AfterDeescalate(p, gen, cause)
           IN  /\ Shielded(q)
               /\ q.gen = p.gen /\ q.eligible = p.eligible /\ q.owner = p.owner
               /\ q.entries <=> p.entries
               /\ q.verified = p.verified
               /\ q.policy = "AUTO_AFTER_REPAIR" => p.policy = "AUTO_AFTER_REPAIR"
               /\ HumanHeld(p) => q = p
<1> DEFINE q == AfterDeescalate(p, gen, cause)
<1>1. CASE q = p
  BY <1>1
<1>2. CASE q # p
  <2>1. /\ p.policy = "MANUAL_ONLY" /\ p.cause \in ReconciliationCauses
        /\ q = [p EXCEPT !.policy = "AUTO_WHEN_CLEAN"]
    BY <1>2 DEF AfterDeescalate
  <2>2. ~HumanHeld(p)
    BY <2>1 DEF Shielded
  <2>3. /\ q.gen = p.gen /\ q.eligible = p.eligible /\ q.owner = p.owner
        /\ q.entries = p.entries /\ q.verified = p.verified
        /\ q.policy = "AUTO_WHEN_CLEAN"
    BY <2>1 DEF PauseRecords
  <2> HIDE DEF q
  <2>4. ~HumanHeld(q)
    BY <2>2, <2>3 DEF HumanHeld
  <2>5. Shielded(q)
    BY <2>4 DEF Shielded
  <2> QED
    BY <2>2, <2>3, <2>5 DEF q
<1> QED
  BY <1>1, <1>2

LEMMA StabilityTurn ==
    ASSUME NEW p \in PauseRecords, NEW gen, Shielded(p)
    PROVE  /\ Shielded(AfterReset(p, gen)) /\ Shielded(AfterWaiting(p, gen))
           /\ AfterReset(p, gen).gen = p.gen /\ AfterWaiting(p, gen).gen = p.gen
           /\ AfterReset(p, gen).owner = p.owner /\ AfterWaiting(p, gen).owner = p.owner
           /\ AfterReset(p, gen).entries <=> p.entries
           /\ AfterWaiting(p, gen).entries <=> p.entries
<1>1. /\ AfterReset(p, gen).entries = p.entries /\ AfterReset(p, gen).gen = p.gen
      /\ AfterReset(p, gen).owner = p.owner /\ AfterReset(p, gen).cause = p.cause
      /\ AfterReset(p, gen).policy = p.policy
      /\ AfterReset(p, gen).verified = p.verified
  BY DEF AfterReset, PauseRecords
<1>2. /\ AfterWaiting(p, gen).entries = p.entries /\ AfterWaiting(p, gen).gen = p.gen
      /\ AfterWaiting(p, gen).owner = p.owner /\ AfterWaiting(p, gen).cause = p.cause
      /\ AfterWaiting(p, gen).policy = p.policy
      /\ AfterWaiting(p, gen).verified = p.verified
  BY DEF AfterWaiting, PauseRecords
<1>3. Shielded(AfterReset(p, gen))
  BY <1>1 DEF Shielded, HumanHeld
<1>4. Shielded(AfterWaiting(p, gen))
  BY <1>2 DEF Shielded, HumanHeld
<1> QED
  BY <1>1, <1>2, <1>3, <1>4

LEMMA ReleasedIsShielded == ASSUME NEW p \in PauseRecords PROVE Shielded(AfterRelease(p))
  BY DEF Shielded, HumanHeld, AfterRelease, PauseRecords

(* The acquisition of a tick, as a turn of the pause.                      *)
LEMMA TickAcquireTurn ==
    ASSUME TypeInv, TickAcquire
    PROVE  Renewed(pause, pause') \/ Kept(pause, pause')
<1>1. \A c \in tick.codes : CauseFor(c) \in Causes
  BY CauseType DEF TypeInv, TypeOK, TickStates
<1> DEFINE Causing(due) == {CauseFor(x) : x \in
                     {y \in tick.codes : ~Debounced(y)} \cup due} \ {""}
<1>2. PICK due \in SUBSET {c \in tick.codes : Debounced(c)} :
         \/ UNCHANGED <<pause, decided>>
         \/ \E c \in Strongest(Causing(due)) : Acquire(c, "MACHINE")
  BY Zenon DEF TickAcquire
<1>3. Causing(due) \subseteq Causes
  BY <1>1
<1>4. Strongest(Causing(due)) \subseteq Causes
  BY <1>3 DEF Strongest
<1> HIDE DEF Causing
<1>5. pause \in PauseRecords
  BY DEF TypeInv, TypeOK
<1> QED
  BY <1>2, <1>4, <1>5, AcquireTurn, KeptItself DEF Acquire

LEMMA TickStep ==
    ASSUME ReleaseInv, TypeInv', Tick \/ TickFail
    PROVE  Shielded(pause') /\ TickView(tick', pause')
<1>t. /\ pause \in PauseRecords /\ pause' \in PauseRecords
      /\ tick \in TickStates /\ tick' \in TickStates
      /\ Shielded(pause) /\ TickView(tick, pause) /\ TypeInv
  BY DEF ReleaseInv, TypeInv, TypeOK
<1>1. CASE TickStart \/ TickFail
  <2>1. pause' = pause /\ tick'.pc \in {"escalate", "degrade"}
    BY <1>1, <1>t DEF TickStart, TickFail, TickStates, IdleTick
  <2> QED
    BY <1>t, <2>1 DEF TickView, SeenIsCurrent, EvaluationIsCurrent, ClaimIsCurrent
<1>2. CASE TickEscalate
  <2>1. tick'.pc = "read_pause"
    BY <1>2, <1>t DEF TickEscalate, TickStates
  <2>2. Shielded(pause')
    BY <1>2, <1>t, EscalateTurn DEF TickEscalate
  <2> QED
    BY <2>1, <2>2 DEF TickView, SeenIsCurrent, EvaluationIsCurrent, ClaimIsCurrent
<1>3. CASE TickReadPause
  <2>1. pause' = pause /\ tick'.pc = "evaluate" /\ tick'.seen = pause
    BY <1>3, <1>t DEF TickReadPause, TickStates
  <2>2. pause.gen <= pause.gen
    BY <1>t, GenerationType
  <2> QED
    BY <1>t, <2>1, <2>2
       DEF TickView, SeenIsCurrent, EvaluationIsCurrent, ClaimIsCurrent
<1>4. CASE TickEvaluate
  <2>1. /\ pause' = pause /\ tick.pc = "evaluate" /\ tick'.pc = "observe"
        /\ tick'.evaluated = tick.seen.gen
        /\ tick'.codes = SnapshotBlockers(tick.seen, FALSE, ManualCauseResolved(tick.seen))
    BY <1>4, <1>t DEF TickEvaluate, TickStates
  <2>2. tick'.codes = {} /\ tick.seen.entries /\ tick.seen.policy = "AUTO_AFTER_REPAIR"
        => pause.verified = tick.seen.gen
    BY <2>1 DEF SnapshotBlockers, DerivedCodes
  <2>3. EvaluationIsCurrent(tick', pause')
    BY <1>t, <2>1, <2>2 DEF TickView, SeenIsCurrent, EvaluationIsCurrent
  <2> QED
    BY <1>t, <2>1, <2>3 DEF TickView, SeenIsCurrent, ClaimIsCurrent
<1>11. CASE TickObserve
  <2>1. /\ pause' = pause /\ tick.pc = "observe" /\ tick'.pc = "acquire"
        /\ tick'.evaluated = tick.evaluated
        /\ tick'.codes = {} => tick.codes = {}
    BY <1>11, <1>t DEF TickObserve, TickStates
  <2>2. EvaluationIsCurrent(tick', pause')
    BY <1>t, <2>1 DEF TickView, EvaluationIsCurrent
  <2> QED
    BY <1>t, <2>1, <2>2 DEF TickView, SeenIsCurrent, ClaimIsCurrent
<1>5. CASE TickAcquire
  <2>1. Renewed(pause, pause') \/ Kept(pause, pause')
    BY <1>5, <1>t, TickAcquireTurn
  <2>2. Shielded(pause')
    BY <1>t, <2>1, ShieldKept DEF Renewed
  <2>3. TickView(tick, pause')
    BY <1>t, <2>1, ViewKept, ViewRenewed
  <2>4. /\ tick.pc = "acquire" /\ tick'.pc = "read_record"
        /\ tick'.evaluated = tick.evaluated /\ tick'.codes = tick.codes
    BY <1>5, <1>t DEF TickAcquire, TickStates
  <2> QED
    BY <2>2, <2>3, <2>4
       DEF TickView, SeenIsCurrent, EvaluationIsCurrent, ClaimIsCurrent
<1>6. CASE TickReadRecord
  <2>1. pause' = pause
    BY <1>6 DEF TickReadRecord
  <2>2. CASE NextStep(pause) = "idle"
    BY <1>6, <1>t, <2>1, <2>2, IdleView DEF TickReadRecord
  <2>3. CASE NextStep(pause) \in {"reset", "wait"}
    <3>1. tick'.pc = NextStep(pause)
      BY <1>6, <2>3 DEF TickReadRecord, IdleTick
    <3> QED
      BY <1>t, <2>1, <2>3, <3>1
         DEF TickView, SeenIsCurrent, EvaluationIsCurrent, ClaimIsCurrent
  <2>4. CASE NextStep(pause) \in {"deescalate", "release"}
    <3>1. /\ tick'.pc = NextStep(pause) /\ tick'.claim.gen = pause.gen
          /\ tick'.evaluated = tick.evaluated
      BY <1>6, <2>4 DEF TickReadRecord, IdleTick, Claim
    <3>2. pause.entries /\ tick.codes = {} /\ pause.eligible = "elapsed"
      BY <1>t, <2>4 DEF NextStep, PauseRecords
    <3>3. tick.pc = "read_record"
      BY <1>6 DEF TickReadRecord
    <3>4. pause.gen <= pause.gen
      BY <1>t, GenerationType
    <3>5. ClaimIsCurrent(tick', pause')
      BY <1>t, <2>1, <3>1, <3>2, <3>3, <3>4
         DEF TickView, EvaluationIsCurrent, ClaimIsCurrent
    <3> QED
      BY <1>t, <2>1, <2>4, <3>1, <3>5
         DEF TickView, SeenIsCurrent, EvaluationIsCurrent
  <2> QED
    BY <1>t, <2>2, <2>3, <2>4 DEF NextStep, PauseRecords
<1>7. CASE TickReset \/ TickWait
  <2>1. tick' = IdleTick
    BY <1>7 DEF TickReset, TickWait
  <2>2. Shielded(pause')
    BY <1>7, <1>t, StabilityTurn DEF TickReset, TickWait
  <2> QED
    BY <2>1, <2>2, IdleView
<1>8. CASE TickDeescalate
  <2>1. /\ tick.pc = "deescalate" /\ tick'.pc = "release"
        /\ tick'.claim = tick.claim /\ tick'.evaluated = tick.evaluated
    BY <1>8, <1>t DEF TickDeescalate, TickStates
  <2>2. /\ Shielded(pause')
        /\ pause'.gen = pause.gen /\ pause'.eligible = pause.eligible
        /\ pause'.entries <=> pause.entries
        /\ pause'.verified = pause.verified
        /\ pause'.policy = "AUTO_AFTER_REPAIR" => pause.policy = "AUTO_AFTER_REPAIR"
    BY <1>8, <1>t, DeescalateTurn DEF TickDeescalate
  <2>3. ClaimIsCurrent(tick', pause')
    BY <1>t, <2>1, <2>2 DEF TickView, ClaimIsCurrent
  <2> QED
    BY <2>1, <2>2, <2>3 DEF TickView, SeenIsCurrent, EvaluationIsCurrent
<1>9. CASE TickRelease
  <2>1. tick' = IdleTick /\ (pause' = pause \/ pause' = AfterRelease(pause))
    BY <1>9 DEF TickRelease
  <2> QED
    BY <1>t, <2>1, IdleView, ReleasedIsShielded
<1>10. CASE TickDegrade
  <2>1. "RECOVERY_MONITOR_TEMPORARY_ERROR" \in Causes
    BY DEF Causes, KnownCauses, TransientCauses
  <2>2. pause' = pause \/ Renewed(pause, pause')
    BY <1>10, <1>t, <2>1, AcquireTurn DEF TickDegrade, Acquire
  <2>3. tick' = IdleTick
    BY <1>10 DEF TickDegrade
  <2> QED
    BY <1>t, <2>2, <2>3, IdleView DEF Renewed
<1> QED
  BY <1>1, <1>2, <1>3, <1>4, <1>5, <1>6, <1>7, <1>8, <1>9, <1>10, <1>11
     DEF Tick

LEMMA ResumeTurn ==
    ASSUME ResumeRelease
    PROVE  /\ tick' = tick /\ loop.pc = "resume_release" /\ loop' = IdleLoop
           /\ pause' = pause \/ (pause.entries /\ pause' = AfterRelease(pause))
  BY DEF ResumeRelease, ReleaseAccepted

LEMMA ReleaseInitial == Init => ReleaseInv
<1> SUFFICES ASSUME Init PROVE ReleaseInv
  OBVIOUS
<1>1. TypeInv
  BY InitType DEF TypeInv, FailureBehindPause, Init, IdleLoop
<1>2. Shielded(pause)
  <2>1. pause \in {SeedRecord(d) : d \in BOOLEAN} \cup {LegacyShapePause}
    BY DEF Init
  <2>2. Shielded(LegacyShapePause)
    BY DEF Shielded, HumanHeld, HumanOwners, LegacyShapePause
  <2>3. \A d \in BOOLEAN : Shielded(SeedRecord(d))
    BY DEF Shielded, HumanHeld, SeedRecord, ReconciliationCauses
  <2> QED
    BY <2>1, <2>2, <2>3
<1>3. TickView(tick, pause)
  BY IdleView DEF Init
<1> QED
  BY <1>1, <1>2, <1>3 DEF ReleaseInv

LEMMA ReleaseInductive ==
    ReleaseInv /\ [Next]_vars => ReleaseInv'
<1> SUFFICES ASSUME ReleaseInv, [Next]_vars PROVE ReleaseInv'
  OBVIOUS
<1>t. TypeInv'
  BY TypeInductive DEF ReleaseInv
<1>p. /\ pause \in PauseRecords /\ pause' \in PauseRecords /\ tick \in TickStates
      /\ TypeInv /\ Shielded(pause) /\ TickView(tick, pause)
  BY <1>t DEF ReleaseInv, TypeInv, TypeOK
<1>1. CASE UNCHANGED vars
  <2>1. pause' = pause /\ tick' = tick
    BY <1>1 DEF vars
  <2> QED
    BY <1>t, <1>p, <2>1 DEF ReleaseInv
<1>2. CASE Tick \/ TickFail
  BY <1>t, <1>2, TickStep DEF ReleaseInv
<1>3. CASE Next /\ ~Tick /\ ~TickFail
  <2>1. /\ Renewed(pause, pause') \/ Kept(pause, pause') \/ ResumeRelease
        /\ tick' = tick \/ tick' = IdleTick
    BY <1>p, <1>3, OutsideStep
  <2>2. CASE Renewed(pause, pause')
    BY <1>t, <1>p, <2>1, <2>2, ViewRenewed, IdleView DEF Renewed, ReleaseInv
  <2>3. CASE Kept(pause, pause')
    BY <1>t, <1>p, <2>1, <2>3, ViewKept, ShieldKept, IdleView DEF ReleaseInv
  <2>4. CASE ResumeRelease
    BY <1>t, <1>p, <2>4, ResumeTurn, ViewReleased, ReleasedIsShielded DEF ReleaseInv
  <2> QED
    BY <2>1, <2>2, <2>3, <2>4
<1> QED
  BY <1>1, <1>2, <1>3

-----------------------------------------------------------------------------
(* What a step can do to the hands that hold the pause.                    *)

SameHands(p, q) ==
    /\ q.entries <=> p.entries
    /\ q.owner = p.owner
    /\ q.gen = p.gen \/ (p.entries /\ p.gen < q.gen)

Resuming == loop.pc = "resume_release"

MachineTurn ==
    /\ tick.pc = "release" /\ loop' = loop
    /\ pause.entries /\ pause.policy # "MANUAL_ONLY"
    /\ tick.claim.gen = pause.gen
    /\ pause' = AfterRelease(pause)

OperatorTurn ==
    /\ Resuming /\ loop' = IdleLoop /\ tick' = tick
    /\ pause.entries
    /\ pause' = AfterRelease(pause)

LEMMA EscalateHands ==
    ASSUME NEW p \in PauseRecords PROVE SameHands(p, AfterEscalate(p))
<1>1. CASE AfterEscalate(p) = p
  BY <1>1 DEF SameHands
<1>2. CASE AfterEscalate(p) # p
  <2> DEFINE q == AfterEscalate(p)
  <2>1. q.entries /\ p.entries /\ q.owner = p.owner /\ q.gen = p.gen + 1
    BY <1>2 DEF AfterEscalate, PauseRecords
  <2>2. p.gen < q.gen
    BY <2>1, Successor, GenerationType
  <2> HIDE DEF q
  <2>3. SameHands(p, q)
    BY <2>1, <2>2 DEF SameHands
  <2> QED
    BY <2>3 DEF q
<1> QED
  BY <1>1, <1>2

LEMMA TickTurn ==
    ASSUME ReleaseInv, Tick \/ TickFail
    PROVE  /\ loop' = loop
           /\ \/ Renewed(pause, pause')
              \/ SameHands(pause, pause')
              \/ MachineTurn
<1>t. /\ pause \in PauseRecords /\ Shielded(pause) /\ TypeInv
  BY DEF ReleaseInv, TypeInv, TypeOK
<1>k. \A q : Kept(pause, q) => SameHands(pause, q)
  BY DEF Kept, SameHands
<1>1. loop' = loop
  BY DEF Tick, TickStart, TickEscalate, TickReadPause, TickEvaluate, TickObserve,
         TickAcquire, TickReadRecord, TickReset, TickWait, TickDeescalate, TickRelease,
         TickDegrade, TickFail
<1>2. CASE \/ TickStart \/ TickReadPause \/ TickEvaluate \/ TickObserve
           \/ TickReadRecord \/ TickFail
  <2>1. pause' = pause
    BY <1>2 DEF TickStart, TickReadPause, TickEvaluate, TickObserve, TickReadRecord,
                TickFail
  <2> QED
    BY <1>1, <2>1 DEF SameHands
<1>3. CASE TickEscalate
  BY <1>1, <1>3, <1>t, EscalateHands DEF TickEscalate
<1>4. CASE TickAcquire
  BY <1>1, <1>4, <1>t, <1>k, TickAcquireTurn
<1>5. CASE TickReset \/ TickWait
  BY <1>1, <1>5, <1>t, StabilityTurn DEF TickReset, TickWait, SameHands
<1>6. CASE TickDeescalate
  BY <1>1, <1>6, <1>t, DeescalateTurn DEF TickDeescalate, SameHands
<1>7. CASE TickRelease
  <2>1. CASE ReleaseAccepted(pause, tick.claim.gen, tick.claim.owner, "pause_recovery")
    BY <1>1, <1>7, <2>1 DEF TickRelease, ReleaseAccepted, MachineTurn
  <2>2. CASE ~ReleaseAccepted(pause, tick.claim.gen, tick.claim.owner, "pause_recovery")
    BY <1>1, <1>7, <2>2 DEF TickRelease, SameHands
  <2> QED
    BY <2>1, <2>2
<1>8. CASE TickDegrade
  <2>1. "RECOVERY_MONITOR_TEMPORARY_ERROR" \in Causes
    BY DEF Causes, KnownCauses, TransientCauses
  <2>2. pause' = pause \/ Renewed(pause, pause')
    BY <1>8, <1>t, <2>1, AcquireTurn DEF TickDegrade, Acquire
  <2> QED
    BY <1>1, <2>2 DEF SameHands
<1> QED
  BY <1>2, <1>3, <1>4, <1>5, <1>6, <1>7, <1>8 DEF Tick

(* Every step of the system, as a turn of the pause.                       *)
LEMMA StepTurn ==
    ASSUME ReleaseInv, [Next]_vars
    PROVE  \/ /\ Renewed(pause, pause') \/ SameHands(pause, pause')
              /\ Resuming <=> Resuming'
           \/ pause' = pause
           \/ MachineTurn
           \/ OperatorTurn
<1>1. CASE UNCHANGED vars
  BY <1>1 DEF vars
<1>2. CASE Tick \/ TickFail
  BY <1>2, TickTurn DEF Resuming
<1>3. CASE Next /\ ~Tick /\ ~TickFail
  <2>1. /\ Renewed(pause, pause') \/ Kept(pause, pause') \/ ResumeRelease
        /\ \/ loop.pc = "resume_release" <=> loop'.pc = "resume_release"
           \/ pause' = pause
           \/ ResumeRelease
    BY <1>3, OutsideStep DEF ReleaseInv
  <2>2. Kept(pause, pause') => SameHands(pause, pause')
    BY DEF Kept, SameHands
  <2> QED
    BY <2>1, <2>2, ResumeTurn DEF Resuming, OperatorTurn
<1> QED
  BY <1>1, <1>2, <1>3

\* What the recovery thread knows of the pause it releases.
LEMMA MachineTurnEvidence ==
    ASSUME ReleaseInv, MachineTurn
    PROVE  /\ tick.evaluated = pause.gen
           /\ pause.eligible = "elapsed"
           /\ pause.policy = "AUTO_AFTER_REPAIR" => pause.verified = pause.gen
           /\ ~HumanHeld(pause)
<1>1. /\ tick.evaluated = pause.gen
      /\ pause.eligible = "elapsed"
      /\ pause.policy = "AUTO_AFTER_REPAIR" => pause.verified = pause.gen
  BY DEF ReleaseInv, TickView, ClaimIsCurrent, MachineTurn
<1>2. ~HumanHeld(pause)
  BY <1>1 DEF ReleaseInv, MachineTurn, Shielded
<1> QED
  BY <1>1, <1>2

\* Only the two release transactions enable entries.
LEMMA Releasers ==
    ASSUME ReleaseInv, [Next]_vars, Released
    PROVE  MachineTurn \/ OperatorTurn
<1>1. ~Renewed(pause, pause') /\ ~SameHands(pause, pause') /\ pause' # pause
  BY DEF Released, Renewed, SameHands
<1> QED
  BY <1>1, StepTurn

LEMMA MachineReleases ==
    ASSUME ReleaseInv, [Next]_vars, MachineRelease
    PROVE  MachineTurn
  BY Releasers DEF MachineRelease, OperatorTurn
-----------------------------------------------------------------------------
(* The theorems.                                                           *)

(* What the recovery thread holds while the others go on, for every        *)
(* reachable state of continuous trading: a human's pause is shielded, and *)
(* an evaluation or a claim overtaken by a new generation finds no         *)
(* stability stamp.                                                        *)
THEOREM ReleaseInvariant ==
    Spec => []ReleaseInv
  BY ReleaseInitial, ReleaseInductive, PTL DEF Spec

(* The recovery thread releases only the generation its evaluation began   *)
(* with, although its compare-and-swap expects what it read afterwards     *)
(* (attempt_auto_resume).                                                  *)
THEOREM MachineReleaseIsEvaluated ==
    Spec => MachineReleasesWhatItEvaluated
<1>1. ReleaseInv /\ [Next]_vars => [MachineRelease => tick.evaluated = pause.gen]_vars
  BY MachineReleases, MachineTurnEvidence
<1> QED
  BY <1>1, ReleaseInitial, ReleaseInductive, PTL DEF Spec, MachineReleasesWhatItEvaluated

(* Every machine release closes a stability window that this very pause    *)
(* generation has waited out.                                              *)
THEOREM MachineReleaseIsStable ==
    Spec => StabilityBeforeRelease
<1>1. ReleaseInv /\ [Next]_vars => [MachineRelease => pause.eligible = "elapsed"]_vars
  BY MachineReleases, MachineTurnEvidence
<1> QED
  BY <1>1, ReleaseInitial, ReleaseInductive, PTL DEF Spec, StabilityBeforeRelease

(* A repairable pause is released by the machine only when reconciliation  *)
(* verified the repair of this generation (promote_repairable_pause).      *)
THEOREM MachineReleaseIsVerified ==
    Spec => RepairVerifiedForThisPause
<1>1. ReleaseInv /\ [Next]_vars => [MachineRelease /\ pause.policy = "AUTO_AFTER_REPAIR"
                                   => pause.verified = pause.gen]_vars
  BY MachineReleases, MachineTurnEvidence
<1> QED
  BY <1>1, ReleaseInitial, ReleaseInductive, PTL DEF Spec, RepairVerifiedForThisPause

(* A pause of the operator or of the configured startup ends only in       *)
(* request_manual_resume.                                                  *)
THEOREM HumanPauseTheorem ==
    Spec => HumanPauseEndsByHuman
<1>1. ReleaseInv /\ [Next]_vars => [Released /\ pause.owner \in HumanOwners => OperatorRelease]_vars
  <2> SUFFICES ASSUME ReleaseInv, [Next]_vars, Released, pause.owner \in HumanOwners
               PROVE  OperatorRelease
    OBVIOUS
  <2>1. HumanHeld(pause)
    BY DEF Released, HumanHeld
  <2>2. OperatorTurn
    BY <2>1, Releasers, MachineTurnEvidence
  <2>3. loop' # loop
    BY <2>2 DEF OperatorTurn, Resuming, IdleLoop
  <2> QED
    BY <2>2, <2>3 DEF OperatorRelease, OperatorTurn, Resuming
<1> QED
  BY <1>1, ReleaseInitial, ReleaseInductive, PTL DEF Spec, HumanPauseEndsByHuman

(* No machine step takes a pause out of human hands.                       *)
THEOREM HumanCustodyTheorem ==
    Spec => HumanKeepsCustody
<1>1. ReleaseInv /\ [Next]_vars => [pause.entries /\ pause'.entries /\ pause.owner \in HumanOwners
                                   => pause'.owner \in HumanOwners]_vars
  <2> SUFFICES ASSUME ReleaseInv, [Next]_vars, pause.entries, pause'.entries,
                      pause.owner \in HumanOwners
               PROVE  pause'.owner \in HumanOwners
    OBVIOUS
  <2>1. pause \in PauseRecords
    BY DEF ReleaseInv, TypeInv, TypeOK
  <2>2. ~AfterRelease(pause).entries
    BY <2>1 DEF AfterRelease, PauseRecords
  <2>3. ~MachineTurn /\ ~OperatorTurn
    BY <2>2 DEF MachineTurn, OperatorTurn
  <2> QED
    BY <2>3, StepTurn DEF Renewed, SameHands, HumanHeld
<1> QED
  BY <1>1, ReleaseInitial, ReleaseInductive, PTL DEF Spec, HumanKeepsCustody

(* The pause, with all its causes, policies and stamps, implements the     *)
(* custody of EntryCustody.                                                *)
THEOREM PauseImplementsCustody ==
    Spec => RefinesCustody
<1> DEFINE who == CustodianOf(pause)
<1>1. Init => Custody!CustodyInit
  <2> SUFFICES ASSUME Init PROVE Custody!CustodyInit
    OBVIOUS
  <2>1. pause \in PauseRecords
    BY InitType DEF TypeOK
  <2>2. (loop.pc = "resume_release") = FALSE
    BY DEF Init, IdleLoop
  <2> QED
    BY <2>1, <2>2, GenerationType
       DEF Custody!CustodyInit, Custody!Custodians, CustodianOf
<1>2. ReleaseInv /\ [Next]_vars => [Custody!CustodyNext]_(Custody!custodyVars)
  <2> SUFFICES ASSUME ReleaseInv, [Next]_vars
               PROVE  Custody!CustodyNext \/ UNCHANGED Custody!custodyVars
    OBVIOUS
  <2>p. /\ pause \in PauseRecords /\ pause' \in PauseRecords
        /\ pause.gen \in Nat /\ pause'.gen \in Nat
    BY ReleaseInductive, GenerationType DEF ReleaseInv, TypeInv, TypeOK
  <2>o. IdleLoop.pc = "idle"
    BY DEF IdleLoop
  <2>r. LET q == AfterRelease(pause) IN q.gen = pause.gen /\ ~q.entries
    BY <2>p DEF AfterRelease, PauseRecords
  <2>1. ASSUME Renewed(pause, pause'), Resuming <=> Resuming'
        PROVE  Custody!CustodyNext
    <3>1. /\ pause'.entries /\ pause.gen < pause'.gen
          /\ HumanHeld(pause) => HumanHeld(pause')
          /\ (loop.pc = "resume_release") = (loop'.pc = "resume_release")
      BY <2>1 DEF Renewed, Resuming
    <3>2. Custody!NewTicket
      BY <2>p, <3>1 DEF Custody!NewTicket
    <3>3. CASE HumanHeld(pause')
      BY <3>1, <3>2, <3>3
         DEF Custody!CustodyNext, Custody!HumanTakes, CustodianOf, HumanHeld
    <3>4. CASE ~HumanHeld(pause') /\ ~pause.entries
      BY <3>1, <3>2, <3>4
         DEF Custody!CustodyNext, Custody!MachineTakes, CustodianOf, HumanHeld
    <3>5. CASE ~HumanHeld(pause') /\ pause.entries
      BY <3>1, <3>2, <3>5
         DEF Custody!CustodyNext, Custody!Reissue, CustodianOf, HumanHeld
    <3> QED
      BY <3>3, <3>4, <3>5
  <2>2. ASSUME SameHands(pause, pause'), Resuming <=> Resuming'
        PROVE  Custody!CustodyNext \/ UNCHANGED Custody!custodyVars
    <3>1. /\ CustodianOf(pause') = CustodianOf(pause)
          /\ (loop.pc = "resume_release") = (loop'.pc = "resume_release")
      BY <2>2 DEF SameHands, CustodianOf, Resuming
    <3>2. CASE pause'.gen = pause.gen
      BY <3>1, <3>2 DEF Custody!custodyVars
    <3>3. CASE pause.entries /\ pause.gen < pause'.gen
      <4>1. CustodianOf(pause) # "nobody" /\ Custody!NewTicket
        BY <2>p, <3>3 DEF CustodianOf, Custody!NewTicket
      <4> QED
        BY <3>1, <4>1 DEF Custody!CustodyNext, Custody!Reissue
    <3> QED
      BY <2>2, <3>2, <3>3 DEF SameHands
  <2>3. ASSUME pause' = pause
        PROVE  Custody!CustodyNext \/ UNCHANGED Custody!custodyVars
    <3>1. CASE Resuming <=> Resuming'
      BY <2>3, <3>1 DEF Custody!custodyVars, Resuming
    <3>2. CASE Resuming /\ ~Resuming'
      BY <2>3, <3>2 DEF Custody!CustodyNext, Custody!ResumeEnds, Resuming
    <3>3. CASE ~Resuming /\ Resuming'
      BY <2>3, <3>3 DEF Custody!CustodyNext, Custody!ResumeBegins, Resuming
    <3> QED
      BY <3>1, <3>2, <3>3
  <2>4. ASSUME MachineTurn PROVE Custody!CustodyNext
    <3>1. pause.entries /\ ~HumanHeld(pause) /\ loop' = loop /\ pause' = AfterRelease(pause)
      BY <2>4, MachineTurnEvidence DEF MachineTurn
    <3> QED
      BY <2>r, <3>1 DEF Custody!CustodyNext, Custody!MachineGivesBack, CustodianOf, HumanHeld
  <2>5. ASSUME OperatorTurn PROVE Custody!CustodyNext
    <3>1. /\ pause.entries /\ pause' = AfterRelease(pause)
          /\ loop.pc = "resume_release" /\ loop'.pc # "resume_release"
      BY <2>5, <2>o DEF OperatorTurn, Resuming
    <3> QED
      BY <2>r, <3>1 DEF Custody!CustodyNext, Custody!HumanGivesBack, CustodianOf
  <2> QED
    BY <2>1, <2>2, <2>3, <2>4, <2>5, StepTurn
<1> QED
  BY <1>1, <1>2, ReleaseInitial, ReleaseInductive, PTL
     DEF Spec, RefinesCustody, Custody!CustodySpec

-----------------------------------------------------------------------------
(* On which evidence the machine releases: nobody takes back a published   *)
(* clean run, and who evaluated a pause looked at the last one.            *)

\* the stamps of clean runs, published or about to be, in their order
Stamped(p, r, l) ==
    /\ r.cleanAt <= p.gen
    /\ l.pc = "publish_flags" /\ l.outcome = "ok" => r.cleanAt <= l.at /\ l.at <= p.gen
    /\ l.pc \in {"reclassify", "promote"} => l.at = r.cleanAt

\* A verified repair, and a MANUAL_ONLY cause whose policy is gone, had a clean
\* run after the acquisition.
Backed(p, cleanAt) ==
    /\ p.verified <= p.gen
    /\ p.verified = p.gen => p.acquired <= cleanAt
    /\ p.entries /\ p.cause \in ManualCauses /\ p.policy # "MANUAL_ONLY"
          => p.acquired <= cleanAt

\* What the recovery thread found for the pause it evaluated, as long as nobody
\* takes a new generation.
SawRecord(t, p) ==
    t.pc = "evaluate" /\ t.seen.gen = p.gen /\ p.entries =>
        t.seen.entries /\ t.seen.acquired = p.acquired /\ t.seen.cause = p.cause
SawEvidence(t, p, cleanAt) ==
    t.pc \in {"observe", "acquire", "read_record"} /\ t.evaluated = p.gen /\ p.entries =>
        /\ t.codes = {} /\ p.cause \in CleanAfterPauseCauses => p.acquired <= cleanAt
        /\ t.cleared => p.acquired <= cleanAt
ClaimEvidence(t, p, cleanAt) ==
    t.pc \in {"deescalate", "release"} /\ t.claim.gen = p.gen /\ p.entries =>
        /\ p.cause \in CleanAfterPauseCauses => p.acquired <= cleanAt
        /\ t.pc = "deescalate" => p.acquired <= cleanAt
TickEvidence(t, p, cleanAt) ==
    SawRecord(t, p) /\ SawEvidence(t, p, cleanAt) /\ ClaimEvidence(t, p, cleanAt)

EvidenceInv ==
    /\ ReleaseInv
    /\ Stamped(pause, recon, loop) /\ Backed(pause, recon.cleanAt)
    /\ TickEvidence(tick, pause, recon.cleanAt)

\* What any transaction does to a pause while a clean run of cleanAt is the last
\* one published: a new generation, or the same acquisition.
Anew(p, q) ==
    /\ p.gen < q.gen /\ q.verified < q.gen
    /\ q.cause \in ManualCauses => q.policy = "MANUAL_ONLY"
Still(p, q, cleanAt) ==
    /\ q.gen = p.gen /\ q.acquired = p.acquired
    /\ q.verified = p.verified \/ (q.verified = p.gen /\ p.acquired <= cleanAt)
    /\ q.entries =>
        /\ p.entries /\ q.cause = p.cause
        /\ q.policy = p.policy \/ p.acquired <= cleanAt
Turned(p, q, cleanAt) == Anew(p, q) \/ Still(p, q, cleanAt)

Numbers(p) == {p.gen, p.acquired, p.verified} \subseteq Nat
LEMMA NumberTypes == ASSUME NEW p \in PauseRecords PROVE Numbers(p)
  BY DEF PauseRecords, Numbers

LEMMA StillItself == ASSUME NEW p, NEW c PROVE Turned(p, p, c)
  BY DEF Turned, Still

LEMMA AcquireAnew ==
    ASSUME NEW p \in PauseRecords, NEW reason, NEW owner, NEW c
    PROVE  LET q == AfterAcquire(p, reason, owner)
           IN  (Anew(p, q) \/ q = p) /\ Turned(p, q, c)
<1> DEFINE q == AfterAcquire(p, reason, owner)
<1>1. CASE AcquireRejected(p, reason, owner)
  BY <1>1, StillItself DEF AfterAcquire
<1>2. CASE ~AcquireRejected(p, reason, owner)
  <2>1. q.gen = p.gen + 1 /\ q.verified = 0 /\ q.cause = reason /\ q.policy = recovery_policy(reason)
    BY <1>2 DEF AfterAcquire
  <2>2. reason \in ManualCauses => recovery_policy(reason) = "MANUAL_ONLY"
    BY DEF recovery_policy, ManualCauses, RepairableCauses
  <2> HIDE DEF q
  <2>3. Anew(p, q)
    BY <2>1, <2>2, NumberTypes DEF Anew, Numbers
  <2> QED
    BY <2>3 DEF Turned, q
<1> QED
  BY <1>1, <1>2

LEMMA TurnedTwice ==
    ASSUME NEW p \in PauseRecords, NEW q \in PauseRecords, NEW r \in PauseRecords, NEW c \in Nat,
           Turned(p, q, c), Anew(q, r) \/ r = q
    PROVE  Turned(p, r, c)
<1>1. Numbers(p) /\ Numbers(q) /\ Numbers(r)
  BY NumberTypes
<1>2. CASE r = q
  BY <1>2
<1>3. CASE Anew(q, r)
  <2>1. p.gen <= q.gen
    BY <1>1 DEF Turned, Anew, Still, Numbers
  <2>2. Anew(p, r)
    BY <1>1, <1>3, <2>1 DEF Anew, Numbers
  <2> QED
    BY <2>2 DEF Turned
<1> QED
  BY <1>2, <1>3

LEMMA ReclassifyAnew ==
    ASSUME NEW p \in PauseRecords, NEW c, p.verified <= p.gen
    PROVE  /\ Turned(p, AfterReclassifyTransient(p), c)
           /\ Turned(p, AfterScoped(p), c)
           /\ Turned(p, AfterEscalate(p), c)
<1>1. Numbers(p)
  BY NumberTypes
<1>2. Turned(p, AfterReclassifyTransient(p), c)
  <2> DEFINE q == AfterReclassifyTransient(p)
  <2>1. CASE q = p
    BY <2>1, StillItself
  <2>2. CASE q # p
    <3>1. q.gen = p.gen + 1 /\ q.verified = p.verified /\ q.cause = "RECONCILIATION_TEMPORARY_ERROR"
      BY <2>2 DEF AfterReclassifyTransient, PauseRecords
    <3>2. "RECONCILIATION_TEMPORARY_ERROR" \notin ManualCauses
      BY DEF ManualCauses
    <3> HIDE DEF q
    <3>3. Anew(p, q)
      BY <1>1, <3>1, <3>2 DEF Anew, Numbers
    <3> QED
      BY <3>3 DEF Turned, q
  <2> QED
    BY <2>1, <2>2
<1>3. Turned(p, AfterScoped(p), c)
  <2> DEFINE q == AfterScoped(p)
  <2>1. CASE q = p
    BY <2>1, StillItself
  <2>2. CASE q # p
    <3>1. q.gen = p.gen + 1 /\ q.verified = 0 /\ q.cause = "RECONCILIATION_GAP"
      BY <2>2 DEF AfterScoped, PauseRecords
    <3>2. "RECONCILIATION_GAP" \notin ManualCauses
      BY DEF ManualCauses
    <3> HIDE DEF q
    <3>3. Anew(p, q)
      BY <1>1, <3>1, <3>2 DEF Anew, Numbers
    <3> QED
      BY <3>3 DEF Turned, q
  <2> QED
    BY <2>1, <2>2
<1>4. Turned(p, AfterEscalate(p), c)
  <2> DEFINE q == AfterEscalate(p)
  <2>1. CASE q = p
    BY <2>1, StillItself
  <2>2. CASE q # p
    <3>1. q.gen = p.gen + 1 /\ q.verified = p.verified /\ q.policy = "MANUAL_ONLY"
      BY <2>2 DEF AfterEscalate, PauseRecords
    <3> HIDE DEF q
    <3>2. Anew(p, q)
      BY <1>1, <3>1 DEF Anew, Numbers
    <3> QED
      BY <3>2 DEF Turned, q
  <2> QED
    BY <2>1, <2>2
<1> QED
  BY <1>2, <1>3, <1>4

LEMMA OthersStill ==
    ASSUME NEW p \in PauseRecords, NEW c \in Nat
    PROVE  /\ \A unresolved : Turned(p, AfterPromote(p, c, unresolved), c)
           /\ \A gen : Turned(p, AfterWaiting(p, gen), c) /\ Turned(p, AfterReset(p, gen), c)
           /\ \A gen, cause : (p.entries /\ gen = p.gen => p.acquired <= c)
                                 => Turned(p, AfterDeescalate(p, gen, cause), c)
           /\ Turned(p, AfterRelease(p), c)
<1>1. Numbers(p)
  BY NumberTypes
<1>2. \A unresolved : Turned(p, AfterPromote(p, c, unresolved), c)
  BY <1>1 DEF AfterPromote, Turned, Still, PauseRecords, Numbers
<1>3. \A gen : Turned(p, AfterWaiting(p, gen), c)
  BY DEF AfterWaiting, Turned, Still, PauseRecords
<1>4. \A gen : Turned(p, AfterReset(p, gen), c)
  BY DEF AfterReset, Turned, Still, PauseRecords
<1>5. \A gen, cause : (p.entries /\ gen = p.gen => p.acquired <= c)
                         => Turned(p, AfterDeescalate(p, gen, cause), c)
  BY DEF AfterDeescalate, Turned, Still, PauseRecords
<1>6. Turned(p, AfterRelease(p), c)
  BY DEF AfterRelease, Turned, Still, PauseRecords
<1> QED
  BY <1>2, <1>3, <1>4, <1>5, <1>6

LEMMA BackedKept ==
    ASSUME NEW p \in PauseRecords, NEW q \in PauseRecords, NEW c \in Nat, NEW d \in Nat,
           Backed(p, c), Turned(p, q, c), c <= d
    PROVE  Backed(q, d)
<1>1. Numbers(p) /\ Numbers(q)
  BY NumberTypes
<1>2. CASE Anew(p, q)
  BY <1>1, <1>2 DEF Anew, Backed, Numbers
<1>3. CASE Still(p, q, c)
  <2>1. q.verified <= q.gen
    BY <1>1, <1>3 DEF Still, Backed, Numbers
  <2>2. q.verified = q.gen => q.acquired <= d
    BY <1>1, <1>3 DEF Still, Backed, Numbers
  <2>3. q.entries /\ q.cause \in ManualCauses /\ q.policy # "MANUAL_ONLY" => q.acquired <= d
    BY <1>1, <1>3 DEF Still, Backed, Numbers
  <2> QED
    BY <2>1, <2>2, <2>3 DEF Backed
<1> QED
  BY <1>2, <1>3 DEF Turned

\* What the thread found stays true of a generation nobody renews.
LEMMA EvidenceKept ==
    ASSUME NEW t \in TickStates, NEW p \in PauseRecords, NEW q \in PauseRecords,
           NEW c \in Nat, NEW d \in Nat, TickView(t, p),
           TickEvidence(t, p, c), Turned(p, q, c), c <= d
    PROVE  TickEvidence(t, q, d)
<1>1. /\ Numbers(p) /\ Numbers(q) /\ t.seen.gen \in Nat
      /\ t.evaluated \in Nat /\ t.claim.gen \in Nat
  BY NumberTypes, GenerationType DEF TickStates, Claims
<1>2. CASE Anew(p, q)
  <2>1. \A x \in Nat : x <= p.gen => x # q.gen
    BY <1>1, <1>2, Later DEF Anew, Numbers
  <2>2. /\ t.pc = "evaluate" => t.seen.gen # q.gen
        /\ t.pc \in {"observe", "acquire", "read_record"} => t.evaluated # q.gen
        /\ t.pc \in {"deescalate", "release"} => t.claim.gen # q.gen
    BY <1>1, <2>1 DEF TickView, SeenIsCurrent, EvaluationIsCurrent, ClaimIsCurrent
  <2> QED
    BY <2>2 DEF TickEvidence, SawRecord, SawEvidence, ClaimEvidence
<1>3. CASE Still(p, q, c)
  <2>1. /\ q.gen = p.gen /\ q.acquired = p.acquired
        /\ q.entries => p.entries /\ q.cause = p.cause
        /\ p.acquired <= c => p.acquired <= d
    BY <1>1, <1>3 DEF Still, Numbers
  <2>2. SawRecord(t, q)
    BY <2>1 DEF TickEvidence, SawRecord
  <2>3. SawEvidence(t, q, d)
    BY <2>1 DEF TickEvidence, SawEvidence
  <2>4. ClaimEvidence(t, q, d)
    BY <2>1 DEF TickEvidence, ClaimEvidence
  <2> QED
    BY <2>2, <2>3, <2>4 DEF TickEvidence
<1> QED
  BY <1>2, <1>3 DEF Turned

LEMMA IdleEvidence == \A p, c : TickEvidence(IdleTick, p, c)
  BY DEF TickEvidence, SawRecord, SawEvidence, ClaimEvidence, IdleTick

\* Every transaction turns the pause in one of the two ways.
LEMMA EveryTurn ==
    ASSUME EvidenceInv, [Next]_vars
    PROVE  Turned(pause, pause', recon.cleanAt)
<1> DEFINE c == recon.cleanAt
<1>t. /\ pause \in PauseRecords /\ c \in Nat /\ Numbers(pause) /\ pause.verified <= pause.gen
  BY NumberTypes DEF EvidenceInv, ReleaseInv, TypeInv, TypeOK, Backed
<1>s. pause' = pause => Turned(pause, pause', c)
  BY StillItself
<1>a. \A reason, owner : Acquire(reason, owner) => Turned(pause, pause', c)
  BY <1>t, AcquireAnew DEF Acquire
<1> HIDE DEF c
<1>1. CASE Boot
  <2>1. PICK invalid \in SUBSET (Signals \cap ProcessSignals) :
          LET gate(p, code) == IF code \in invalid
                               THEN AfterAcquire(p, code, "MACHINE") ELSE p
              held == AfterAcquire(pause, "SAFETY_STARTUP_HOLD", "MACHINE")
          IN  pause' = gate(gate(held, "CONFIG_INVALID"), "PROVENANCE_UNVERIFIED")
    BY <1>1, Zenon DEF Boot
  <2> DEFINE held == AfterAcquire(pause, "SAFETY_STARTUP_HOLD", "MACHINE")
             valid == IF "CONFIG_INVALID" \in invalid
                      THEN AfterAcquire(held, "CONFIG_INVALID", "MACHINE") ELSE held
  <2>2. /\ "SAFETY_STARTUP_HOLD" \in Causes /\ "CONFIG_INVALID" \in Causes
        /\ "PROVENANCE_UNVERIFIED" \in Causes
    BY DEF Causes, KnownCauses, TransientCauses, ManualCauses
  <2>3. \A p \in PauseRecords, reason \in Causes :
           LET q == AfterAcquire(p, reason, "MACHINE")
           IN  q \in PauseRecords /\ (Anew(p, q) \/ q = p)
    <3> SUFFICES ASSUME NEW p \in PauseRecords, NEW reason \in Causes
                 PROVE  LET q == AfterAcquire(p, reason, "MACHINE")
                        IN  q \in PauseRecords /\ (Anew(p, q) \/ q = p)
      OBVIOUS
    <3> QED
      BY AcquireType, AcquireAnew
  <2>4. held \in PauseRecords /\ (Anew(pause, held) \/ held = pause)
    BY <1>t, <2>2, <2>3
  <2>5. valid \in PauseRecords /\ (Anew(held, valid) \/ valid = held)
    BY <2>2, <2>3, <2>4
  <2>6. pause' \in PauseRecords /\ (Anew(valid, pause') \/ pause' = valid)
    BY <2>1, <2>2, <2>3, <2>5
  <2> HIDE DEF held, valid
  <2>7. Turned(pause, held, c)
    BY <1>t, <2>4, StillItself DEF Turned
  <2>8. Turned(pause, valid, c)
    BY <1>t, <2>4, <2>5, <2>7, TurnedTwice
  <2> QED
    BY <1>t, <2>5, <2>6, <2>8, TurnedTwice DEF c
<1>2. CASE \/ ReconClean \/ HeartbeatFailed \/ ResumeReadPause \/ ResumeEvaluate
           \/ ResumeReadRecord \/ HeartbeatOk \/ PublishFlags \/ EvidenceAges
           \/ Crash \/ (\E outcome \in ReconFailures : ReconUnclean(outcome))
           \/ (\E code \in Signals : Raise(code) \/ Clear(code))
           \/ TickStart \/ TickReadPause \/ TickEvaluate \/ TickObserve
           \/ TickReadRecord \/ TickFail \/ UNCHANGED vars
  <2>1. pause' = pause
    BY <1>2 DEF ReconClean, HeartbeatFailed, ResumeReadPause, ResumeEvaluate,
                ResumeReadRecord, HeartbeatOk, PublishFlags, EvidenceAges,
                Crash, ReconUnclean, Raise, Clear, TickStart, TickReadPause, TickEvaluate,
                TickObserve, TickReadRecord, TickFail, vars
  <2> QED
    BY <1>s, <2>1 DEF c
<1>3. CASE \/ PublishPause \/ HeartbeatPause \/ TickDegrade
           \/ (\E reason \in RuntimeReasons : RuntimePause(reason))
           \/ (\E reason \in OperatorReasons : OperatorPause(reason))
  BY <1>3, <1>a DEF PublishPause, HeartbeatPause, TickDegrade, RuntimePause, OperatorPause, c
<1>4. CASE PublishReclassify \/ ScopedRepair \/ TickEscalate
  BY <1>4, <1>t, ReclassifyAnew DEF PublishReclassify, ScopedRepair, TickEscalate, c
<1>5. CASE PublishPromote
  <2>1. loop.at = c
    BY <1>5 DEF PublishPromote, EvidenceInv, Stamped, c
  <2> QED
    BY <1>5, <1>t, <2>1, OthersStill DEF PublishPromote, c
<1>6. CASE StabilityElapses \/ PauseAges
  BY <1>6, <1>t DEF StabilityElapses, PauseAges, Turned, Still, PauseRecords, c
<1>7. CASE ResumeRelease
  BY <1>7, <1>s, <1>t, OthersStill DEF ResumeRelease, c
<1>8. CASE TickAcquire
  <2>1. pause' = pause \/ \E reason : Acquire(reason, "MACHINE")
    BY <1>8, Zenon DEF TickAcquire
  <2> QED
    BY <1>a, <1>s, <2>1 DEF c
<1>9. CASE TickReset \/ TickWait
  BY <1>9, <1>t, OthersStill DEF TickReset, TickWait, c
<1>10. CASE TickDeescalate
  <2>1. pause.entries /\ tick.claim.gen = pause.gen => pause.acquired <= c
    BY <1>10 DEF TickDeescalate, EvidenceInv, TickEvidence, ClaimEvidence, c
  <2> QED
    BY <1>10, <1>t, <2>1, OthersStill DEF TickDeescalate, c
<1>11. CASE TickRelease
  BY <1>11, <1>s, <1>t, OthersStill DEF TickRelease, c
<1> QED
  BY <1>1, <1>2, <1>3, <1>4, <1>5, <1>6, <1>7, <1>8, <1>9, <1>10, <1>11
     DEF Next, Tick, Handler

\* Generations and the stamps of clean runs only grow.
LEMMA GenerationsGrow ==
    ASSUME NEW p \in PauseRecords, NEW q \in PauseRecords, NEW c, Turned(p, q, c)
    PROVE  p.gen <= q.gen
  BY NumberTypes DEF Turned, Anew, Still, Numbers

Unstamped(l) == l.pc \notin {"publish_flags", "reclassify", "promote"}

LEMMA StampStep ==
    ASSUME EvidenceInv, TypeInv', [Next]_vars
    PROVE  recon.cleanAt <= recon'.cleanAt /\ Stamped(pause', recon', loop')
<1>t. /\ pause \in PauseRecords /\ pause' \in PauseRecords
      /\ loop \in LoopStates /\ FailureBehindPause
      /\ Stamped(pause, recon, loop)
      /\ recon.cleanAt \in Nat /\ recon'.cleanAt \in Nat /\ loop.at \in Nat
  BY DEF EvidenceInv, ReleaseInv, TypeInv, TypeOK, LoopStates
<1>g. pause.gen <= pause'.gen /\ pause.gen \in Nat /\ pause'.gen \in Nat
  BY <1>t, EveryTurn, GenerationsGrow, GenerationType
<1>1. CASE recon'.cleanAt = recon.cleanAt /\ (loop' = loop \/ Unstamped(loop'))
  <2>1. recon.cleanAt <= recon'.cleanAt /\ recon'.cleanAt <= pause'.gen
    BY <1>1, <1>t, <1>g DEF Stamped
  <2>2. CASE Unstamped(loop')
    BY <2>1, <2>2 DEF Stamped, Unstamped
  <2>3. CASE loop' = loop
    BY <1>1, <1>t, <1>g, <2>1, <2>3 DEF Stamped
  <2> QED
    BY <1>1, <2>1, <2>2, <2>3
<1>2. CASE ReconClean
  <2>1. /\ recon' = recon /\ pause' = pause
        /\ loop'.pc = "publish_flags" /\ loop'.at = pause.gen
    BY <1>2, <1>t DEF ReconClean, LoopStates
  <2> QED
    BY <1>t, <1>g, <2>1 DEF Stamped
<1>3. CASE PublishPause
  <2>1. recon' = recon /\ loop'.pc = "publish_flags" /\ loop'.outcome # "ok"
    BY <1>3, <1>t DEF PublishPause, LoopStates, FailureBehindPause
  <2> QED
    BY <1>t, <1>g, <2>1 DEF Stamped
<1>4. CASE PublishFlags /\ loop.outcome = "ok"
  <2>1. /\ recon'.cleanAt = loop.at /\ pause' = pause /\ loop.pc = "publish_flags"
        /\ loop' = [loop EXCEPT !.pc = "reclassify"]
    <3>1. /\ recon' = [ready |-> TRUE, reason |-> "", cleanAt |-> loop.at, recent |-> TRUE]
          /\ pause' = pause /\ loop.pc = "publish_flags"
          /\ loop' = [loop EXCEPT !.pc = "reclassify"]
      BY <1>4, Zenon DEF PublishFlags
    <3> QED
      BY <3>1
  <2>2. loop'.pc = "reclassify" /\ loop'.at = loop.at
    BY <1>t, <2>1 DEF LoopStates
  <2> QED
    BY <1>4, <1>t, <1>g, <2>1, <2>2 DEF Stamped
<1>5. CASE PublishFlags /\ loop.outcome # "ok"
  <2>1. recon'.cleanAt = recon.cleanAt /\ loop' = IdleLoop
    BY <1>5, <1>t DEF PublishFlags, TypeInv, TypeOK, EvidenceInv, ReleaseInv
  <2> QED
    BY <1>1, <2>1 DEF Unstamped, IdleLoop
<1>6. CASE PublishReclassify
  <2>1. /\ recon' = recon
        /\ loop.pc = "reclassify" /\ loop'.pc = "promote" /\ loop'.at = loop.at
    BY <1>6, <1>t DEF PublishReclassify, LoopStates
  <2> QED
    BY <1>t, <1>g, <2>1 DEF Stamped
<1>7. CASE \/ Boot \/ PublishPromote \/ HeartbeatPause \/ ResumeReadPause \/ ResumeEvaluate
           \/ ResumeReadRecord \/ ResumeRelease \/ HeartbeatFailed \/ Crash
           \/ \E outcome \in ReconFailures : ReconUnclean(outcome)
  <2>1. recon' = recon
    BY <1>7 DEF Boot, PublishPromote, HeartbeatPause, ResumeReadPause, ResumeEvaluate,
                ResumeReadRecord, ResumeRelease, HeartbeatFailed, Crash, ReconUnclean
  <2>2. loop'.pc \in {"idle", "boot", "heartbeat_pause", "publish_pause", "resume_evaluate",
                      "resume_read_record", "resume_release"}
    <3>1. CASE Boot \/ PublishPromote \/ HeartbeatPause \/ ResumeRelease
      BY <3>1 DEF Boot, PublishPromote, HeartbeatPause, ResumeRelease, IdleLoop
    <3>2. CASE ResumeReadPause \/ HeartbeatFailed \/ Crash
      BY <1>t, <3>2 DEF ResumeReadPause, HeartbeatFailed, Crash, IdleLoop, LoopStates
    <3>3. CASE ResumeEvaluate \/ ResumeReadRecord
      <4>1. \/ loop' \in {IdleLoop, [IdleLoop EXCEPT !.pc = "resume_read_record"]}
            \/ loop' = [loop EXCEPT !.pc = "resume_release", !.claim = Claim(pause)]
        BY <3>3, Zenon DEF ResumeEvaluate, ResumeReadRecord
      <4>2. IdleLoop.pc = "idle" /\ [IdleLoop EXCEPT !.pc = "resume_read_record"].pc
                                       = "resume_read_record"
        BY DEF IdleLoop
      <4>3. [loop EXCEPT !.pc = "resume_release", !.claim = Claim(pause)].pc = "resume_release"
        BY <1>t DEF LoopStates
      <4> QED
        BY <4>1, <4>2, <4>3
    <3>4. CASE \E outcome \in ReconFailures : ReconUnclean(outcome)
      BY <1>t, <3>4 DEF ReconUnclean, LoopStates
    <3> QED
      BY <1>7, <3>1, <3>2, <3>3, <3>4
  <2>3. Unstamped(loop')
    BY <2>2 DEF Unstamped
  <2> QED
    BY <1>1, <2>1, <2>3
<1>8. CASE EvidenceAges
  <2>1. recon'.cleanAt = recon.cleanAt /\ loop' = loop
    BY <1>8 DEF EvidenceAges, TypeInv, TypeOK, EvidenceInv, ReleaseInv
  <2> QED
    BY <1>1, <2>1
<1>9. CASE \/ Tick \/ TickFail \/ ScopedRepair \/ HeartbeatOk
           \/ (\E reason \in OperatorReasons : OperatorPause(reason))
           \/ (\E reason \in RuntimeReasons : RuntimePause(reason))
           \/ (\E code \in Signals : Raise(code) \/ Clear(code))
           \/ StabilityElapses \/ PauseAges \/ UNCHANGED vars
  <2>1. recon' = recon /\ loop' = loop
    BY <1>9 DEF Tick, TickStart, TickEscalate, TickReadPause, TickEvaluate, TickObserve,
                TickAcquire, TickReadRecord, TickReset, TickWait, TickDeescalate,
                TickRelease, TickDegrade, TickFail, ScopedRepair, HeartbeatOk,
                OperatorPause, RuntimePause, Raise, Clear, StabilityElapses, PauseAges, vars
  <2> QED
    BY <1>1, <2>1
<1> QED
  BY <1>2, <1>3, <1>4, <1>5, <1>6, <1>7, <1>8, <1>9 DEF Next, Handler

\* What each step of the recovery thread adds to its evidence.
LEMMA TickEvidenceStep ==
    ASSUME EvidenceInv, ReleaseInv', Tick \/ TickFail
    PROVE  TickEvidence(tick', pause', recon'.cleanAt)
<1> DEFINE c == recon.cleanAt
<1>t. /\ pause \in PauseRecords /\ pause' \in PauseRecords /\ c \in Nat
      /\ tick \in TickStates /\ TickView(tick, pause) /\ TickEvidence(tick, pause, c)
      /\ pause.acquired \in Nat
  BY NumberTypes DEF EvidenceInv, ReleaseInv, TypeInv, TypeOK, Numbers
<1>c. recon' = recon
  BY DEF Tick, TickStart, TickEscalate, TickReadPause, TickEvaluate, TickObserve,
         TickAcquire, TickReadRecord, TickReset, TickWait, TickDeescalate, TickRelease,
         TickDegrade, TickFail
<1>n. Turned(pause, pause', c)
  BY EveryTurn DEF Next
<1>k. TickEvidence(tick, pause', c)
  <2> HIDE DEF c
  <2>1. c <= c
    BY <1>t
  <2> QED
    BY <1>t, <1>n, <2>1, EvidenceKept
<1>i. CASE tick' = IdleTick
  BY <1>i, IdleEvidence
<1>1. CASE TickStart \/ TickFail \/ TickEscalate
  <2>1. tick'.pc \in {"escalate", "degrade", "read_pause"}
    BY <1>1, <1>t DEF TickStart, TickFail, TickEscalate, TickStates, IdleTick
  <2> QED
    BY <2>1 DEF TickEvidence, SawRecord, SawEvidence, ClaimEvidence
<1>2. CASE TickReadPause
  <2>1. pause' = pause /\ tick'.pc = "evaluate" /\ tick'.seen = pause
    BY <1>2, <1>t DEF TickReadPause, TickStates
  <2> QED
    BY <2>1 DEF TickEvidence, SawRecord, SawEvidence, ClaimEvidence
<1>3. CASE TickEvaluate
  <2>1. /\ pause' = pause /\ tick.pc = "evaluate" /\ tick'.pc = "observe"
        /\ tick'.evaluated = tick.seen.gen
        /\ tick'.cleared = ManualCauseResolved(tick.seen)
        /\ tick'.codes = SnapshotBlockers(tick.seen, FALSE, ManualCauseResolved(tick.seen))
    BY <1>3, <1>t DEF TickEvaluate, TickStates
  <2>2. tick'.codes = {} /\ tick.seen.entries /\ tick.seen.cause \in CleanAfterPauseCauses
        => ~(c < tick.seen.acquired)
    BY <2>1 DEF SnapshotBlockers, DerivedCodes
  <2>3. tick'.cleared => c >= tick.seen.acquired
    BY <2>1 DEF ManualCauseResolved
  <2>4. ASSUME tick'.evaluated = pause.gen, pause.entries
        PROVE  /\ tick.seen.entries /\ tick.seen.acquired = pause.acquired
               /\ tick.seen.cause = pause.cause
    BY <1>t, <2>1, <2>4 DEF TickEvidence, SawRecord
  <2>5. SawEvidence(tick', pause', c)
    <3> SUFFICES ASSUME tick'.evaluated = pause.gen, pause.entries
                 PROVE  /\ tick'.codes = {} /\ pause.cause \in CleanAfterPauseCauses
                             => pause.acquired <= c
                        /\ tick'.cleared => pause.acquired <= c
      BY <2>1 DEF SawEvidence
    <3>1. ~(c < pause.acquired) => pause.acquired <= c
      BY <1>t
    <3>2. c >= pause.acquired => pause.acquired <= c
      BY <1>t
    <3> QED
      BY <2>2, <2>3, <2>4, <3>1, <3>2
  <2> QED
    BY <1>c, <2>1, <2>5 DEF TickEvidence, SawRecord, ClaimEvidence
<1>4. CASE TickObserve \/ TickAcquire
  <2>1. /\ tick.pc \in {"observe", "acquire"} /\ tick'.pc \in {"acquire", "read_record"}
        /\ tick'.evaluated = tick.evaluated /\ tick'.cleared = tick.cleared
        /\ tick'.codes = {} => tick.codes = {}
    <3>1. CASE TickObserve
      BY <3>1, <1>t DEF TickObserve, TickStates
    <3>2. CASE TickAcquire
      <4>1. tick.pc = "acquire" /\ tick' = [tick EXCEPT !.pc = "read_record"]
        BY <3>2 DEF TickAcquire
      <4> QED
        BY <1>t, <4>1 DEF TickStates
    <3> QED
      BY <1>4, <3>1, <3>2
  <2>2. SawEvidence(tick, pause', c)
    BY <1>k DEF TickEvidence
  <2>3. SawEvidence(tick', pause', c)
    BY <2>1, <2>2 DEF SawEvidence
  <2> QED
    BY <1>c, <2>1, <2>3 DEF TickEvidence, SawRecord, ClaimEvidence
<1>5. CASE TickReadRecord
  <2>1. pause' = pause /\ tick.pc = "read_record"
    BY <1>5 DEF TickReadRecord
  <2>2. CASE NextStep(pause) = "idle"
    BY <1>5, <1>i, <2>2 DEF TickReadRecord
  <2>3. CASE NextStep(pause) \in {"reset", "wait"}
    <3>1. tick'.pc = NextStep(pause)
      BY <1>5, <2>3 DEF TickReadRecord, IdleTick
    <3> QED
      BY <2>3, <3>1 DEF TickEvidence, SawRecord, SawEvidence, ClaimEvidence
  <2>4. CASE NextStep(pause) \in {"deescalate", "release"}
    <3>1. tick'.pc = NextStep(pause)
      BY <1>5, <2>4 DEF TickReadRecord, IdleTick
    <3>2. /\ pause.entries /\ tick.codes = {} /\ pause.eligible = "elapsed"
          /\ NextStep(pause) = "deescalate" => tick.cleared
      BY <1>t, <2>4 DEF NextStep, PauseRecords
    <3>3. tick.evaluated = pause.gen
      BY <1>t, <2>1, <3>2 DEF TickView, EvaluationIsCurrent
    <3>4. ClaimEvidence(tick', pause', c)
      BY <1>t, <2>1, <3>1, <3>2, <3>3 DEF TickEvidence, SawEvidence, ClaimEvidence
    <3> QED
      BY <1>c, <2>4, <3>1, <3>4 DEF TickEvidence, SawRecord, SawEvidence
  <2> QED
    BY <1>t, <2>2, <2>3, <2>4 DEF NextStep, PauseRecords
<1>6. CASE TickDeescalate
  <2>1. tick.pc = "deescalate" /\ tick'.pc = "release" /\ tick'.claim = tick.claim
    BY <1>6, <1>t DEF TickDeescalate, TickStates
  <2> QED
    BY <1>c, <1>k, <2>1 DEF TickEvidence, SawRecord, SawEvidence, ClaimEvidence
<1>7. CASE TickReset \/ TickWait \/ TickRelease \/ TickDegrade
  BY <1>7, <1>i DEF TickReset, TickWait, TickRelease, TickDegrade
<1> QED
  BY <1>1, <1>2, <1>3, <1>4, <1>5, <1>6, <1>7 DEF Tick

LEMMA EvidenceInitial == Init => EvidenceInv
<1> SUFFICES ASSUME Init PROVE EvidenceInv
  OBVIOUS
<1>1. tick = IdleTick /\ recon.cleanAt = 0 /\ loop.pc = "boot"
  BY DEF Init, IdleLoop
<1>2. Stamped(pause, recon, loop) /\ Backed(pause, recon.cleanAt)
  <2>1. \/ pause \in {SeedRecord(d) : d \in BOOLEAN}
        \/ pause = LegacyShapePause
    BY DEF Init
  <2>2. /\ pause.gen \in {0, 1} /\ pause.verified = 0
        /\ pause.acquired = pause.gen
        /\ pause.entries => pause.policy = "MANUAL_ONLY"
    <3>1. CASE pause = LegacyShapePause
      BY <3>1 DEF LegacyShapePause
    <3>2. ASSUME NEW d \in BOOLEAN, pause = SeedRecord(d)
          PROVE  /\ pause.gen \in {0, 1} /\ pause.verified = 0
                 /\ pause.acquired = pause.gen
                 /\ pause.entries => pause.policy = "MANUAL_ONLY"
      BY <3>2 DEF SeedRecord
    <3> QED
      BY <2>1, <3>1, <3>2
  <2> QED
    BY <1>1, <2>2 DEF Stamped, Backed
<1> QED
  BY <1>1, <1>2, IdleEvidence, ReleaseInitial DEF EvidenceInv

LEMMA EvidenceInductive == EvidenceInv /\ [Next]_vars => EvidenceInv'
<1> SUFFICES ASSUME EvidenceInv, [Next]_vars PROVE EvidenceInv'
  OBVIOUS
<1>1. ReleaseInv /\ ReleaseInv' /\ TypeInv'
  BY ReleaseInductive DEF EvidenceInv, ReleaseInv
<1>2. recon.cleanAt <= recon'.cleanAt /\ Stamped(pause', recon', loop')
  BY <1>1, StampStep
<1>t. /\ pause \in PauseRecords /\ pause' \in PauseRecords
      /\ recon.cleanAt \in Nat /\ recon'.cleanAt \in Nat
      /\ tick \in TickStates /\ TickView(tick, pause)
      /\ Backed(pause, recon.cleanAt) /\ TickEvidence(tick, pause, recon.cleanAt)
  BY <1>1 DEF EvidenceInv, ReleaseInv, TypeInv, TypeOK
<1>3. Turned(pause, pause', recon.cleanAt)
  BY EveryTurn
<1>4. Backed(pause', recon'.cleanAt)
  BY <1>2, <1>3, <1>t, BackedKept
<1>5. TickEvidence(tick', pause', recon'.cleanAt)
  <2>1. CASE Tick \/ TickFail
    BY <1>1, <2>1, TickEvidenceStep
  <2>2. CASE ~(Tick \/ TickFail)
    <3>1. tick' = tick \/ tick' = IdleTick
      BY <1>1, <2>2, OutsideStep DEF ReleaseInv, vars
    <3>2. TickEvidence(tick, pause', recon'.cleanAt)
      BY <1>2, <1>3, <1>t, EvidenceKept
    <3> QED
      BY <3>1, <3>2, IdleEvidence
  <2> QED
    BY <2>1, <2>2
<1> QED
  BY <1>1, <1>2, <1>4, <1>5 DEF EvidenceInv

(* Every machine release that needs a clean reconciliation has one of      *)
(* after the acquisition: the run that verified the repair, the one that   *)
(* resolved the MANUAL_ONLY cause, or the one the evaluation looked for    *)
(* (clean_after_pause_causes, _manual_cause_resolved).                     *)
THEOREM MachineReleaseIsCleared ==
    Spec => MachineReleaseHasCleanEvidence
<1> DEFINE Cleared ==
      /\ MachineRelease
      /\ \/ pause.policy = "AUTO_AFTER_REPAIR"
         \/ pause.cause \in CleanAfterPauseCauses \cup ManualCauses
      => recon.cleanAt >= pause.acquired
<1>1. EvidenceInv /\ [Next]_vars => [Cleared]_vars
  <2> SUFFICES ASSUME EvidenceInv, [Next]_vars, MachineRelease,
                      \/ pause.policy = "AUTO_AFTER_REPAIR"
                      \/ pause.cause \in CleanAfterPauseCauses \cup ManualCauses
               PROVE  recon.cleanAt >= pause.acquired
    OBVIOUS
  <2>1. MachineTurn /\ ReleaseInv
    BY MachineReleases DEF EvidenceInv
  <2>2. pause.policy = "AUTO_AFTER_REPAIR" => pause.verified = pause.gen
    BY <2>1, MachineTurnEvidence
  <2>3. pause.acquired <= recon.cleanAt
    BY <2>1, <2>2 DEF MachineTurn, EvidenceInv, Backed, TickEvidence, ClaimEvidence
  <2>4. pause.acquired \in Nat /\ recon.cleanAt \in Nat
    BY <2>1, NumberTypes DEF ReleaseInv, TypeInv, TypeOK, Numbers
  <2> QED
    BY <2>3, <2>4
<1> QED
  BY <1>1, EvidenceInitial, EvidenceInductive, PTL DEF Spec, MachineReleaseHasCleanEvidence

-----------------------------------------------------------------------------
(* The one-shot mode: its entry writes the owner of a pause that nobody    *)
(* holds, for its transaction looks again.                                 *)

LEMMA MachineAcquiresNothingHeld ==
    ASSUME NEW p \in PauseRecords, NEW reason, NEW owner, owner \notin HumanOwners
    PROVE  HumanHeld(AfterAcquire(p, reason, owner)) <=> HumanHeld(p)
<1>1. CASE AcquireRejected(p, reason, owner)
  BY <1>1 DEF AfterAcquire
<1>2. CASE ~AcquireRejected(p, reason, owner)
  <2>1. AfterAcquire(p, reason, owner).owner = owner
    BY <1>2 DEF AfterAcquire
  <2> QED
    BY <1>2, <2>1 DEF AcquireRejected, HumanHeld
<1> QED
  BY <1>1, <1>2

LEMMA RepairsHoldOn ==
    ASSUME NEW p \in PauseRecords
    PROVE  /\ \A at, unresolved : HumanHeld(AfterPromote(p, at, unresolved)) <=> HumanHeld(p)
           /\ HumanHeld(AfterReclassifyTransient(p)) <=> HumanHeld(p)
           /\ HumanHeld(AfterScoped(p)) <=> HumanHeld(p)
           /\ HumanHeld(AfterEscalate(p)) <=> HumanHeld(p)
           /\ \A gen : /\ HumanHeld(AfterWaiting(p, gen)) <=> HumanHeld(p)
                       /\ HumanHeld(AfterReset(p, gen)) <=> HumanHeld(p)
           /\ \A gen, cause : HumanHeld(AfterDeescalate(p, gen, cause)) <=> HumanHeld(p)
<1>1. \A at, unresolved : HumanHeld(AfterPromote(p, at, unresolved)) <=> HumanHeld(p)
  BY DEF AfterPromote, HumanHeld, PauseRecords
<1>2. HumanHeld(AfterReclassifyTransient(p)) <=> HumanHeld(p)
  BY DEF AfterReclassifyTransient, HumanHeld, PauseRecords
<1>3. HumanHeld(AfterScoped(p)) <=> HumanHeld(p)
  BY DEF AfterScoped, HumanHeld, PauseRecords
<1>4. HumanHeld(AfterEscalate(p)) <=> HumanHeld(p)
  BY DEF AfterEscalate, HumanHeld, PauseRecords
<1>5. \A gen : /\ HumanHeld(AfterWaiting(p, gen)) <=> HumanHeld(p)
               /\ HumanHeld(AfterReset(p, gen)) <=> HumanHeld(p)
  BY DEF AfterWaiting, AfterReset, HumanHeld, PauseRecords
<1>6. \A gen, cause : HumanHeld(AfterDeescalate(p, gen, cause)) <=> HumanHeld(p)
  BY DEF AfterDeescalate, HumanHeld, PauseRecords
<1> QED
  BY <1>1, <1>2, <1>3, <1>4, <1>5, <1>6

\* Apart from the canary, a step leaves the pause in the hands it is in, or
\* releases it, or an operator takes it.
LEMMA HandsStep ==
    ASSUME TypeInv, [Next]_vars
    PROVE  \/ HumanHeld(pause') <=> HumanHeld(pause)
           \/ ~pause'.entries
           \/ HumanHeld(pause') /\ LoopIdle /\ loop' = loop
<1>t. pause \in PauseRecords
  BY DEF TypeInv, TypeOK
<1>m. "MACHINE" \notin HumanOwners /\ "RECONCILIATION" \notin HumanOwners
  BY DEF HumanOwners
<1>a. \A reason, owner : Acquire(reason, owner) /\ owner \notin HumanOwners
         => (HumanHeld(pause') <=> HumanHeld(pause))
  BY <1>t, MachineAcquiresNothingHeld DEF Acquire
<1>r. ~AfterRelease(pause).entries
  BY <1>t DEF AfterRelease, PauseRecords
<1>1. CASE Boot
  <2>1. PICK invalid \in SUBSET (Signals \cap ProcessSignals) :
          LET gate(p, code) == IF code \in invalid
                               THEN AfterAcquire(p, code, "MACHINE") ELSE p
              held == AfterAcquire(pause, "SAFETY_STARTUP_HOLD", "MACHINE")
          IN  pause' = gate(gate(held, "CONFIG_INVALID"), "PROVENANCE_UNVERIFIED")
    BY <1>1, Zenon DEF Boot
  <2> DEFINE held == AfterAcquire(pause, "SAFETY_STARTUP_HOLD", "MACHINE")
             valid == IF "CONFIG_INVALID" \in invalid
                      THEN AfterAcquire(held, "CONFIG_INVALID", "MACHINE") ELSE held
  <2>2. /\ "SAFETY_STARTUP_HOLD" \in Causes /\ "CONFIG_INVALID" \in Causes
    BY DEF Causes, KnownCauses, TransientCauses, ManualCauses
  <2>3. held \in PauseRecords /\ valid \in PauseRecords
    BY <1>t, <2>2, AcquireType
  <2>4. HumanHeld(held) <=> HumanHeld(pause)
    BY <1>t, <1>m, MachineAcquiresNothingHeld
  <2>5. HumanHeld(valid) <=> HumanHeld(held)
    BY <1>m, <2>3, MachineAcquiresNothingHeld
  <2>6. pause' = valid \/ pause' = AfterAcquire(valid, "PROVENANCE_UNVERIFIED", "MACHINE")
    BY <2>1
  <2> HIDE DEF held, valid
  <2>7. HumanHeld(pause') <=> HumanHeld(valid)
    BY <1>m, <2>3, <2>6, MachineAcquiresNothingHeld
  <2> QED
    BY <2>4, <2>5, <2>7
<1>2. CASE \/ ReconClean \/ HeartbeatFailed \/ ResumeReadPause \/ ResumeEvaluate
           \/ ResumeReadRecord \/ HeartbeatOk \/ PublishFlags \/ EvidenceAges
           \/ Crash \/ (\E outcome \in ReconFailures : ReconUnclean(outcome))
           \/ (\E code \in Signals : Raise(code) \/ Clear(code))
           \/ TickStart \/ TickReadPause \/ TickEvaluate \/ TickObserve
           \/ TickReadRecord \/ TickFail \/ UNCHANGED vars
  <2>1. pause' = pause
    BY <1>2 DEF ReconClean, HeartbeatFailed, ResumeReadPause, ResumeEvaluate,
                ResumeReadRecord, HeartbeatOk, PublishFlags, EvidenceAges,
                Crash, ReconUnclean, Raise, Clear, TickStart, TickReadPause, TickEvaluate,
                TickObserve, TickReadRecord, TickFail, vars
  <2> QED
    BY <2>1
<1>3. CASE \/ PublishPause \/ HeartbeatPause \/ TickDegrade
           \/ (\E reason \in RuntimeReasons : RuntimePause(reason))
  BY <1>3, <1>a, <1>m DEF PublishPause, HeartbeatPause, TickDegrade, RuntimePause
<1>4. ASSUME NEW reason \in OperatorReasons, OperatorPause(reason)
      PROVE  \/ HumanHeld(pause') /\ LoopIdle /\ loop' = loop
             \/ HumanHeld(pause') <=> HumanHeld(pause)
  <2>1. LoopIdle /\ loop' = loop /\ pause' = AfterAcquire(pause, reason, "OPERATOR")
    BY <1>4 DEF OperatorPause, Acquire
  <2>2. CASE pause' = pause
    BY <2>2
  <2>3. CASE pause' # pause
    <3>1. pause'.entries /\ pause'.owner = "OPERATOR"
      BY <2>1, <2>3 DEF AfterAcquire
    <3> QED
      BY <2>1, <3>1 DEF HumanHeld, HumanOwners
  <2> QED
    BY <2>2, <2>3
<1>5. CASE \/ PublishReclassify \/ PublishPromote \/ ScopedRepair
           \/ TickEscalate \/ TickReset \/ TickWait \/ TickDeescalate
  BY <1>5, <1>t, RepairsHoldOn DEF PublishReclassify, PublishPromote, ScopedRepair,
     TickEscalate, TickReset, TickWait, TickDeescalate
<1>6. CASE StabilityElapses \/ PauseAges
  BY <1>6, <1>t DEF StabilityElapses, PauseAges, HumanHeld, PauseRecords
<1>7. CASE TickAcquire
  <2>1. pause' = pause \/ \E reason : Acquire(reason, "MACHINE")
    BY <1>7, Zenon DEF TickAcquire
  <2> QED
    BY <1>a, <1>m, <2>1
<1>8. CASE ResumeRelease \/ TickRelease
  <2>1. pause' = pause \/ pause' = AfterRelease(pause)
    BY <1>8 DEF ResumeRelease, TickRelease
  <2> QED
    BY <1>r, <2>1
<1> QED
  BY <1>1, <1>2, <1>3, <1>4, <1>5, <1>6, <1>7, <1>8 DEF Next, Tick, Handler

(* No machine step takes a pause out of human hands in the one-shot mode   *)
(* either: reclassifications, repairs and the startup hold keep the owner, *)
(* and reserve_event_entry writes one only where entries are open.         *)
THEOREM CanaryCustodyTheorem ==
    CanarySpec => HumanKeepsCustody
<1>1. TypeInv /\ [CanaryNext]_vars
        => [pause.entries /\ pause'.entries /\ pause.owner \in HumanOwners
            => pause'.owner \in HumanOwners]_vars
  <2> SUFFICES ASSUME TypeInv, [CanaryNext]_vars, pause'.entries, HumanHeld(pause)
               PROVE  pause'.owner \in HumanOwners
    BY DEF HumanHeld
  <2>1. CASE [Next]_vars
    BY <2>1, HandsStep DEF HumanHeld
  <2>2. CASE CanaryGate \/ CanaryReserve
    BY <2>2 DEF CanaryGate, CanaryReserve, CanaryAvailable, HumanHeld
  <2> QED
    BY <2>1, <2>2 DEF CanaryNext
<1> QED
  BY <1>1, TypeInitial, CanaryTypeInductive, PTL DEF CanarySpec, HumanKeepsCustody

\* Between the gate and the reservation only the recovery thread, the clocks
\* and a crash act: none of them takes the canary.
LEMMA NobodyElseConsumes ==
    ASSUME TypeInv, [Next]_vars PROVE ~OneShotConsumed
<1> SUFFICES ASSUME loop.pc = "reserve" PROVE "CANARY_NOT_ARMED" \notin signals' \ signals
  BY DEF OneShotConsumed
<1>1. ~LoopIdle /\ ~Handler
  BY DEF LoopIdle, Handler, Boot, PublishPause, PublishFlags, PublishReclassify,
     PublishPromote, HeartbeatPause, ResumeEvaluate, ResumeReadRecord, ResumeRelease
<1>2. CASE Tick \/ TickFail \/ StabilityElapses \/ PauseAges \/ EvidenceAges \/ UNCHANGED vars
  BY <1>2 DEF Tick, TickStart, TickEscalate, TickReadPause, TickEvaluate, TickObserve,
     TickAcquire, TickReadRecord, TickReset, TickWait, TickDeescalate, TickRelease,
     TickDegrade, TickFail, StabilityElapses, PauseAges, EvidenceAges, vars
<1>3. CASE Crash
  BY <1>3 DEF Crash, RamSignals
<1>4. ASSUME NEW code \in Signals, Raise(code) \/ Clear(code)
      PROVE  "CANARY_NOT_ARMED" \notin signals' \ signals
  BY <1>1, <1>4 DEF Raise, Clear, TimedSignals
<1> QED
  BY <1>1, <1>2, <1>3, <1>4
     DEF Next, ReconClean, ScopedRepair, OperatorPause, ReconUnclean, RuntimePause,
         HeartbeatOk, HeartbeatFailed, ResumeReadPause

(* The one-shot canary is consumed by an entry that finds entries open and *)
(* leaves them paused, whatever the recovery thread has done since the     *)
(* gate let the entry pass.                                                *)
THEOREM OneShotTheorem ==
    CanarySpec => OneShotEntersOpen
<1>1. TypeInv /\ [CanaryNext]_vars
        => [OneShotConsumed => ~pause.entries /\ pause'.entries]_vars
  <2> SUFFICES ASSUME TypeInv, [CanaryNext]_vars, OneShotConsumed
               PROVE  ~pause.entries /\ pause'.entries
    OBVIOUS
  <2>1. ~[Next]_vars /\ ~CanaryGate
    BY NobodyElseConsumes DEF CanaryGate, OneShotConsumed
  <2>2. CanaryReserve /\ pause \in PauseRecords
    BY <2>1 DEF CanaryNext, TypeInv, TypeOK
  <2>3. ~pause.entries /\ pause' = AfterCanary(pause)
    BY <2>2 DEF CanaryReserve, CanaryAvailable, OneShotConsumed
  <2> QED
    BY <2>2, <2>3 DEF AfterCanary, PauseRecords
<1> QED
  BY <1>1, TypeInitial, CanaryTypeInductive, PTL DEF CanarySpec, OneShotEntersOpen
=============================================================================
