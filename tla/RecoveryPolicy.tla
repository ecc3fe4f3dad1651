--------------------------- MODULE RecoveryPolicy ---------------------------
(***************************************************************************)
(* The typed recovery policies of live/recovery_policy.py: which causes of *)
(* an entry pause the machine may release by itself, which need a repair   *)
(* that reconciliation has verified, and which belong to the operator.     *)
(***************************************************************************)
EXTENDS Integers

ReleasePolicy == {"AUTO_WHEN_CLEAN", "AUTO_AFTER_REPAIR", "MANUAL_ONLY"}

PauseState == {"TRADING", "PAUSED_RECOVERING", "PAUSED_WAITING_STABILITY",
               "PAUSED_MANUAL_ONLY"}

\* _transient(...) rows of RECOVERY_POLICIES
TransientCauses ==
    {"MARKET_WS_DOWN", "MARKET_DATA_NOT_READY", "RECONNECT_AWAITING_FRESH_BOOKS",
     "RECONNECT_RECONCILIATION_PENDING", "MARKET_WS_INGRESS_QUEUE_SATURATED",
     "INGRESS_QUEUE_SATURATED_RESYNC", "MARKET_METADATA_CACHE_MISS",
     "PERSISTENCE_EXECUTOR_UNAVAILABLE", "USER_WS_DOWN", "USER_WS_STALE",
     "MARKET_DATA_STALE", "STALE_EXCHANGE_TIMESTAMP",
     "FUTURE_EXCHANGE_TIMESTAMP", "BOOK_NOT_READY", "MARKET_WS_NOT_CONNECTED",
     "WS_DISCONNECTED", "EVENT_NOT_SUBSCRIBED", "UNKNOWN_EVENT",
     "BEST_PRICE_PENDING_DEPTH", "FRAME_SUPERSEDED", "BEST_PRICE_MISMATCH",
     "DELTA_BEFORE_SNAPSHOT", "BEST_UPDATE_BEFORE_SNAPSHOT", "MALFORMED_DELTA",
     "OUT_OF_ORDER_EXCHANGE_TIMESTAMP", "STALE_CONNECTION_GENERATION",
     "FRESHNESS_PROVIDER_UNAVAILABLE", "HEARTBEAT_FAILURE",
     "GEOGRAPHIC_EVIDENCE_STALE", "RECOVERY_MONITOR_TEMPORARY_ERROR",
     "SAFETY_STARTUP_HOLD", "STARTUP_RECONCILIATION_REQUIRED",
     "RECONCILIATION_RATE_LIMITED", "RECONCILIATION_TEMPORARY_ERROR",
     "STRATEGY_NOT_READY"}

\* _repairable(...) rows
RepairableCauses ==
    {"RECONCILIATION_GAP", "USER_WS_QUEUE_LOSS", "USER_WS_PERSISTENCE_UNCERTAIN",
     "EXIT_RECONCILIATION_REQUIRED", "CANCEL_UNCERTAIN",
     "ACTIVE_EXIT_REMOTE_ORDER_ID_UNKNOWN", "TP_REMOTE_ORDER_ID_UNKNOWN",
     "STOP_CANCEL_UNCERTAIN", "STOP_EXIT_PRICE_PROTECTION_EXHAUSTED"}

\* _manual(...) rows
ManualCauses ==
    {"OPERATOR_PAUSE", "KILL_SWITCH_ACTIVE", "CANARY_NOT_ARMED",
     "MARKET_SCOPE_MISMATCH", "MISSING_DYNAMIC_MARKET_CONSTRAINTS",
     "STRATEGY_PROCESSING_FAILED", "OPERATOR_MAINTENANCE_HOLD",
     "CONFIGURED_STARTUP_PAUSE", "EMERGENCY_CLOSE_REQUESTED",
     "DAILY_LOSS_LIMIT", "CONSECUTIVE_FAILED_ORDERS",
     "CONSECUTIVE_LOSING_DEALS", "CONFIG_INVALID", "PROVENANCE_UNVERIFIED",
     "GEOGRAPHIC_AVAILABILITY_FAILED", "RECONCILIATION_FAILED",
     "RECONCILIATION_CONTRADICTION"}

KnownCauses == TransientCauses \cup RepairableCauses \cup ManualCauses

is_known_reason(reason) == reason \in KnownCauses

\* A cause outside the table is transient while it is being classified
\* (UNKNOWN_POLICY); escalate_unknown_pause_if_expired ends that.
recovery_policy(reason) ==
    CASE reason \in ManualCauses     -> "MANUAL_ONLY"
      [] reason \in RepairableCauses -> "AUTO_AFTER_REPAIR"
      [] OTHER                       -> "AUTO_WHEN_CLEAN"

Rank(policy) ==
    CASE policy = "AUTO_WHEN_CLEAN"   -> 1
      [] policy = "AUTO_AFTER_REPAIR" -> 2
      [] policy = "MANUAL_ONLY"       -> 3

\* Causes whose release needs clean reconciliation evidence newer than the
\* pause (clean_after_pause_causes of the evaluator).
CleanAfterPauseCauses ==
    {"RECONCILIATION_GAP", "RECONCILIATION_RATE_LIMITED",
     "RECONCILIATION_TEMPORARY_ERROR", "USER_WS_DOWN", "USER_WS_STALE",
     "USER_WS_QUEUE_LOSS", "USER_WS_PERSISTENCE_UNCERTAIN",
     "EXIT_RECONCILIATION_REQUIRED", "CANCEL_UNCERTAIN",
     "SAFETY_STARTUP_HOLD", "STARTUP_RECONCILIATION_REQUIRED"}

\* NEVER_AUTO_DEESCALATE: operator, risk and compliance decisions.
NeverAutoCauses ==
    {"OPERATOR_PAUSE", "KILL_SWITCH_ACTIVE", "OPERATOR_MAINTENANCE_HOLD",
     "EMERGENCY_CLOSE_REQUESTED", "DAILY_LOSS_LIMIT",
     "CONSECUTIVE_FAILED_ORDERS", "CONSECUTIVE_LOSING_DEALS",
     "GEOGRAPHIC_AVAILABILITY_FAILED", "CONFIG_INVALID", "CANARY_NOT_ARMED",
     "PROVENANCE_UNVERIFIED"}

\* The causes whose name starts with RECONCILIATION_: the only ones a stale
\* MANUAL_ONLY stamp may be cleared for.
ReconciliationCauses ==
    {"RECONCILIATION_RATE_LIMITED", "RECONCILIATION_TEMPORARY_ERROR",
     "RECONCILIATION_GAP", "RECONCILIATION_FAILED",
     "RECONCILIATION_CONTRADICTION"}
=============================================================================
