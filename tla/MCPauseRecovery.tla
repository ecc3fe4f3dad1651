--------------------------- MODULE MCPauseRecovery ---------------------------
(***************************************************************************)
(* Instances of PauseRecovery for TLC: one cause per release policy and    *)
(* per treatment is enough, since every rule looks at the class of a cause *)
(* only.                                                                   *)
(***************************************************************************)
EXTENDS PauseRecovery

\* a cause no policy row names: transient until it is escalated
Unclassified == {"WAITING_SELLABLE_SLA_EXCEEDED"}

\* a risk decision: MANUAL_ONLY and never de-escalated
RiskDecision == {"DAILY_LOSS_LIMIT"}

RuntimeCauses == RiskDecision \cup Unclassified

\* a financial blocker, whose cause is repairable
OpenIntent == {"UNRESOLVED_INTENT"}

\* a repairable failure, and a MANUAL_ONLY one that evidence may clear
GapAndFailure == {"RECONCILIATION_GAP", "RECONCILIATION_FAILED"}
=============================================================================
