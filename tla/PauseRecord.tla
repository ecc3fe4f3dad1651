----------------------------- MODULE PauseRecord -----------------------------
(***************************************************************************)
(* The durable entry-pause row set (PAUSE_STATE_KEYS of live_system_state) *)
(* and the transactions of live/strategy_repository.py that rewrite it.    *)
(* Each operator After...(p, ...) is the record one BEGIN IMMEDIATE ...    *)
(* COMMIT leaves behind when it finds record p; a rolled back transaction  *)
(* returns p itself.                                                       *)
(*                                                                         *)
(* Timestamps are compared only with the moment the pause was acquired, so *)
(* the generation current at a moment stands for that moment: acquired is  *)
(* the generation acquire_pause wrote together with pause_acquired_at, and *)
(* an event stamped with generation s is newer than the pause exactly when *)
(* s >= acquired (every acquisition takes a new generation).  0 is "never".*)
(*   eligible   pause_eligible_since: "" unset, "started" set,             *)
(*              "elapsed" set recovery_stability_seconds ago or earlier    *)
(*   age        time since acquisition: 0 young, 1 past the 60s            *)
(*              classification window, 2 past the 300s clean window        *)
(*   shape      the source run of the pause failed with the response-shape *)
(*              error; no run of this code acquires such a pause any more, *)
(*              it is only met in a database an older release wrote        *)
(***************************************************************************)
EXTENDS RecoveryPolicy

CONSTANT UnknownCauses   \* causes outside the policy table

ASSUME UnknownCausesAssumption ==
    /\ UnknownCauses \cap KnownCauses = {}
    /\ "" \notin UnknownCauses

Causes == KnownCauses \cup UnknownCauses \cup {""}

HumanOwners == {"OPERATOR", "STARTUP"}
RepairOwners == {"RECONCILIATION", "MACHINE"}
Owners == HumanOwners \cup RepairOwners \cup {"NONE"}

PauseRecords ==
    [entries: BOOLEAN, state: PauseState, owner: Owners, cause: Causes,
     policy: ReleasePolicy, gen: Nat, acquired: Nat, verified: Nat,
     eligible: {"", "started", "elapsed"}, age: 0..2, shape: BOOLEAN]

\* The record migrate() seeds: LIVE_PAUSE_ENTRIES decides whether a new
\* database starts paused under the configured startup pause.
SeedRecord(pausedByDefault) ==
    [entries  |-> pausedByDefault,
     state    |-> IF pausedByDefault THEN "PAUSED_MANUAL_ONLY" ELSE "TRADING",
     owner    |-> IF pausedByDefault THEN "STARTUP" ELSE "NONE",
     cause    |-> IF pausedByDefault THEN "CONFIGURED_STARTUP_PAUSE" ELSE "",
     policy   |-> IF pausedByDefault THEN "MANUAL_ONLY" ELSE "AUTO_WHEN_CLEAN",
     gen      |-> IF pausedByDefault THEN 1 ELSE 0,
     acquired |-> IF pausedByDefault THEN 1 ELSE 0,
     verified |-> 0, eligible |-> "", age |-> 0, shape |-> FALSE]

\* The pause of an older release that took a response-shape error for a
\* financial failure (the legacy run of test_pause_recovery.py).
LegacyShapePause ==
    [entries  |-> TRUE, state |-> "PAUSED_MANUAL_ONLY",
     owner    |-> "RECONCILIATION", cause |-> "RECONCILIATION_FAILED",
     policy   |-> "MANUAL_ONLY", gen |-> 1, acquired |-> 1,
     verified |-> 0, eligible |-> "", age |-> 0, shape |-> TRUE]

-----------------------------------------------------------------------------
(* Faulty variants of some definitions precede them: each differs by one   *)
(* plausible slip, and shows which property notices it.                    *)

(* acquire_pause: a human may always take the pause over; the machine may  *)
(* neither override a human nor replace a cause by one of no higher rank.  *)
AcquireRejected(p, reason, owner) ==
    /\ p.entries
    /\ \/ p.owner \in HumanOwners /\ owner \notin HumanOwners
       \/ p.cause = reason /\ p.owner = owner
       \/ /\ owner \notin HumanOwners
          /\ Rank(recovery_policy(reason)) <= Rank(p.policy)

AfterAcquire(p, reason, owner) ==
    IF AcquireRejected(p, reason, owner) THEN p
    ELSE [entries  |-> TRUE,
          state    |-> IF recovery_policy(reason) = "MANUAL_ONLY"
                       THEN "PAUSED_MANUAL_ONLY" ELSE "PAUSED_RECOVERING",
          owner    |-> owner,
          cause    |-> reason,
          policy   |-> recovery_policy(reason),
          gen      |-> p.gen + 1,
          acquired |-> p.gen + 1,
          verified |-> 0, eligible |-> "", age |-> 0, shape |-> FALSE]

\* fault: a human's pause is verified as well
AfterPromoteAnyOwner(p, finishedAt, unresolved) ==
    IF /\ p.entries /\ p.policy = "AUTO_AFTER_REPAIR"
       /\ finishedAt >= p.acquired /\ ~unresolved
    THEN [p EXCEPT !.verified = p.gen, !.shape = FALSE] ELSE p

\* fault: evidence taken at the moment of the acquisition does not count
AfterPromoteStrictly(p, finishedAt, unresolved) ==
    IF finishedAt > p.acquired THEN AfterPromoteAnyOwner(p, finishedAt, unresolved) ELSE p

(* promote_repairable_pause: stamps the generation as financially verified *)
(* when a clean run finished after the acquisition and nothing is open.    *)
AfterPromote(p, finishedAt, unresolved) ==
    IF /\ p.entries
       /\ p.owner \in RepairOwners
       /\ p.policy = "AUTO_AFTER_REPAIR"
       /\ finishedAt >= p.acquired
       /\ ~unresolved
    THEN [p EXCEPT !.verified = p.gen, !.shape = FALSE]
    ELSE p

\* fault: the stability clock of the old cause is kept
AfterReclassifyKeepingClock(p) ==
    IF /\ p.entries /\ p.owner \in RepairOwners
       /\ p.cause = "RECONCILIATION_FAILED" /\ p.shape
    THEN [p EXCEPT !.state = "PAUSED_RECOVERING",
                   !.cause = "RECONCILIATION_TEMPORARY_ERROR",
                   !.policy = "AUTO_WHEN_CLEAN",
                   !.gen = p.gen + 1, !.shape = FALSE]
    ELSE p

(* reclassify_transient_reconciliation_failure, after a clean run.         *)
AfterReclassifyTransient(p) ==
    IF /\ p.entries
       /\ p.owner \in RepairOwners
       /\ p.cause = "RECONCILIATION_FAILED"
       /\ p.shape
    THEN [p EXCEPT !.state = "PAUSED_RECOVERING",
                   !.cause = "RECONCILIATION_TEMPORARY_ERROR",
                   !.policy = "AUTO_WHEN_CLEAN",
                   !.gen = p.gen + 1,
                   !.eligible = "", !.shape = FALSE]
    ELSE p

\* fault: generation and stability clock are kept
AfterScopedInPlace(p) ==
    IF ~p.entries THEN p
    ELSE [p EXCEPT !.state = "PAUSED_RECOVERING", !.cause = "RECONCILIATION_GAP",
                   !.policy = "AUTO_AFTER_REPAIR", !.verified = 0]

(* reclassify_pause_as_scoped: whatever the pause was, it becomes a        *)
(* repairable gap of the same owner.                                       *)
AfterScoped(p) ==
    IF ~p.entries THEN p
    ELSE [p EXCEPT !.state = "PAUSED_RECOVERING",
                   !.cause = "RECONCILIATION_GAP",
                   !.policy = "AUTO_AFTER_REPAIR",
                   !.gen = p.gen + 1,
                   !.eligible = "", !.verified = 0]

(* escalate_unknown_pause_if_expired                                       *)
AfterEscalate(p) ==
    IF /\ p.entries
       /\ p.cause # "" /\ ~is_known_reason(p.cause)
       /\ p.policy # "MANUAL_ONLY"
       /\ p.age >= 1
    THEN [p EXCEPT !.state = "PAUSED_MANUAL_ONLY",
                   !.policy = "MANUAL_ONLY",
                   !.gen = p.gen + 1]
    ELSE p

(* set_waiting_stability                                                   *)
AfterWaiting(p, expected) ==
    IF \/ ~p.entries \/ p.gen # expected
       \/ p.state = "PAUSED_WAITING_STABILITY" /\ p.eligible # ""
    THEN p
    ELSE [p EXCEPT !.state = "PAUSED_WAITING_STABILITY",
                   !.eligible = "started"]

(* reset_stability                                                         *)
AfterReset(p, expected) ==
    IF ~p.entries \/ p.gen # expected THEN p
    ELSE [p EXCEPT !.state = IF p.policy = "MANUAL_ONLY"
                             THEN "PAUSED_MANUAL_ONLY" ELSE "PAUSED_RECOVERING",
                   !.eligible = ""]

(* deescalate_pause_policy_cas                                             *)
AfterDeescalate(p, expected, expectedCause) ==
    IF /\ expectedCause \in ReconciliationCauses
       /\ p.entries
       /\ p.gen = expected
       /\ p.policy = "MANUAL_ONLY"
       /\ p.cause = expectedCause
    THEN [p EXCEPT !.policy = "AUTO_WHEN_CLEAN"]
    ELSE p

(* release_pause_cas: the compare half, then the swap.  The generation and *)
(* the acquisition evidence stay behind.                                   *)
ReleaseAccepted(p, expected, expectedOwner, actor) ==
    /\ p.entries
    /\ p.gen = expected
    /\ p.owner = expectedOwner
    /\ actor = "pause_recovery" => p.policy # "MANUAL_ONLY"

\* fault: the policy is cleared with the cause
AfterReleaseClearing(p) ==
    [p EXCEPT !.entries = FALSE, !.state = "TRADING", !.owner = "NONE",
              !.cause = "", !.policy = "", !.eligible = ""]

AfterRelease(p) ==
    [p EXCEPT !.entries = FALSE, !.state = "TRADING", !.owner = "NONE",
              !.cause = "", !.policy = "AUTO_WHEN_CLEAN", !.eligible = ""]

(* reserve_event_entry(consume_canary=True): the first canary entry pauses *)
(* further entries by writing the owner and the reason; the generation and *)
(* the policy stay as the last release has left them.                      *)
AfterCanary(p) == [p EXCEPT !.entries = TRUE, !.owner = "MACHINE"]
=============================================================================
