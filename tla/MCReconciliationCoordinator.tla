--------------------- MODULE MCReconciliationCoordinator ---------------------
(***************************************************************************)
(* Instances of ReconciliationCoordinator for TLC: one caller of each kind *)
(* and one task more than can be alive.  A `steady' behaviour has no run   *)
(* that raises and no shutdown: only there every request is settled.       *)
(***************************************************************************)
EXTENDS ReconciliationCoordinator, TLC

CONSTANTS market, periodic, userEvent, operator, t1, t2

VARIABLE steady

AllCallers == {market, periodic, userEvent, operator}

Steady == INSTANCE ReconciliationCoordinator WITH WorkerRaises <- FALSE, MayStop <- FALSE

EitherInit == Init /\ steady \in BOOLEAN
EitherNext ==
    /\ UNCHANGED steady
    /\ \/ steady /\ Steady!Next
       \/ ~steady /\ Next

\* asked of steady behaviours only: no liveness property speaks of others
Settling(step) == steady /\ step
EitherSpec ==
    /\ EitherInit /\ [][EitherNext]_<<vars, steady>>
    /\ \A t \in Tasks :
        WF_vars(Settling(FirstStep(t) \/ Wake(t) \/ EndRun(t) \/ Cancelled(t)))
    /\ WF_vars(Settling(CoolDown))
    /\ WF_vars(Settling(Request(Market))) /\ WF_vars(Settling(Request(Periodic)))

\* Every request is settled, whatever back-off is under way when it comes.
SteadyRequestsSettled ==
    \A c \in Callers : steady /\ call[c] = "waiting" ~> call[c] # "waiting"
=============================================================================
