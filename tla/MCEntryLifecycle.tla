-------------------------- MODULE MCEntryLifecycle --------------------------
(***************************************************************************)
(* Instances of EntryLifecycle for TLC, and the pause of the canary mode,  *)
(* which an entry writes.  A behaviour follows one of them, `focus', and   *)
(* the others rest in their first state.                                   *)
(*   slots     two events compete for the slot, one attempt each; crashes, *)
(*             and positions that are sold (EntryLifecycle as extended)    *)
(*   retry     two attempts of one event; crashes                          *)
(*   lagging   the two tokens of one event; views that lag, and crashes    *)
(*   canary    the entry's gate and the pause (PauseRecovery)              *)
(***************************************************************************)
EXTENDS EntryLifecycle

CONSTANTS e1, yes, no

ASSUME InstancesAssumption ==
    None \notin {yes, no} \cup {e1} \X (1..2 \cup 1..MaxAttempts)

VARIABLES
    focus,
    aEvent, aIntent, aPosition, aWorker, aRun, aVenue, aOwned, aFeed,
    lEvent, lIntent, lPosition, lWorker, lRun, lVenue, lOwned, lFeed,
    cPause, cSignals, cRecon, cHeartbeat, cEngine, cUp, cTick, cLoop, cFaults,
    cDecided

retryVars == <<aEvent, aIntent, aPosition, aWorker, aRun, aVenue, aOwned, aFeed>>
laggingVars == <<lEvent, lIntent, lPosition, lWorker, lRun, lVenue, lOwned, lFeed>>
canaryVars == <<cPause, cSignals, cRecon, cHeartbeat, cEngine, cUp, cTick, cLoop,
                cFaults, cDecided>>

Retry == INSTANCE EntryLifecycle WITH
    Events <- {e1}, Sides <- {yes}, MaxAttempts <- 2, Lot <- 1, MinOrder <- 1,
    MayExit <- FALSE,
    event <- aEvent, intent <- aIntent, position <- aPosition, worker <- aWorker,
    run <- aRun, venue <- aVenue, owned <- aOwned, feed <- aFeed

Lagging == INSTANCE EntryLifecycle WITH
    Events <- {e1}, Sides <- {yes, no}, PromptVenue <- FALSE, MayExit <- FALSE,
    event <- lEvent, intent <- lIntent, position <- lPosition, worker <- lWorker,
    run <- lRun, venue <- lVenue, owned <- lOwned, feed <- lFeed

Canary == INSTANCE PauseRecovery WITH
    UnknownCauses <- {}, Signals <- {"CANARY_NOT_ARMED"}, RuntimeReasons <- {},
    OperatorReasons <- {"EMERGENCY_CLOSE_REQUESTED"}, ReconFailures <- {},
    RealTrading <- TRUE, CanaryMode <- TRUE, MaxFaults <- 1,
    pause <- cPause, signals <- cSignals, recon <- cRecon,
    heartbeat <- cHeartbeat, engine <- cEngine, up <- cUp, tick <- cTick,
    loop <- cLoop, faults <- cFaults, decided <- cDecided

EachInit ==
    /\ focus \in {"slots", "retry", "lagging", "canary"}
    /\ Init /\ Retry!Init /\ Lagging!Init
    /\ Canary!Init /\ cPause = Canary!SeedRecord(TRUE)
EachNext ==
    /\ UNCHANGED focus
    /\ \/ focus = "slots" /\ Next /\ UNCHANGED <<retryVars, laggingVars, canaryVars>>
       \/ focus = "retry" /\ Retry!Next /\ UNCHANGED <<vars, laggingVars, canaryVars>>
       \/ focus = "lagging" /\ Lagging!Next /\ UNCHANGED <<vars, retryVars, canaryVars>>
       \/ focus = "canary" /\ Canary!CanaryNext /\ UNCHANGED <<vars, retryVars, laggingVars>>

\* the fairness of EntryLifecycle, of the behaviours that retry
Retrying(step) == focus = "retry" /\ step
RetryFairness ==
    /\ WF_retryVars(Retrying(Retry!Yielding /\ \E o \in Retry!Orders : Retry!WorkerStep(o)))
    /\ WF_retryVars(Retrying(Retry!VenueSettles))
    /\ []<>(focus # "retry") \/ Retry!RunsComplete
    /\ SF_retryVars(Retrying(\E o \in Retry!Orders : Retry!Resolve(o)))

EachSpec ==
    /\ EachInit /\ [][EachNext]_<<focus, vars, retryVars, laggingVars, canaryVars>>
    /\ RetryFairness

-----------------------------------------------------------------------------
(* Properties, of every instance *)

\* Every variable keeps its type.
EachTypeOK == TypeOK /\ Retry!TypeOK /\ Lagging!TypeOK /\ Canary!TypeOK

\* While an order may fill, or shares are held, the rows keep the slot; what
\* they call a zero fill is one.
SlotIsKept == ExposureHoldsSlot /\ Retry!ExposureHoldsSlot /\ Retry!ZeroFillIsTrue

\* The slot is implemented, between events and between the attempts of one.
SlotIsRefined == RefinesSlot /\ Retry!RefinesSlot

\* No row claims more shares than the account has, however late they are shown.
NoPhantoms == Lagging!NoPhantomShares /\ Retry!NoPhantomShares

\* Shares that were bought get the row from which the exits are supervised.
FillsBecomePositions == Retry!EveryFillBecomesPosition

\* An order the rows can name is settled in the end.
KnownOrdersAreSettled == Retry!KnownOrderIsSettled

\* The canary is consumed by an entry that finds entries open: a pause acquired
\* between its gate and its reservation is neither bought through nor overwritten.
CanaryEntersOpen == Canary!OneShotEntersOpen
=============================================================================
