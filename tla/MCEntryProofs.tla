--------------------------- MODULE MCEntryProofs ---------------------------
(***************************************************************************)
(* What EntryProofs and PauseRecoveryProofs say of the instances of        *)
(* MCEntryLifecycle: the safety properties of its run.  The first instance *)
(* keeps its constants: any events, tokens, attempts and lots.             *)
(*                                                                         *)
(* The theorems of the proof modules are taken through instances of these; *)
(* the lemmas ...IsSame say, definition by definition, that such an        *)
(* instance is the one of MCEntryLifecycle, action by action.              *)
(***************************************************************************)
EXTENDS MCEntryLifecycle, EntryProofs

RetryProofs == INSTANCE EntryProofs WITH
    Events <- {e1}, Sides <- {yes}, MaxAttempts <- 2, Lot <- 1, MinOrder <- 1,
    MayExit <- FALSE,
    event <- aEvent, intent <- aIntent, position <- aPosition, worker <- aWorker,
    run <- aRun, venue <- aVenue, owned <- aOwned, feed <- aFeed

LaggingProofs == INSTANCE EntryProofs WITH
    Events <- {e1}, Sides <- {yes, no}, PromptVenue <- FALSE, MayExit <- FALSE,
    event <- lEvent, intent <- lIntent, position <- lPosition, worker <- lWorker,
    run <- lRun, venue <- lVenue, owned <- lOwned, feed <- lFeed

CanaryProofs == INSTANCE PauseRecoveryProofs WITH
    UnknownCauses <- {}, Signals <- {"CANARY_NOT_ARMED"}, RuntimeReasons <- {},
    OperatorReasons <- {"EMERGENCY_CLOSE_REQUESTED"}, ReconFailures <- {},
    RealTrading <- TRUE, CanaryMode <- TRUE, MaxFaults <- 1,
    pause <- cPause, signals <- cSignals, recon <- cRecon,
    heartbeat <- cHeartbeat, engine <- cEngine, up <- cUp, tick <- cTick,
    loop <- cLoop, faults <- cFaults, decided <- cDecided

LEMMA RetryAssumption == RetryProofs!EntryAssumption
  <1>1. 2 \in Nat \ {0} /\ 1 \in Nat \ {0} /\ 1 \in Nat
    OBVIOUS
  <1>2. {PromptVenue, MayCrash, FALSE} \subseteq BOOLEAN
    BY EntryAssumption
  <1>3. None \notin {yes} \cup {e1} \X (1..2)
    BY InstancesAssumption
  <1>. QED BY <1>1, <1>2, <1>3 DEF RetryProofs!EntryAssumption

LEMMA LaggingAssumption == LaggingProofs!EntryAssumption
  <1>1. MaxAttempts \in Nat \ {0} /\ Lot \in Nat \ {0} /\ MinOrder \in Nat
        /\ {FALSE, MayCrash} \subseteq BOOLEAN
    BY EntryAssumption
  <1>2. None \notin {yes, no} \cup {e1} \X (1..MaxAttempts)
    BY InstancesAssumption
  <1>. QED BY <1>1, <1>2 DEF LaggingProofs!EntryAssumption

LEMMA CanaryAssumption == CanaryProofs!PauseRecoveryAssumption
  BY DEF CanaryProofs!PauseRecoveryAssumption, CanaryProofs!SignalCause, CanaryProofs!ReconReasons

LEMMA CanaryUnknownCauses == CanaryProofs!UnknownCausesAssumption
  BY DEF CanaryProofs!UnknownCausesAssumption

-----------------------------------------------------------------------------
(* The instances of the proofs are those of MCEntryLifecycle *)

LEMMA RetryNextIsSame == Retry!Next <=> RetryProofs!Next
  <1> USE DEF
        Retry!Attempts, RetryProofs!Attempts, Retry!Orders,
        RetryProofs!Orders, Retry!Tokens, RetryProofs!Tokens, Retry!EventOf,
        RetryProofs!EventOf, Retry!Unresolved, RetryProofs!Unresolved,
        Retry!ActiveStates, RetryProofs!ActiveStates, Retry!rows,
        RetryProofs!rows, Retry!world, RetryProofs!world, Retry!NoIntent,
        RetryProofs!NoIntent, Retry!NoPosition, RetryProofs!NoPosition,
        Retry!IdleWorker, RetryProofs!IdleWorker, Retry!IdleRun,
        RetryProofs!IdleRun, Retry!TokenOf, RetryProofs!TokenOf,
        Retry!HasPosition, RetryProofs!HasPosition, Retry!IsUnresolved,
        RetryProofs!IsUnresolved, Retry!NoFill, RetryProofs!NoFill,
        Retry!SlotEmpty, RetryProofs!SlotEmpty, Retry!MarkZeroFill,
        RetryProofs!MarkZeroFill, Retry!OpenPosition,
        RetryProofs!OpenPosition, Retry!SetState, RetryProofs!SetState,
        Retry!WorkerAt, RetryProofs!WorkerAt, Retry!WorkerGoes,
        RetryProofs!WorkerGoes, Retry!WorkerDone, RetryProofs!WorkerDone,
        Retry!Evidence, RetryProofs!Evidence, Retry!RunGoes,
        RetryProofs!RunGoes, Retry!Greater, RetryProofs!Greater,
        Retry!AddFill, RetryProofs!AddFill, Retry!RunFails,
        RetryProofs!RunFails, Retry!StillOpen, RetryProofs!StillOpen,
        Retry!HandedOff, RetryProofs!HandedOff, Retry!PendingFor,
        RetryProofs!PendingFor, Retry!Corrected, RetryProofs!Corrected,
        Retry!AfterExit, RetryProofs!AfterExit, Retry!Shown,
        RetryProofs!Shown, Retry!Settled, RetryProofs!Settled, Retry!Yielding,
        RetryProofs!Yielding
  <1>1. \A e : Retry!Skip(e) <=> RetryProofs!Skip(e)
    BY DEF Retry!Skip, RetryProofs!Skip
  <1>2. \A o, side : Retry!Reserve(o, side) <=> RetryProofs!Reserve(o, side)
    BY DEF Retry!TriedOf, RetryProofs!TriedOf, Retry!MayReserve,
           RetryProofs!MayReserve, Retry!Cardinality, RetryProofs!Cardinality,
           Retry!Reserve, RetryProofs!Reserve
  <1>3. \A o : Retry!Abort(o) <=> RetryProofs!Abort(o)
    BY DEF Retry!Abort, RetryProofs!Abort
  <1>4. \A o : Retry!Refuse(o) <=> RetryProofs!Refuse(o)
    BY DEF Retry!Refuse, RetryProofs!Refuse
  <1>5. \A o : Retry!Submit(o) <=> RetryProofs!Submit(o)
    BY DEF Retry!Submit, RetryProofs!Submit
  <1>6. \A o : Retry!NotSubmitted(o) <=> RetryProofs!NotSubmitted(o)
    BY DEF Retry!NotSubmitted, RetryProofs!NotSubmitted
  <1>7. \A o : Retry!Post(o) <=> RetryProofs!Post(o)
    BY DEF Retry!Post, RetryProofs!Post
  <1>8. \A o : Retry!NotFilled(o) <=> RetryProofs!NotFilled(o)
    BY DEF Retry!NotFilled, RetryProofs!NotFilled
  <1>9. \A o : Retry!Accepted(o) <=> RetryProofs!Accepted(o)
    BY DEF Retry!Accepted, RetryProofs!Accepted
  <1>10. \A o : Retry!Unknown(o) <=> RetryProofs!Unknown(o)
    BY DEF Retry!Unknown, RetryProofs!Unknown
  <1>11. \A o : Retry!Publish(o) <=> RetryProofs!Publish(o)
    BY DEF Retry!Publish, RetryProofs!Publish
  <1>12. Retry!ReadOpenOrders <=> RetryProofs!ReadOpenOrders
    BY DEF Retry!ReadOpenOrders, RetryProofs!ReadOpenOrders
  <1>13. Retry!ReadTrades <=> RetryProofs!ReadTrades
    BY DEF Retry!ReadTrades, RetryProofs!ReadTrades
  <1>14. Retry!ReadPositions <=> RetryProofs!ReadPositions
    BY DEF Retry!ReadPositions, RetryProofs!ReadPositions
  <1>15. Retry!ListUnresolved <=> RetryProofs!ListUnresolved
    BY DEF Retry!ListUnresolved, RetryProofs!ListUnresolved
  <1>16. Retry!RemotePositions <=> RetryProofs!RemotePositions
    BY DEF Retry!RemotePositions, RetryProofs!RemotePositions
  <1>17. Retry!EndRun <=> RetryProofs!EndRun
    BY DEF Retry!EndRun, RetryProofs!EndRun
  <1>18. Retry!RunRaises <=> RetryProofs!RunRaises
    BY DEF Retry!RunRaises, RetryProofs!RunRaises
  <1>19. Retry!Crash <=> RetryProofs!Crash
    BY DEF Retry!Crash, RetryProofs!Crash
  <1>20. \A o : Retry!Resolve(o) <=> RetryProofs!Resolve(o)
    BY DEF Retry!Resolve, RetryProofs!Resolve
  <1>21. \A o : Retry!Undecided(o) <=> RetryProofs!Undecided(o)
    BY DEF Retry!Undecided, RetryProofs!Undecided
  <1>22. \A t : Retry!RemotePosition(t) <=> RetryProofs!RemotePosition(t)
    BY DEF Retry!RemotePosition, RetryProofs!RemotePosition
  <1>23. \A e : Retry!SellOut(e) <=> RetryProofs!SellOut(e)
    BY DEF Retry!SellOut, RetryProofs!SellOut
  <1>24. \A o : Retry!Opens(o) <=> RetryProofs!Opens(o)
    BY DEF Retry!Opens, RetryProofs!Opens
  <1>25. \A o : Retry!Fills(o) <=> RetryProofs!Fills(o)
    BY DEF Retry!Fills, RetryProofs!Fills
  <1>26. \A o : Retry!Dies(o) <=> RetryProofs!Dies(o)
    BY DEF Retry!Dies, RetryProofs!Dies
  <1>27. \A o : Retry!ShowTrade(o) <=> RetryProofs!ShowTrade(o)
    BY DEF Retry!ShowTrade, RetryProofs!ShowTrade
  <1>28. \A o : Retry!GraceEnds(o) <=> RetryProofs!GraceEnds(o)
    BY DEF Retry!GraceEnds, RetryProofs!GraceEnds
  <1>29. \A t : Retry!ShowPosition(t) <=> RetryProofs!ShowPosition(t)
    BY DEF Retry!ShowPosition, RetryProofs!ShowPosition
  <1>30. \A o : Retry!WorkerStep(o) <=> RetryProofs!WorkerStep(o)
    BY <1>3, <1>4, <1>5, <1>6, <1>7, <1>8, <1>9, <1>10, <1>11
    DEF Retry!WorkerStep, RetryProofs!WorkerStep
  <1>31. Retry!RunStep <=> RetryProofs!RunStep
    BY <1>12, <1>13, <1>14, <1>15, <1>16, <1>17, <1>18, <1>20, <1>21, <1>22
    DEF Retry!RunStep, RetryProofs!RunStep
  <1>32. \A o : Retry!VenueStep(o) <=> RetryProofs!VenueStep(o)
    BY <1>24, <1>25, <1>26, <1>27, <1>28
    DEF Retry!VenueStep, RetryProofs!VenueStep
  <1>. QED BY <1>1, <1>2, <1>19, <1>23, <1>29, <1>30, <1>31, <1>32
       DEF Retry!Next, RetryProofs!Next

LEMMA RetryInitIsSame == Retry!Init <=> RetryProofs!Init
  BY DEF Retry!Attempts, RetryProofs!Attempts, Retry!Orders,
         RetryProofs!Orders, Retry!Tokens, RetryProofs!Tokens, Retry!NoIntent,
         RetryProofs!NoIntent, Retry!NoPosition, RetryProofs!NoPosition,
         Retry!NoOrder, RetryProofs!NoOrder, Retry!IdleWorker,
         RetryProofs!IdleWorker, Retry!IdleRun, RetryProofs!IdleRun,
         Retry!Init, RetryProofs!Init

LEMMA RetryTypeOKIsSame == Retry!TypeOK <=> RetryProofs!TypeOK
  BY DEF Retry!Attempts, RetryProofs!Attempts, Retry!Orders,
         RetryProofs!Orders, Retry!Tokens, RetryProofs!Tokens, Retry!Final,
         RetryProofs!Final, Retry!Unresolved, RetryProofs!Unresolved,
         Retry!ActiveStates, RetryProofs!ActiveStates, Retry!Intent,
         RetryProofs!Intent, Retry!Position, RetryProofs!Position,
         Retry!VenueOrder, RetryProofs!VenueOrder, Retry!EventState,
         RetryProofs!EventState, Retry!Worker, RetryProofs!Worker, Retry!Run,
         RetryProofs!Run, Retry!TypeOK, RetryProofs!TypeOK

LEMMA RetryZeroFillIsTrueIsSame == Retry!ZeroFillIsTrue <=> RetryProofs!ZeroFillIsTrue
  BY DEF Retry!Attempts, RetryProofs!Attempts, Retry!Orders,
         RetryProofs!Orders, Retry!Out, RetryProofs!Out, Retry!ZeroFillIsTrue,
         RetryProofs!ZeroFillIsTrue

LEMMA RetryExposureHoldsSlotIsSame == Retry!ExposureHoldsSlot <=> RetryProofs!ExposureHoldsSlot
  BY DEF Retry!Attempts, RetryProofs!Attempts, Retry!Orders,
         RetryProofs!Orders, Retry!Tokens, RetryProofs!Tokens,
         Retry!Unresolved, RetryProofs!Unresolved, Retry!ActiveStates,
         RetryProofs!ActiveStates, Retry!IsUnresolved,
         RetryProofs!IsUnresolved, Retry!SlotEmpty, RetryProofs!SlotEmpty,
         Retry!Out, RetryProofs!Out, Retry!OutNow, RetryProofs!OutNow,
         Retry!Held, RetryProofs!Held, Retry!ExposureHoldsSlot,
         RetryProofs!ExposureHoldsSlot

LEMMA RetryNoPhantomSharesIsSame == Retry!NoPhantomShares <=> RetryProofs!NoPhantomShares
  BY DEF Retry!NoPhantomShares, RetryProofs!NoPhantomShares

LEMMA LaggingNextIsSame == Lagging!Next <=> LaggingProofs!Next
  <1> USE DEF
        Lagging!Attempts, LaggingProofs!Attempts, Lagging!Orders,
        LaggingProofs!Orders, Lagging!Tokens, LaggingProofs!Tokens,
        Lagging!EventOf, LaggingProofs!EventOf, Lagging!Unresolved,
        LaggingProofs!Unresolved, Lagging!ActiveStates,
        LaggingProofs!ActiveStates, Lagging!rows, LaggingProofs!rows,
        Lagging!world, LaggingProofs!world, Lagging!NoIntent,
        LaggingProofs!NoIntent, Lagging!NoPosition, LaggingProofs!NoPosition,
        Lagging!IdleWorker, LaggingProofs!IdleWorker, Lagging!IdleRun,
        LaggingProofs!IdleRun, Lagging!TokenOf, LaggingProofs!TokenOf,
        Lagging!HasPosition, LaggingProofs!HasPosition, Lagging!IsUnresolved,
        LaggingProofs!IsUnresolved, Lagging!NoFill, LaggingProofs!NoFill,
        Lagging!SlotEmpty, LaggingProofs!SlotEmpty, Lagging!MarkZeroFill,
        LaggingProofs!MarkZeroFill, Lagging!OpenPosition,
        LaggingProofs!OpenPosition, Lagging!SetState, LaggingProofs!SetState,
        Lagging!WorkerAt, LaggingProofs!WorkerAt, Lagging!WorkerGoes,
        LaggingProofs!WorkerGoes, Lagging!WorkerDone,
        LaggingProofs!WorkerDone, Lagging!Evidence, LaggingProofs!Evidence,
        Lagging!RunGoes, LaggingProofs!RunGoes, Lagging!Greater,
        LaggingProofs!Greater, Lagging!AddFill, LaggingProofs!AddFill,
        Lagging!RunFails, LaggingProofs!RunFails, Lagging!StillOpen,
        LaggingProofs!StillOpen, Lagging!HandedOff, LaggingProofs!HandedOff,
        Lagging!PendingFor, LaggingProofs!PendingFor, Lagging!Corrected,
        LaggingProofs!Corrected, Lagging!AfterExit, LaggingProofs!AfterExit,
        Lagging!Shown, LaggingProofs!Shown, Lagging!Settled,
        LaggingProofs!Settled, Lagging!Yielding, LaggingProofs!Yielding
  <1>1. \A e : Lagging!Skip(e) <=> LaggingProofs!Skip(e)
    BY DEF Lagging!Skip, LaggingProofs!Skip
  <1>2. \A o, side : Lagging!Reserve(o, side) <=> LaggingProofs!Reserve(o, side)
    BY DEF Lagging!TriedOf, LaggingProofs!TriedOf, Lagging!MayReserve,
           LaggingProofs!MayReserve, Lagging!Cardinality,
           LaggingProofs!Cardinality, Lagging!Reserve, LaggingProofs!Reserve
  <1>3. \A o : Lagging!Abort(o) <=> LaggingProofs!Abort(o)
    BY DEF Lagging!Abort, LaggingProofs!Abort
  <1>4. \A o : Lagging!Refuse(o) <=> LaggingProofs!Refuse(o)
    BY DEF Lagging!Refuse, LaggingProofs!Refuse
  <1>5. \A o : Lagging!Submit(o) <=> LaggingProofs!Submit(o)
    BY DEF Lagging!Submit, LaggingProofs!Submit
  <1>6. \A o : Lagging!NotSubmitted(o) <=> LaggingProofs!NotSubmitted(o)
    BY DEF Lagging!NotSubmitted, LaggingProofs!NotSubmitted
  <1>7. \A o : Lagging!Post(o) <=> LaggingProofs!Post(o)
    BY DEF Lagging!Post, LaggingProofs!Post
  <1>8. \A o : Lagging!NotFilled(o) <=> LaggingProofs!NotFilled(o)
    BY DEF Lagging!NotFilled, LaggingProofs!NotFilled
  <1>9. \A o : Lagging!Accepted(o) <=> LaggingProofs!Accepted(o)
    BY DEF Lagging!Accepted, LaggingProofs!Accepted
  <1>10. \A o : Lagging!Unknown(o) <=> LaggingProofs!Unknown(o)
    BY DEF Lagging!Unknown, LaggingProofs!Unknown
  <1>11. \A o : Lagging!Publish(o) <=> LaggingProofs!Publish(o)
    BY DEF Lagging!Publish, LaggingProofs!Publish
  <1>12. Lagging!ReadOpenOrders <=> LaggingProofs!ReadOpenOrders
    BY DEF Lagging!ReadOpenOrders, LaggingProofs!ReadOpenOrders
  <1>13. Lagging!ReadTrades <=> LaggingProofs!ReadTrades
    BY DEF Lagging!ReadTrades, LaggingProofs!ReadTrades
  <1>14. Lagging!ReadPositions <=> LaggingProofs!ReadPositions
    BY DEF Lagging!ReadPositions, LaggingProofs!ReadPositions
  <1>15. Lagging!ListUnresolved <=> LaggingProofs!ListUnresolved
    BY DEF Lagging!ListUnresolved, LaggingProofs!ListUnresolved
  <1>16. Lagging!RemotePositions <=> LaggingProofs!RemotePositions
    BY DEF Lagging!RemotePositions, LaggingProofs!RemotePositions
  <1>17. Lagging!EndRun <=> LaggingProofs!EndRun
    BY DEF Lagging!EndRun, LaggingProofs!EndRun
  <1>18. Lagging!RunRaises <=> LaggingProofs!RunRaises
    BY DEF Lagging!RunRaises, LaggingProofs!RunRaises
  <1>19. Lagging!Crash <=> LaggingProofs!Crash
    BY DEF Lagging!Crash, LaggingProofs!Crash
  <1>20. \A o : Lagging!Resolve(o) <=> LaggingProofs!Resolve(o)
    BY DEF Lagging!Resolve, LaggingProofs!Resolve
  <1>21. \A o : Lagging!Undecided(o) <=> LaggingProofs!Undecided(o)
    BY DEF Lagging!Undecided, LaggingProofs!Undecided
  <1>22. \A t : Lagging!RemotePosition(t) <=> LaggingProofs!RemotePosition(t)
    BY DEF Lagging!RemotePosition, LaggingProofs!RemotePosition
  <1>23. \A e : Lagging!SellOut(e) <=> LaggingProofs!SellOut(e)
    BY DEF Lagging!SellOut, LaggingProofs!SellOut
  <1>24. \A o : Lagging!Opens(o) <=> LaggingProofs!Opens(o)
    BY DEF Lagging!Opens, LaggingProofs!Opens
  <1>25. \A o : Lagging!Fills(o) <=> LaggingProofs!Fills(o)
    BY DEF Lagging!Fills, LaggingProofs!Fills
  <1>26. \A o : Lagging!Dies(o) <=> LaggingProofs!Dies(o)
    BY DEF Lagging!Dies, LaggingProofs!Dies
  <1>27. \A o : Lagging!ShowTrade(o) <=> LaggingProofs!ShowTrade(o)
    BY DEF Lagging!ShowTrade, LaggingProofs!ShowTrade
  <1>28. \A o : Lagging!GraceEnds(o) <=> LaggingProofs!GraceEnds(o)
    BY DEF Lagging!GraceEnds, LaggingProofs!GraceEnds
  <1>29. \A t : Lagging!ShowPosition(t) <=> LaggingProofs!ShowPosition(t)
    BY DEF Lagging!ShowPosition, LaggingProofs!ShowPosition
  <1>30. \A o : Lagging!WorkerStep(o) <=> LaggingProofs!WorkerStep(o)
    BY <1>3, <1>4, <1>5, <1>6, <1>7, <1>8, <1>9, <1>10, <1>11
    DEF Lagging!WorkerStep, LaggingProofs!WorkerStep
  <1>31. Lagging!RunStep <=> LaggingProofs!RunStep
    BY <1>12, <1>13, <1>14, <1>15, <1>16, <1>17, <1>18, <1>20, <1>21, <1>22
    DEF Lagging!RunStep, LaggingProofs!RunStep
  <1>32. \A o : Lagging!VenueStep(o) <=> LaggingProofs!VenueStep(o)
    BY <1>24, <1>25, <1>26, <1>27, <1>28
    DEF Lagging!VenueStep, LaggingProofs!VenueStep
  <1>. QED BY <1>1, <1>2, <1>19, <1>23, <1>29, <1>30, <1>31, <1>32
       DEF Lagging!Next, LaggingProofs!Next

LEMMA LaggingInitIsSame == Lagging!Init <=> LaggingProofs!Init
  BY DEF Lagging!Attempts, LaggingProofs!Attempts, Lagging!Orders,
         LaggingProofs!Orders, Lagging!Tokens, LaggingProofs!Tokens,
         Lagging!NoIntent, LaggingProofs!NoIntent, Lagging!NoPosition,
         LaggingProofs!NoPosition, Lagging!NoOrder, LaggingProofs!NoOrder,
         Lagging!IdleWorker, LaggingProofs!IdleWorker, Lagging!IdleRun,
         LaggingProofs!IdleRun, Lagging!Init, LaggingProofs!Init

LEMMA LaggingTypeOKIsSame == Lagging!TypeOK <=> LaggingProofs!TypeOK
  BY DEF Lagging!Attempts, LaggingProofs!Attempts, Lagging!Orders,
         LaggingProofs!Orders, Lagging!Tokens, LaggingProofs!Tokens,
         Lagging!Final, LaggingProofs!Final, Lagging!Unresolved,
         LaggingProofs!Unresolved, Lagging!ActiveStates,
         LaggingProofs!ActiveStates, Lagging!Intent, LaggingProofs!Intent,
         Lagging!Position, LaggingProofs!Position, Lagging!VenueOrder,
         LaggingProofs!VenueOrder, Lagging!EventState,
         LaggingProofs!EventState, Lagging!Worker, LaggingProofs!Worker,
         Lagging!Run, LaggingProofs!Run, Lagging!TypeOK, LaggingProofs!TypeOK

LEMMA LaggingNoPhantomSharesIsSame == Lagging!NoPhantomShares <=> LaggingProofs!NoPhantomShares
  BY DEF Lagging!NoPhantomShares, LaggingProofs!NoPhantomShares

LEMMA RetryRefinesSlotIsSame == Retry!RefinesSlot <=> RetryProofs!RefinesSlot
  <1> USE DEF Retry!Attempts, RetryProofs!Attempts, Retry!Orders, RetryProofs!Orders,
              Retry!Tokens, RetryProofs!Tokens, Retry!Out, RetryProofs!Out,
              Retry!OutNow, RetryProofs!OutNow, Retry!Bought, RetryProofs!Bought,
              Retry!Held, RetryProofs!Held
  <1>1. Retry!Slot!SlotInit <=> RetryProofs!Slot!SlotInit
    BY DEF Retry!Slot!SlotInit, RetryProofs!Slot!SlotInit
  <1>2. [Retry!Slot!SlotNext]_(Retry!Slot!slotVars)
            <=> [RetryProofs!Slot!SlotNext]_(RetryProofs!Slot!slotVars)
    BY DEF Retry!Slot!SlotNext, RetryProofs!Slot!SlotNext,
           Retry!Slot!slotVars, RetryProofs!Slot!slotVars,
           Retry!Slot!Sell, RetryProofs!Slot!Sell,
           Retry!Slot!Place, RetryProofs!Slot!Place,
           Retry!Slot!Buy, RetryProofs!Slot!Buy,
           Retry!Slot!Lapse, RetryProofs!Slot!Lapse
  <1>. QED BY <1>1, <1>2, PTL DEF Retry!RefinesSlot, RetryProofs!RefinesSlot,
           Retry!Slot!SlotSpec, RetryProofs!Slot!SlotSpec

LEMMA CanaryNextIsSame == Canary!CanaryNext <=> CanaryProofs!CanaryNext
  <1> USE DEF
        Canary!TransientCauses, CanaryProofs!TransientCauses,
        Canary!RepairableCauses, CanaryProofs!RepairableCauses,
        Canary!ManualCauses, CanaryProofs!ManualCauses, Canary!KnownCauses,
        CanaryProofs!KnownCauses, Canary!is_known_reason,
        CanaryProofs!is_known_reason, Canary!recovery_policy,
        CanaryProofs!recovery_policy, Canary!Rank, CanaryProofs!Rank,
        Canary!CleanAfterPauseCauses, CanaryProofs!CleanAfterPauseCauses,
        Canary!NeverAutoCauses, CanaryProofs!NeverAutoCauses,
        Canary!ReconciliationCauses, CanaryProofs!ReconciliationCauses,
        Canary!HumanOwners, CanaryProofs!HumanOwners, Canary!RepairOwners,
        CanaryProofs!RepairOwners, Canary!SeedRecord, CanaryProofs!SeedRecord,
        Canary!AcquireRejected, CanaryProofs!AcquireRejected,
        Canary!AfterAcquire, CanaryProofs!AfterAcquire, Canary!AfterPromote,
        CanaryProofs!AfterPromote, Canary!AfterReclassifyTransient,
        CanaryProofs!AfterReclassifyTransient, Canary!AfterScoped,
        CanaryProofs!AfterScoped, Canary!AfterEscalate,
        CanaryProofs!AfterEscalate, Canary!AfterWaiting,
        CanaryProofs!AfterWaiting, Canary!AfterReset, CanaryProofs!AfterReset,
        Canary!AfterDeescalate, CanaryProofs!AfterDeescalate,
        Canary!ReleaseAccepted, CanaryProofs!ReleaseAccepted,
        Canary!AfterRelease, CanaryProofs!AfterRelease, Canary!AfterCanary,
        CanaryProofs!AfterCanary, Canary!CanaryAvailable,
        CanaryProofs!CanaryAvailable, Canary!SignalCause,
        CanaryProofs!SignalCause, Canary!ProcessSignals,
        CanaryProofs!ProcessSignals, Canary!TimedSignals,
        CanaryProofs!TimedSignals, Canary!RamSignals, CanaryProofs!RamSignals,
        Canary!FinancialSignals, CanaryProofs!FinancialSignals,
        Canary!LiveSignals, CanaryProofs!LiveSignals, Canary!DebouncedCodes,
        CanaryProofs!DebouncedCodes, Canary!DerivedCodes,
        CanaryProofs!DerivedCodes, Canary!Claim, CanaryProofs!Claim,
        Canary!NoRecord, CanaryProofs!NoRecord, Canary!IdleTick,
        CanaryProofs!IdleTick, Canary!IdleLoop, CanaryProofs!IdleLoop,
        Canary!SnapshotBlockers, CanaryProofs!SnapshotBlockers,
        Canary!Blockers, CanaryProofs!Blockers, Canary!ManualCauseResolved,
        CanaryProofs!ManualCauseResolved, Canary!CauseFor,
        CanaryProofs!CauseFor, Canary!Debounced, CanaryProofs!Debounced,
        Canary!Strongest, CanaryProofs!Strongest, Canary!Acquire,
        CanaryProofs!Acquire, Canary!NextStep, CanaryProofs!NextStep,
        Canary!LoopIdle, CanaryProofs!LoopIdle
  <1>1. /\ Canary!TickStart <=> CanaryProofs!TickStart
        /\ Canary!TickEscalate <=> CanaryProofs!TickEscalate
        /\ Canary!TickReadPause <=> CanaryProofs!TickReadPause
    BY DEF Canary!TickStart, CanaryProofs!TickStart, Canary!TickEscalate,
           CanaryProofs!TickEscalate, Canary!TickReadPause,
           CanaryProofs!TickReadPause
  <1>2. Canary!TickEvaluate <=> CanaryProofs!TickEvaluate
    BY DEF Canary!TickEvaluate, CanaryProofs!TickEvaluate
  <1>3. Canary!TickObserve <=> CanaryProofs!TickObserve
    BY DEF Canary!TickObserve, CanaryProofs!TickObserve
  <1>4. Canary!TickAcquire <=> CanaryProofs!TickAcquire
    BY DEF Canary!TickAcquire, CanaryProofs!TickAcquire
  <1>5. Canary!TickReadRecord <=> CanaryProofs!TickReadRecord
    BY DEF Canary!TickReadRecord, CanaryProofs!TickReadRecord
  <1>6. /\ Canary!TickReset <=> CanaryProofs!TickReset
        /\ Canary!TickWait <=> CanaryProofs!TickWait
    BY DEF Canary!TickReset, CanaryProofs!TickReset, Canary!TickWait,
           CanaryProofs!TickWait
  <1>7. /\ Canary!TickDeescalate <=> CanaryProofs!TickDeescalate
        /\ Canary!TickRelease <=> CanaryProofs!TickRelease
    BY DEF Canary!TickDeescalate, CanaryProofs!TickDeescalate,
           Canary!TickRelease, CanaryProofs!TickRelease
  <1>8. /\ Canary!TickDegrade <=> CanaryProofs!TickDegrade
        /\ Canary!TickFail <=> CanaryProofs!TickFail
    BY DEF Canary!TickDegrade, CanaryProofs!TickDegrade, Canary!TickFail,
           CanaryProofs!TickFail
  <1>9. Canary!Boot <=> CanaryProofs!Boot
    BY DEF Canary!Boot, CanaryProofs!Boot
  <1>10. Canary!PublishPause <=> CanaryProofs!PublishPause
    BY DEF Canary!PublishPause, CanaryProofs!PublishPause
  <1>11. /\ Canary!PublishFlags <=> CanaryProofs!PublishFlags
         /\ Canary!PublishReclassify <=> CanaryProofs!PublishReclassify
    BY DEF Canary!PublishFlags, CanaryProofs!PublishFlags,
           Canary!PublishReclassify, CanaryProofs!PublishReclassify
  <1>12. /\ Canary!PublishPromote <=> CanaryProofs!PublishPromote
         /\ Canary!HeartbeatPause <=> CanaryProofs!HeartbeatPause
    BY DEF Canary!PublishPromote, CanaryProofs!PublishPromote,
           Canary!HeartbeatPause, CanaryProofs!HeartbeatPause
  <1>13. Canary!ResumeEvaluate <=> CanaryProofs!ResumeEvaluate
    BY DEF Canary!ResumeEvaluate, CanaryProofs!ResumeEvaluate
  <1>14. Canary!ResumeReadRecord <=> CanaryProofs!ResumeReadRecord
    BY DEF Canary!ResumeReadRecord, CanaryProofs!ResumeReadRecord
  <1>15. Canary!ResumeRelease <=> CanaryProofs!ResumeRelease
    BY DEF Canary!ResumeRelease, CanaryProofs!ResumeRelease
  <1>16. Canary!ReconClean <=> CanaryProofs!ReconClean
    BY DEF Canary!ReconClean, CanaryProofs!ReconClean
  <1>17. Canary!ScopedRepair <=> CanaryProofs!ScopedRepair
    BY DEF Canary!ScopedRepair, CanaryProofs!ScopedRepair
  <1>18. \A reason : Canary!OperatorPause(reason) <=> CanaryProofs!OperatorPause(reason)
    BY DEF Canary!OperatorPause, CanaryProofs!OperatorPause
  <1>19. \A outcome : Canary!ReconUnclean(outcome) <=> CanaryProofs!ReconUnclean(outcome)
    BY DEF Canary!ReconUnclean, CanaryProofs!ReconUnclean
  <1>20. \A reason : Canary!RuntimePause(reason) <=> CanaryProofs!RuntimePause(reason)
    BY DEF Canary!RuntimePause, CanaryProofs!RuntimePause
  <1>21. Canary!HeartbeatOk <=> CanaryProofs!HeartbeatOk
    BY DEF Canary!HeartbeatOk, CanaryProofs!HeartbeatOk
  <1>22. Canary!HeartbeatFailed <=> CanaryProofs!HeartbeatFailed
    BY DEF Canary!HeartbeatFailed, CanaryProofs!HeartbeatFailed
  <1>23. Canary!ResumeReadPause <=> CanaryProofs!ResumeReadPause
    BY DEF Canary!ResumeReadPause, CanaryProofs!ResumeReadPause
  <1>24. \A code : Canary!Raise(code) <=> CanaryProofs!Raise(code)
    BY DEF Canary!Raise, CanaryProofs!Raise
  <1>25. \A code : Canary!Clear(code) <=> CanaryProofs!Clear(code)
    BY DEF Canary!Clear, CanaryProofs!Clear
  <1>26. Canary!StabilityElapses <=> CanaryProofs!StabilityElapses
    BY DEF Canary!StabilityElapses, CanaryProofs!StabilityElapses
  <1>27. Canary!PauseAges <=> CanaryProofs!PauseAges
    BY DEF Canary!PauseAges, CanaryProofs!PauseAges
  <1>28. Canary!EvidenceAges <=> CanaryProofs!EvidenceAges
    BY DEF Canary!EvidenceAges, CanaryProofs!EvidenceAges
  <1>29. Canary!Crash <=> CanaryProofs!Crash
    BY DEF Canary!Crash, CanaryProofs!Crash
  <1>30. Canary!CanaryGate <=> CanaryProofs!CanaryGate
    BY DEF Canary!CanaryGate, CanaryProofs!CanaryGate
  <1>31. Canary!CanaryReserve <=> CanaryProofs!CanaryReserve
    BY DEF Canary!CanaryReserve, CanaryProofs!CanaryReserve
  <1>32. Canary!Tick <=> CanaryProofs!Tick
    BY <1>1, <1>2, <1>3, <1>4, <1>5, <1>6, <1>7, <1>8
    DEF Canary!Tick, CanaryProofs!Tick
  <1>33. Canary!Handler <=> CanaryProofs!Handler
    BY <1>9, <1>10, <1>11, <1>12, <1>13, <1>14, <1>15
    DEF Canary!Handler, CanaryProofs!Handler
  <1>34. Canary!Next <=> CanaryProofs!Next
    BY <1>8, <1>16, <1>17, <1>18, <1>19, <1>20, <1>21, <1>22, <1>23, <1>24,
       <1>25, <1>26, <1>27, <1>28, <1>29, <1>32, <1>33
    DEF Canary!Next, CanaryProofs!Next
  <1>. QED BY <1>30, <1>31, <1>34
       DEF Canary!CanaryNext, CanaryProofs!CanaryNext

LEMMA CanaryInitIsSame == Canary!Init <=> CanaryProofs!Init
  BY DEF Canary!SeedRecord, CanaryProofs!SeedRecord, Canary!LegacyShapePause,
         CanaryProofs!LegacyShapePause, Canary!RamSignals,
         CanaryProofs!RamSignals, Canary!Claim, CanaryProofs!Claim,
         Canary!NoRecord, CanaryProofs!NoRecord, Canary!IdleTick,
         CanaryProofs!IdleTick, Canary!IdleLoop, CanaryProofs!IdleLoop,
         Canary!Init, CanaryProofs!Init

LEMMA CanaryTypeOKIsSame == Canary!TypeOK <=> CanaryProofs!TypeOK
  BY DEF Canary!ReleasePolicy, CanaryProofs!ReleasePolicy, Canary!PauseState,
         CanaryProofs!PauseState, Canary!TransientCauses,
         CanaryProofs!TransientCauses, Canary!RepairableCauses,
         CanaryProofs!RepairableCauses, Canary!ManualCauses,
         CanaryProofs!ManualCauses, Canary!KnownCauses,
         CanaryProofs!KnownCauses, Canary!Causes, CanaryProofs!Causes,
         Canary!HumanOwners, CanaryProofs!HumanOwners, Canary!RepairOwners,
         CanaryProofs!RepairOwners, Canary!Owners, CanaryProofs!Owners,
         Canary!PauseRecords, CanaryProofs!PauseRecords, Canary!SignalCause,
         CanaryProofs!SignalCause, Canary!DerivedCodes,
         CanaryProofs!DerivedCodes, Canary!ReconReasons,
         CanaryProofs!ReconReasons, Canary!TickPCs, CanaryProofs!TickPCs,
         Canary!LoopPCs, CanaryProofs!LoopPCs, Canary!Claims,
         CanaryProofs!Claims, Canary!TickStates, CanaryProofs!TickStates,
         Canary!LoopStates, CanaryProofs!LoopStates, Canary!TypeOK,
         CanaryProofs!TypeOK

LEMMA CanaryEntersOpenIsSame == CanaryProofs!OneShotEntersOpen => Canary!OneShotEntersOpen
  <1>1. Canary!vars = CanaryProofs!vars
        /\ (Canary!OneShotConsumed <=> CanaryProofs!OneShotConsumed)
    BY DEF Canary!vars, CanaryProofs!vars, Canary!OneShotConsumed, CanaryProofs!OneShotConsumed
  <1>2. [CanaryProofs!OneShotConsumed => ~cPause.entries /\ cPause'.entries]_(CanaryProofs!vars)
        => [Canary!OneShotConsumed => ~cPause.entries /\ cPause'.entries]_(Canary!vars)
    BY <1>1 DEF Canary!vars, CanaryProofs!vars
  <1>. QED BY <1>2, PTL DEF Canary!OneShotEntersOpen, CanaryProofs!OneShotEntersOpen

-----------------------------------------------------------------------------
(* Every instance behaves as its module says *)

\* an instance rests while another is in focus
LEMMA SlotsStep == [EachNext]_<<focus, vars, retryVars, laggingVars, canaryVars>>
                    => [Next]_vars
  BY DEF EachNext

LEMMA RetryStep == [EachNext]_<<focus, vars, retryVars, laggingVars, canaryVars>>
                    => [RetryProofs!Next]_(RetryProofs!vars)
  BY RetryNextIsSame DEF EachNext, retryVars, RetryProofs!vars

LEMMA LaggingStep == [EachNext]_<<focus, vars, retryVars, laggingVars, canaryVars>>
                    => [LaggingProofs!Next]_(LaggingProofs!vars)
  BY LaggingNextIsSame DEF EachNext, laggingVars, LaggingProofs!vars

LEMMA CanaryStep == [EachNext]_<<focus, vars, retryVars, laggingVars, canaryVars>>
                    => [CanaryProofs!CanaryNext]_(CanaryProofs!vars)
  BY CanaryNextIsSame DEF EachNext, canaryVars, CanaryProofs!vars

LEMMA EachBehaves ==
    EachSpec => Spec /\ RetryProofs!Spec /\ LaggingProofs!Spec /\ CanaryProofs!CanarySpec
  <1>1. EachInit => Init /\ RetryProofs!Init /\ LaggingProofs!Init /\ CanaryProofs!Init
    BY RetryInitIsSame, LaggingInitIsSame, CanaryInitIsSame DEF EachInit
  <1>. QED BY <1>1, SlotsStep, RetryStep, LaggingStep, CanaryStep, PTL
       DEF EachSpec, Spec, RetryProofs!Spec, LaggingProofs!Spec, CanaryProofs!CanarySpec

-----------------------------------------------------------------------------
(* The properties of the run *)

\* Rows, coroutines, world and the canary's pause keep their types.
THEOREM EachTypeCorrect == EachSpec => []EachTypeOK
  <1>1. Spec => []TypeOK
    BY TypeCorrect
  <1>2. RetryProofs!Spec => []RetryProofs!TypeOK
    BY RetryProofs!TypeCorrect, RetryAssumption
  <1>3. LaggingProofs!Spec => []LaggingProofs!TypeOK
    BY LaggingProofs!TypeCorrect, LaggingAssumption
  <1>4. CanaryProofs!CanarySpec => []CanaryProofs!TypeOK
    BY CanaryProofs!CanaryTypeCorrect, CanaryAssumption, CanaryUnknownCauses
  <1>. QED BY <1>1, <1>2, <1>3, <1>4, EachBehaves, RetryTypeOKIsSame,
          LaggingTypeOKIsSame, CanaryTypeOKIsSame, PTL DEF EachTypeOK

\* No row claims shares the account does not have, with the two tokens of an
\* event and views that lag, and between the attempts of an event.
THEOREM EachHasNoPhantoms == EachSpec => []NoPhantoms
  <1>1. RetryProofs!Spec => []RetryProofs!NoPhantomShares
    BY RetryProofs!NoPhantomsEver, RetryAssumption
  <1>2. LaggingProofs!Spec => []LaggingProofs!NoPhantomShares
    BY LaggingProofs!NoPhantomsEver, LaggingAssumption
  <1>. QED BY <1>1, <1>2, EachBehaves, RetryNoPhantomSharesIsSame,
          LaggingNoPhantomSharesIsSame, PTL DEF NoPhantoms

\* While an order may fill, or shares are held, the rows keep the slot, and what
\* they call a zero fill is one.
THEOREM EachKeepsTheSlot ==
    ASSUME PromptVenue
    PROVE  EachSpec => []SlotIsKept
  <1>1. Spec => []ExposureHoldsSlot
    BY ExposureKeepsSlot
  <1>2. RetryProofs!Spec => []RetryProofs!ExposureHoldsSlot
    BY RetryProofs!ExposureKeepsSlot, RetryAssumption
  <1>3. RetryProofs!Spec => []RetryProofs!ZeroFillIsTrue
    BY RetryProofs!ZeroFillsAreTrue, RetryAssumption
  <1>. QED BY <1>1, <1>2, <1>3, EachBehaves, RetryExposureHoldsSlotIsSame,
          RetryZeroFillIsTrueIsSame, PTL DEF SlotIsKept

\* The entry implements the slot, between events and between attempts of one.
THEOREM EachImplementsTheSlot ==
    ASSUME PromptVenue
    PROVE  EachSpec => SlotIsRefined
  <1>1. Spec => RefinesSlot
    BY SlotIsImplemented
  <1>2. RetryProofs!Spec => RetryProofs!RefinesSlot
    BY RetryProofs!SlotIsImplemented, RetryAssumption
  <1>. QED BY <1>1, <1>2, EachBehaves, RetryRefinesSlotIsSame, PTL DEF SlotIsRefined

\* The canary is consumed by an entry that finds entries open: a pause acquired
\* between its gate and its reservation is neither bought through nor overwritten.
THEOREM EachCanaryEntersOpen == EachSpec => CanaryEntersOpen
  <1>1. CanaryProofs!CanarySpec => CanaryProofs!OneShotEntersOpen
    BY CanaryProofs!OneShotTheorem, CanaryAssumption, CanaryUnknownCauses
  <1>. QED BY <1>1, EachBehaves, CanaryEntersOpenIsSame, PTL DEF CanaryEntersOpen
=============================================================================
