CONSTANTS
  UnknownCauses <- Unclassified
  Signals <- OpenIntent
  RuntimeReasons <- RuntimeCauses
  OperatorReasons = {"OPERATOR_PAUSE"}
  ReconFailures <- GapAndFailure
  RealTrading = TRUE
  CanaryMode = FALSE
  MaxFaults = 1
SPECIFICATION FairSpec
INVARIANT TypeOK
PROPERTIES
  MachineReleasesWhatItEvaluated
  MachineReleaseHasCleanEvidence
  RepairVerifiedForThisPause
  RefinesCustody
  RecoversUnlessManual
  PersistentBlockerPauses
