\* Every plan of four actions that is not refused and every plan of three,
\* two slots, one image pull tried at most twice.
SPECIFICATION Spec
CONSTANTS
  NumActions = 4
  Plans <- MCPlans
  PullImages = {1}
  MaxConcurrency = 2
  MaxAttempts = 2
INVARIANTS
  DependenciesSucceedFirst
  SkippedIffDependencyFailed
  CompleteUnlessCancelled
  ReportMatchesEvents
  AtMostOneLateDispatch
  SlotsRespectedAndUsed
PROPERTIES
  ImplementsPlanExecution
