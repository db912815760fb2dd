SPECIFICATION Spec
CONSTANTS
  Tasks = {t1, t2}
  Cancellable = {t1, t2}
  Requests = {r1, r2}
  Poisoned = {r2}
  Limit = 2
  SupportsSingleUse = TRUE
  LookupRegistered = TRUE
  KeepFirst = TRUE
  ExecutorResult = executor_result
  LookupResult = lookup_result
  None = None
SYMMETRY TaskSymmetry
INVARIANTS
  TypeOK
  AtMostOnce
  BoundaryBeforeExecutor
  ReceiptsWitnessEffects
  SuccessIsDurable
  NoReceiptLost
  UncertainHandlesCrossedBoundary
PROPERTY ImplementsEffectOnce
