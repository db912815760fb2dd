SPECIFICATION FairSpec
CONSTANTS
  Coordinators = {c1}
  Operations = {o1, o2}
  NumSteps = 2
  Fences = {1}
  MaxAttempts = 2
  MaxInFlight = 3
  None = None
INVARIANTS
  TypeOK
  AppliedOnce
  SuccessMeansApplied
PROPERTIES
  EffectsInOrder
  EventuallySettled
