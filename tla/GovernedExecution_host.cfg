SPECIFICATION HostSpec
CONSTANTS
  Tasks = {t1, t2}
  Cancellable = {t1}
  Requests = {r1}
  Poisoned = {}
  Limit = 1
  SupportsSingleUse = TRUE
  LookupRegistered = TRUE
  KeepFirst = FALSE
  ExecutorResult = executor_result
  LookupResult = executor_result
  None = None
PROPERTIES
  EventuallyDelivered
  EventuallyReconciled
