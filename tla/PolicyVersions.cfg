SPECIFICATION Spec
CONSTANTS
  Editors = {e1, e2}
  Offered = {"create", "update", "delete", "rollback", "activate_category"}
  MaxRequests = 2
  MaxTries = 2
  None = None
CHECK_DEADLOCK FALSE
SYMMETRY Symmetry
INVARIANTS
  UpdatesKeepWhatTheyReplace
  RetriedEditsApplyOnce
