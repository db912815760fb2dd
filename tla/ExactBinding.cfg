SPECIFICATION Spec
CONSTANTS
  x = x
  y = y
  Rounds = {1, 2}
  None = None
  Tasks = {task}
  i1 = i1
  i2 = i2
  e1 = e1
  e2 = e2
  Ids = {i1, i2}
  Drafts <- MCDrafts
  Executors = {e1, e2}
  MaxBatch = 2
  MaxSends = 3
  z = z
  Edited = z
  Values = {x, y, z}
INVARIANTS
  ReleasedAsAuthorized
  SiblingsInOrder
  ResumedUnderItsReview
  OutcomesAnswerTheirHandles
  RestoredRequestsResume
SYMMETRY Symmetry
