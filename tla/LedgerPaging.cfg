SPECIFICATION Spec
CONSTANTS
  Agents = {a1, a2}
  PageSize = 2
  MaxRows = 6
  None = None
SYMMETRY Symmetry
INVARIANTS
  OffsetWalksMissOnlyWhatMoved
PROPERTIES
  TurnsSkipNothing
  ShortPageIsTheLast
