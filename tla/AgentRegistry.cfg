SPECIFICATION RegistrySpec
CONSTANTS
  a = a
  b = b
  svid = svid
  team = team
  o1 = o1
  o2 = o2
  Operators = {o1, o2}
  Names = {agent}
  Wants <- MCWants
  Entries = {a, b}
  Kinds = {svid}
  Teams = {team}
  Budgets = {0}
  MaxTries = 3
  Absent = Absent
INVARIANTS
  EnsuredAsWanted
  RefusedOnlyByARace
SYMMETRY Symmetry
