CONSTANTS
  c = c
  d = d
  t = t
  Root = Root
  Absent = Absent
  Nothing = Nothing
  Entities = {c, d, t}
  Kind <- MCKind
  Id <- MCId
  Parent <- MCParent
  Configs <- MCConfigs
  Values = {0, 1}
  Initial <- MCInitial
  MaxFetches = 2
  MaxForeign = 1
  MaxChanges = 2
SPECIFICATION Spec
CHECK_DEADLOCK FALSE
INVARIANT FirstEditsFlagged
PROPERTY NoBlindOverwrite
