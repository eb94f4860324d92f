SPECIFICATION FairSpec
CONSTANTS
  Keys = {k1}
  Targets = {t1}
  Times = {0, 1}
  Calls = {c1, c2}
  Observers = {o1}
  Capacity = 1
  MaxDrains = 0
  None = None
PROPERTY
  MutationsFinish
