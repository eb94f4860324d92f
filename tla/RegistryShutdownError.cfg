SPECIFICATION Spec
CONSTANTS
  Keys = {k1}
  Targets = {t1}
  Times = {0}
  Calls = {c1, c2}
  Observers = {}
  Capacity = 1
  MaxDrains = 1
  None = None
PROPERTY
  DrainSealsWithShutdownError
