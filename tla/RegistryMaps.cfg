SPECIFICATION Spec
CONSTANTS
  Keys = {k1, k2}
  Targets = {t1, t2}
  Times = {0, 1}
  Calls = {c1, c2}
  Observers = {o1}
  Capacity = 1
  MaxDrains = 0
  None = None
SYMMETRY Symmetry
INVARIANTS
  TypeOK
  SnapshotMatchesStore
  ResponseReflectsRoutes
PROPERTY
  ActivityNeverRegresses
