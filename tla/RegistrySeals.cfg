SPECIFICATION Spec
CONSTANTS
  Keys = {k1}
  Targets = {t1}
  Times = {0}
  Calls = {c1, c2, c3}
  Observers = {}
  Capacity = 1
  MaxDrains = 2
  None = None
SYMMETRY Symmetry
INVARIANTS
  AtMostOneFailStop
  KnownIndeterminateIsMasked
  DiagnosticsAccounted
PROPERTIES
  
  TerminalSealIsFinal
  
