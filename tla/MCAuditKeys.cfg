SPECIFICATION Spec
CONSTANTS
  p1 = p1
  p2 = p2
  p3 = p3
  k1 = k1
  k2 = k2
  old = old
  older = older
  None = None
  Processes <- MCProcesses
  FreshKeys <- MCFresh
  LegacyKeys <- MCLegacy
  Gone = Gone
SYMMETRY KeySymmetry
INVARIANTS
  TypeOK
  HandedKeysResolve
  LookupsFind
  RotationReplaces
CHECK_DEADLOCK FALSE
