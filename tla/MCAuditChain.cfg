SPECIFICATION Spec
CONSTANTS
  p1 = p1
  p2 = p2
  k1 = k1
  k2 = k2
  None = None
  Processes <- MCProcesses
  FreshKeys <- MCFresh
  Unkeyed = Unkeyed
  MaxLines = 3
  MayEdit = TRUE
SYMMETRY ChainSymmetry
INVARIANTS
  ChainTypeOK
  LinesVerify
  VerdictsAreRight
  CheckpointsCover
  RetiredKeysStayRetired
CHECK_DEADLOCK FALSE
