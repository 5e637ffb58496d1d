SPECIFICATION Spec
CONSTANTS
  p1 = p1
  p2 = p2
  m1 = m1
  m2 = m2
  f1 = f1
  f2 = f2
  t1 = t1
  t2 = t2
  None = None
  NoFile = NoFile
  Blank = Blank
  Mixed = Mixed
  Erased = Erased
  Nobody = Nobody
  Processes <- MCTwo
  Workers <- MCTwo
  Threads <- MCTwo
  Ids <- MCIds
  Facts <- MCFacts
  Tasks <- MCTasks
  MaxCalls = 3
  MaxMade = 4
  MaxActs = 4
  MaxAnswers = 3
SYMMETRY StoreSymmetry
INVARIANTS
  StoresTypeOK
  HonestMemoryReconciles
  ForgottenStays
  TasksResume
  VaultMatchesProvider
  SilentAfterRevocation
CHECK_DEADLOCK FALSE
