SPECIFICATION Spec
CONSTANTS
  t1 = t1
  t2 = t2
  p1 = p1
  pay = pay
  send = send
  edit = edit
  ghost = ghost
  bad = bad
  lower = lower
  upper = upper
  None = None
  Threads <- MCThreads
  Processes <- MCProcesses
  ProcessOf <- MCProcessOf
  Actions <- MCActions
  Unregistered <- MCUnregistered
  Malformed <- MCMalformed
  Risk <- MCRisk
  AllowWrites = TRUE
  TTL = 1
  MaxTime = 1
  MaxBoots = 1
  MaxCalls = 2
  MaxTokens = 2
  Spellings <- MCSpellings
  AsIssued = lower
SYMMETRY ThreadSymmetry
INVARIANTS
  TypeOK
  GatedEffectsAreApproved
  LogAccountsForEffects
  ReturnsAreAudited
PROPERTY
  KeepsPromise
CHECK_DEADLOCK FALSE
