SPECIFICATION ChatSpec
CONSTANTS
  s1 = s1
  s2 = s2
  write = write
  note = note
  read = read
  None = None
  AsIssued = AsIssued
  Spellings = {AsIssued}
  Threads <- TwoServers
  Processes <- TwoServers
  ProcessOf <- OwnProcess
  Actions <- FewActions
  Unregistered = {}
  Malformed = {}
  Risk <- FileRisk
  AllowWrites = FALSE
  TTL = 1
  RequestTTL = 1
  MaxTime = 1
  MaxBoots = 1
  MaxCalls = 4
  MaxTokens = 2
  MaxSteps = 1
  Lossy = {}
SYMMETRY ServerSymmetry
INVARIANTS
  ChatTypeOK
  OnlyApprovedActionsRun
  OneEffectPerRequest
  CardsMatchRows
PROPERTY
  DecisionsAreFinal
CHECK_DEADLOCK FALSE
