SPECIFICATION ChatSpec
CONSTANTS
  s1 = s1
  s2 = s2
  write = write
  note = note
  read = read
  None = None
  AsIssued = AsIssued
  Spellings = {AsIssued}
  Threads <- OneServer
  Processes <- OneServer
  ProcessOf <- OwnProcess
  Actions <- MoreActions
  Unregistered = {}
  Malformed = {}
  Risk <- FileRisk
  AllowWrites = FALSE
  TTL = 1
  RequestTTL = 1
  MaxTime = 1
  MaxBoots = 1
  MaxCalls = 6
  MaxTokens = 3
  MaxSteps = 2
  Lossy <- LossyNote
INVARIANTS
  RequestsAreAudited
  RepliesAreTrue
PROPERTY
  RequestsAreAnswered
CHECK_DEADLOCK FALSE
