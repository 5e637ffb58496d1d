SPECIFICATION Spec
CONSTANTS
  t1 = t1
  t2 = t2
  fetch = fetch
  read = read
  url = url
  here = here
  there = there
  visit = visit
  stray = stray
  look = look
  lower = lower
  upper = upper
  strays = strays
  looks = looks
  Unset = Unset
  None = None
  Threads <- MCThreads
  Actions <- MCActions
  Tokens <- MCTokens
  ActionOf <- MCActionOf
  Tools <- MCTools
  Keys <- MCKeys
  ToolOf <- MCToolOf
  Argument <- MCArgument
  Grants <- MCGrants
  MaxIds = 3
  MaxUses = 2
  MaxTime = 1
SYMMETRY CallSymmetry
INVARIANTS
  TypeOK
  BudgetsHold
  TokensAreRedeemedOnce
  DelegationOnlyNarrows
CHECK_DEADLOCK FALSE
