SPECIFICATION Spec
CONSTANTS
  w1 = w1
  w2 = w2
  often = often
  once = once
  never = never
  bad = bad
  Star = Star
  None = None
  Workers <- MCWorkers
  Jobs <- MCJobs
  Plain <- MCPlain
  Lease = 1
  Prompt = FALSE
  Schedule <- MCSchedule
  Ranges <- MCRanges
  Calendar <- MCCalendar
  Horizon = 7
  MaxTime = 3
  MaxClaims = 4
SYMMETRY WorkerSymmetry
INVARIANTS
  SlotsAreClaimedOnce
CHECK_DEADLOCK FALSE
