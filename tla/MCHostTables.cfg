SPECIFICATION TablesSpec
CONSTANTS
  w1 = w1
  w2 = w2
  often = often
  once = once
  never = never
  bad = bad
  Star = Star
  None = None
  Workers <- MCWorkers
  Jobs <- MCJobs
  Plain <- MCPlain
  Lease = 2
  Prompt = TRUE
  Schedule <- MCSchedule
  Ranges <- MCRanges
  Calendar <- MCCalendar
  Horizon = 7
  MaxTime = 4
  MaxClaims = 3
  e1 = e1
  e2 = e2
  e3 = e3
  approve = approve
  deny = deny
  other = other
  NoEvent = NoEvent
  Endpoints <- MCEndpoints
  Events <- MCEvents
  Stamp <- MCStamp
  MaxAge = 2
  Undecided <- MCUndecided
  InTime = TRUE
  LastSecond = 5
SYMMETRY TableSymmetry
INVARIANTS
  TypeOK
  SlotsAreClaimedOnce
  EventTypeOK
  EventsAreSingleUse
  UsableEventsAreRemembered
PROPERTIES
  ClaimsAreNotStolen
  LastRunAdvances
CHECK_DEADLOCK FALSE
