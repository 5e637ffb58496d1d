SPECIFICATION EventSpec
CONSTANTS
  e1 = e1
  e2 = e2
  e3 = e3
  approve = approve
  deny = deny
  other = other
  NoEvent = NoEvent
  Endpoints <- MCEndpoints
  Events <- MCEvents
  Stamp <- MCStamp
  MaxAge = 2
  Undecided <- MCUndecided
  InTime = FALSE
  LastSecond = 5
SYMMETRY EndpointSymmetry
INVARIANTS
  EventsAreSingleUse
CHECK_DEADLOCK FALSE
