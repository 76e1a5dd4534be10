SPECIFICATION Spec
CONSTANTS
  r1 = r1
  r2 = r2
  r3 = r3
  j1 = j1
  j2 = j2
  e1 = e1
  Requests <- Rivals
  Journeys = {j1, j2}
  Emails = {e1}
  JourneyOf <- RivalsJourney
  EmailOf <- RivalsEmail
  MaxSends <- RivalsMax
  Cooldown = 1
  WindowLength = 1
  MaxClock = 1
  NoOne = NoOne
  NotGranted = NotGranted
  PurgeOvertakes = FALSE
  MaxFaults = 1
INVARIANTS
  TypeOK
  CapHolds
PROPERTIES
  ImplementsQuota
CHECK_DEADLOCK FALSE
