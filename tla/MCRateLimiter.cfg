SPECIFICATION Spec
CONSTANTS
  r1 = r1
  r2 = r2
  r3 = r3
  j1 = j1
  j2 = j2
  e1 = e1
  Requests <- Resends
  Journeys = {j1}
  Emails = {e1}
  JourneyOf <- ResendsJourney
  EmailOf <- ResendsEmail
  MaxSends <- ResendsMax
  Cooldown = 1
  WindowLength = 2
  MaxClock = 1
  NoOne = NoOne
  NotGranted = NotGranted
  PurgeOvertakes = FALSE
  MaxFaults = 0
SYMMETRY ResendsSymmetry
INVARIANTS
  CooldownSpacing
  QuotaExact
CHECK_DEADLOCK FALSE
