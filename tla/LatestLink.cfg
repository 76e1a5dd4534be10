SPECIFICATION Spec
CONSTANTS
  r1 = r1
  r2 = r2
  j1 = j1
  j2 = j2
  e1 = e1
  e2 = e2
  a1 = a1
  a2 = a2
  g1 = g1
  p1 = p1
  Requests <- Two
  Journeys = {j1}
  Emails = {e1}
  JourneyOf <- OneJourney
  EmailOf <- OneEmail
  MaxSends <- Roomy
  Cooldown = 1
  WindowLength = 4
  MaxClock = 1
  LinkTtl = 1
  VerifiedTtl = 1
  Retention = 2
  ReadPreference = "primary"
  NotGranted = NotGranted
  Never = Never
  MaxFaults = 0
  Attempts = {}
  Registrations = {}
  Polls = {}
INVARIANTS
  LatestLinkWorks
CHECK_DEADLOCK FALSE
