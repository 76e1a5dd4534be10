SPECIFICATION SpecSave
CONSTANTS
  c1 = c1
  c2 = c2
  c3 = c3
  f1 = f1
  f2 = f2
  References = {f1, f2}
  Seeds = {}
  Calls = {c1, c2, c3}
  Groups = {}
  Nobody = Nobody
  MaxChanges = 1
  MaxFaults = 1
  Submissions = {c1, c2}
  MaxAttempts = 2
INVARIANTS
  SaveTypeOK
  StoredOnce
  AcceptedIsStored
PROPERTIES
  SubmissionsAnswered
CHECK_DEADLOCK FALSE
