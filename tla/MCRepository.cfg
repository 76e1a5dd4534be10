SPECIFICATION Spec
CONSTANTS
  c1 = c1
  g1 = g1
  f1 = f1
  s1 = s1
  References = {f1, s1}
  Seeds = {s1}
  Calls = {c1}
  Groups = {g1}
  Nobody = Nobody
  MaxChanges = 2
  MaxFaults = 1
INVARIANTS
  TypeOK
  HistoryMatches
  AllOrNothing
  ConflictsRetried
PROPERTIES
  ImplementsLog
CHECK_DEADLOCK FALSE
