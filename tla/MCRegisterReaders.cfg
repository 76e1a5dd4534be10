SPECIFICATION Spec
CONSTANTS
  c1 = c1
  b1 = b1
  b2 = b2
  b3 = b3
  b4 = b4
  s1 = s1
  w1 = w1
  x1 = x1
  m1 = m1
  Forged = Forged
  Malformed = Malformed
  References <- Three
  Undated <- OneUndated
  Criteria = {c1}
  Matching <- All
  MaxClock = 3
  Walks = {w1}
  Exports = {x1}
  PageSize = 1
  MaxRows = 1
  Beacons <- FourBeacons
  KindOf <- Kinds4
  TokenOf <- Tokens4
  TokenRequired = TRUE
  Summaries = {m1}
  Ranges <- Periods
  DayLength = 2
  MonthLength = 2
  YearLength = 2
  MaxFaults = 1
INVARIANTS
  TypeOK
  PagesCover
  TotalsTrue
  ExportWhole
  CountedOnce
  RangesAddUp
  RowsAddUp
  SummaryOfItsTime
CONSTRAINT OneReader
CHECK_DEADLOCK FALSE
