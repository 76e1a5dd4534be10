------------------------ MODULE JourneyMetrics_proofs ------------------------
(***************************************************************************)
(* Theorems about what a step of RegisterReaders may do to the register,   *)
(* and about the journey metrics, for any references, beacons, ranges and  *)
(* lengths of a day, a month and a year.                                   *)
(***************************************************************************)
EXTENDS RegisterReaders, FiniteSetTheorems, TLAPS

-----------------------------------------------------------------------------
(* The register.                                                           *)

Dates == Instants \cup {NoDate}

LEMMA Constants ==
  /\ References \subseteq Nat /\ IsFiniteSet(References)
  /\ Matching \in [Criteria -> SUBSET References]
  /\ MaxClock \in Nat
  /\ Dates \subseteq Int /\ Instants \subseteq Nat /\ NoDate \notin Instants
  /\ DayLength \in Nat \ {0} /\ MonthLength \in Nat \ {0}
  /\ Ranges \subseteq [from : Int, to : Int]
BY RegisterAssumption, MetricsAssumption
   DEF Dates, Instants, NoDate, NoBound

\* All that a step can do to the register: nothing stored leaves it or gets
\* another date, and what is deleted stays deleted.
RegisterMoves ==
  /\ clock <= clock'
  /\ Stored \subseteq Stored'
  /\ Deleted \subseteq Deleted'
  /\ \A ref \in Stored : register'[ref].submittedAt = register[ref].submittedAt

LEMMA RegisterShape ==
  ASSUME RegisterTypeOK
  PROVE  /\ Visible \subseteq References /\ Deleted \subseteq References
         /\ Stored \subseteq References /\ IsFiniteSet(Stored)
         /\ Visible \cap Deleted = {}
         /\ \A ref \in References : register[ref].submittedAt \in Dates
<1>1. Visible \subseteq References /\ Deleted \subseteq References
  BY DEF Visible, Deleted
<1>2. Stored \subseteq References
  BY <1>1 DEF Stored
<1>3. IsFiniteSet(Stored)
  BY <1>2, Constants, FS_Subset
<1>4. QED
  BY <1>1, <1>2, <1>3 DEF Visible, Deleted, RegisterTypeOK, Dates

LEMMA RegisterInit == Init => RegisterTypeOK
BY Constants
   DEF Init, InitRegister, RegisterTypeOK, Instants, Stages

LEMMA RegisterNext ==
  ASSUME RegisterTypeOK, [Next]_vars
  PROVE  RegisterTypeOK' /\ RegisterMoves
<1> USE DEF RegisterTypeOK, RegisterMoves, Stored, Visible, Deleted, Stages
<1>0. clock \in Int
  BY Constants
<1>1. CASE Tick
  BY <1>0, <1>1, Constants DEF Tick, Instants
<1>2. ASSUME NEW ref \in References, Submit(ref)
      PROVE  RegisterTypeOK' /\ RegisterMoves
  BY <1>0, <1>2 DEF Submit
<1>3. ASSUME NEW ref \in References, Store(ref) \/ SoftDelete(ref)
      PROVE  RegisterTypeOK' /\ RegisterMoves
  BY <1>0, <1>3 DEF Store, SoftDelete, Advance
<1>4. CASE UNCHANGED registerVars
  BY <1>0, <1>4 DEF registerVars
<1>5. [Change]_registerVars
  BY DEF Next, vars, registerVars, Search, Metrics, AskPage, ReadRows,
         ReadTotal, AnswerPage, AskExport, RejectReference, ServeOne,
         ServeMatches, RejectToken, Accept, Record, RecordFails, AskSummary,
         Count, AnswerSummary
<1>6. QED
  BY <1>1, <1>2, <1>3, <1>4, <1>5 DEF Change

-----------------------------------------------------------------------------
(* Days, and counting between two of them.                                 *)

LEMMA DayBounds ==
  ASSUME NEW t \in Nat
  PROVE  /\ StartOfDay(t) = DayLength * (t \div DayLength)
         /\ StartOfDay(t) <= t
         /\ EndOfDay(t) = StartOfDay(t) + DayLength - 1
         /\ t <= EndOfDay(t)
         /\ StartOfDay(t) \in Nat /\ EndOfDay(t) \in Nat
<1>1. DayLength \in Nat /\ DayLength > 0
  BY Constants
<1>2. /\ t = DayLength * (t \div DayLength) + (t % DayLength)
      /\ 0 <= t % DayLength /\ t % DayLength < DayLength
      /\ t % DayLength \in Nat /\ t \div DayLength \in Nat
  BY <1>1, Z3
<1>3. QED
  BY <1>1, <1>2 DEF StartOfDay, EndOfDay

\* The last day of the first part ends one instant before the first day of the
\* second begins.
LEMMA DaysAdjoin ==
  ASSUME NEW to \in Nat, NEW from \in Nat,
         from \div DayLength = to \div DayLength + 1
  PROVE  StartOfDay(from) = EndOfDay(to) + 1
<1>1. DayLength \in Nat /\ from \div DayLength \in Int /\ to \div DayLength \in Int
  BY Constants
<1>2. StartOfDay(from) = DayLength * (to \div DayLength + 1)
  BY DayBounds
<1>3. DayLength * (to \div DayLength + 1)
        = DayLength * (to \div DayLength) + DayLength
  BY <1>1
<1>4. DayLength * (to \div DayLength) \in Int
  BY <1>1
<1>5. EndOfDay(to) = DayLength * (to \div DayLength) + DayLength - 1
  BY DayBounds
<1>6. QED
  BY <1>1, <1>2, <1>3, <1>4, <1>5

LEMMA MonthType == \A t \in Int : MonthOf(t) \in Int
BY Constants DEF MonthOf, NoMonth

\* Dates by what has them: events by beacon, registrations by reference.
DatesOK(dates) ==
  IsFiniteSet(DOMAIN dates) /\ \A d \in DOMAIN dates : dates[d] \in Dates

LEMMA WithinFinite ==
  ASSUME NEW dates, DatesOK(dates), NEW range
  PROVE  /\ Within(dates, range) \subseteq DOMAIN dates
         /\ IsFiniteSet(Within(dates, range))
         /\ Cardinality(Within(dates, range)) \in Nat
<1>1. Within(dates, range) \subseteq DOMAIN dates
  BY DEF Within
<1>2. QED
  BY <1>1, FS_Subset, FS_CardinalityType DEF DatesOK

\* A tally: what a count over a range answers with, and the one not yet read.
Tallies == [total : Int,
            byMonth : UNION {[months -> Nat] : months \in SUBSET Int}]

LEMMA UncountedIsTally == Uncounted \in Tallies
<1>1. << >> \in [{} -> Nat]
  OBVIOUS
<1>2. QED
  BY <1>1 DEF Uncounted, Tallies

LEMMA CountsType ==
  ASSUME NEW dates, DatesOK(dates), NEW range
  PROVE  /\ Counts(dates, range) \in Tallies
         /\ Counts(dates, range).total = Cardinality(Within(dates, range))
         /\ Counts(dates, range).total \in Nat
         /\ Counts(dates, range) # Uncounted
<1> DEFINE matched == Within(dates, range)
           months == {MonthOf(dates[d]) : d \in matched}
<1>1. /\ matched \subseteq DOMAIN dates /\ IsFiniteSet(matched)
      /\ Cardinality(matched) \in Nat
  BY WithinFinite
<1>2. \A d \in matched : MonthOf(dates[d]) \in Int
  BY <1>1, Constants, MonthType DEF DatesOK
<1>3. ASSUME NEW month \in months
      PROVE  Cardinality({d \in matched : MonthOf(dates[d]) = month}) \in Nat
  BY <1>1, FS_Subset, FS_CardinalityType
<1> DEFINE series == [month \in months |->
                        Cardinality({d \in matched : MonthOf(dates[d]) = month})]
<1>4. series \in [months -> Nat] /\ months \in SUBSET Int
  BY <1>2, <1>3
<1>5. Counts(dates, range) = [total |-> Cardinality(matched), byMonth |-> series]
  BY DEF Counts
<1>6. Uncounted.total \notin Nat
  BY DEF Uncounted
<1> HIDE DEF series, months, matched
<1>7. QED
  BY <1>1, <1>4, <1>5, <1>6 DEF Tallies, matched

\* A source that only gains documents, whose dates stay, never counts fewer.
LEMMA CountsGrow ==
  ASSUME NEW dates, NEW more, DatesOK(dates), DatesOK(more), NEW range,
         DOMAIN dates \subseteq DOMAIN more,
         \A d \in DOMAIN dates : more[d] = dates[d]
  PROVE  Counts(dates, range).total <= Counts(more, range).total
<1>1. Within(dates, range) \subseteq Within(more, range)
  BY DEF Within
<1>2. Cardinality(Within(dates, range)) <= Cardinality(Within(more, range))
  BY <1>1, WithinFinite, FS_Subset
<1>3. QED
  BY <1>2, CountsType


-----------------------------------------------------------------------------
(* Sums.                                                                   *)

\* What a sum counts: one pair for each unit of each entry.
Parts(series) == UNION {{x} \X (1..series[x]) : x \in DOMAIN series}

LEMMA PartsOf ==
  ASSUME NEW D, NEW series \in [D -> Nat]
  PROVE  \A p : p \in Parts(series) <=>
                  \E x \in D : \E i \in 1..series[x] : p = <<x, i>>
BY DEF Parts

LEMMA PartsFinite ==
  ASSUME NEW D, IsFiniteSet(D), NEW series \in [D -> Nat]
  PROVE  IsFiniteSet(Parts(series)) /\ Summed(series) \in Nat
<1> DEFINE column == [x \in D |-> {x} \X (1..series[x])]
           columns == {{x} \X (1..series[x]) : x \in D}
<1>1. column \in Surjection(D, columns)
  BY DEF Surjection
<1>2. IsFiniteSet(columns)
  BY <1>1, FS_Surjection
<1>3. ASSUME NEW T \in columns
      PROVE  IsFiniteSet(T)
  <2>1. PICK x \in D : T = {x} \X (1..series[x])
    OBVIOUS
  <2>2. series[x] \in Int
    OBVIOUS
  <2>3. IsFiniteSet({x}) /\ IsFiniteSet(1..series[x])
    <3>1. IsFiniteSet({x})
      BY FS_Singleton
    <3>2. IsFiniteSet(1..series[x])
      BY <2>2, FS_Interval
    <3>3. QED
      BY <3>1, <3>2
  <2>4. QED
    BY <2>1, <2>3, FS_Product
<1>4. Parts(series) = UNION columns /\ Summed(series) = Cardinality(Parts(series))
  BY DEF Parts, Summed
<1> HIDE DEF columns
<1>5. IsFiniteSet(Parts(series))
  BY <1>2, <1>3, <1>4, FS_UNION
<1>6. QED
  BY <1>4, <1>5, FS_CardinalityType

LEMMA SumOfNone ==
  ASSUME NEW series, DOMAIN series = {}
  PROVE  Summed(series) = 0
<1>1. UNION {{x} \X (1..series[x]) : x \in {}} = {}
  OBVIOUS
<1>2. QED
  BY <1>1, FS_EmptySet DEF Summed

\* An entry more or less adds or takes what it says: with SumOfNone, this is a
\* sum.
LEMMA SumOfOneMore ==
  ASSUME NEW D, IsFiniteSet(D), NEW series \in [D -> Nat], NEW x \in D
  PROVE  LET rest == [y \in D \ {x} |-> series[y]]
         IN  Summed(series) = series[x] + Summed(rest)
<1> DEFINE rest == [y \in D \ {x} |-> series[y]]
           units == 1..series[x]
           column == {x} \X units
<1>1. rest \in [D \ {x} -> Nat] /\ IsFiniteSet(D \ {x}) /\ series[x] \in Nat
  BY FS_RemoveElement
<1>2. IsFiniteSet(Parts(rest)) /\ IsFiniteSet(units)
      /\ Cardinality(units) = series[x]
  <2>1. IsFiniteSet(units)
        /\ Cardinality(units) = IF 1 > series[x] THEN 0 ELSE series[x] - 1 + 1
    BY <1>1, FS_Interval
  <2>2. QED
    BY <1>1, <2>1, PartsFinite
<1>3. IsFiniteSet(column) /\ Cardinality(column) = series[x]
  <2>1. IsFiniteSet({x}) /\ Cardinality({x}) = 1
    BY FS_Singleton
  <2>2. IsFiniteSet(column) /\ Cardinality(column) = 1 * Cardinality(units)
    BY <1>2, <2>1, FS_Product
  <2>3. QED
    BY <1>1, <1>2, <2>2
<1>4. \A p : p \in Parts(series) <=> p \in column \cup Parts(rest)
  BY <1>1, PartsOf
<1>5. column \cap Parts(rest) = {}
  BY <1>1, PartsOf
<1> HIDE DEF rest, column, units
<1>6. Parts(series) = column \cup Parts(rest)
  BY <1>4
<1>7. /\ Cardinality(Parts(series))
           = Cardinality(column) + Cardinality(Parts(rest))
               - Cardinality(column \cap Parts(rest))
      /\ Cardinality(column \cap Parts(rest)) = 0
      /\ Cardinality(Parts(rest)) \in Nat
  BY <1>2, <1>3, <1>5, <1>6, FS_Union, FS_EmptySet, FS_CardinalityType
<1>8. Cardinality(Parts(series)) = series[x] + Cardinality(Parts(rest))
  BY <1>1, <1>3, <1>7
<1>9. QED
  BY <1>8 DEF Summed, Parts, rest

Group(A, group, x) == {a \in A : group[a] = x}

\* A set counted in groups is counted once.
LEMMA SumOfGroups ==
  ASSUME NEW A, IsFiniteSet(A), NEW D, NEW group \in [A -> D],
         NEW series,
         series = [x \in D |-> Cardinality(Group(A, group, x))]
  PROVE  /\ series \in [D -> Nat]
         /\ Summed(series) = Cardinality(A)
<1> DEFINE numbering == [x \in D |-> CHOOSE b : b \in Bijection(Group(A, group, x), 1..series[x])]
           f == [a \in A |-> <<group[a], numbering[group[a]][a]>>]
<1>1. ASSUME NEW x \in D
      PROVE  /\ IsFiniteSet(Group(A, group, x)) /\ series[x] \in Nat
             /\ series[x] = Cardinality(Group(A, group, x))
  <2>1. Group(A, group, x) \subseteq A
    BY DEF Group
  <2>2. IsFiniteSet(Group(A, group, x)) /\ Cardinality(Group(A, group, x)) \in Nat
    BY <2>1, FS_Subset, FS_CardinalityType
  <2>3. QED
    BY <2>2
<1>2. ASSUME NEW x \in D
      PROVE  numbering[x] \in Bijection(Group(A, group, x), 1..series[x])
  <2>1. /\ IsFiniteSet(1..series[x])
        /\ Cardinality(1..series[x]) = Cardinality(Group(A, group, x))
    <3>1. series[x] \in Nat /\ series[x] = Cardinality(Group(A, group, x))
      BY <1>1
    <3>2. /\ IsFiniteSet(1..series[x])
          /\ Cardinality(1..series[x])
               = IF 1 > series[x] THEN 0 ELSE series[x] - 1 + 1
      BY <3>1, FS_Interval
    <3>3. QED
      BY <3>1, <3>2
  <2>2. ExistsBijection(Group(A, group, x), 1..series[x])
    BY <1>1, <2>1, FS_SameCardinalityBij
  <2>3. \E b : b \in Bijection(Group(A, group, x), 1..series[x])
    BY <2>2 DEF ExistsBijection
  <2>4. QED
    BY <2>3
<1> HIDE DEF numbering
<1>3. series \in [D -> Nat]
  BY <1>1
<1>4. \A p : p \in Parts(series) <=>
               \E x \in D : \E i \in 1..series[x] : p = <<x, i>>
  BY <1>3, PartsOf
<1>5. ASSUME NEW a \in A
      PROVE  /\ group[a] \in D /\ a \in Group(A, group, group[a])
             /\ numbering[group[a]][a] \in 1..series[group[a]]
             /\ f[a] = <<group[a], numbering[group[a]][a]>>
  <2>1. group[a] \in D /\ a \in Group(A, group, group[a])
    BY DEF Group
  <2>2. numbering[group[a]] \in [Group(A, group, group[a]) -> 1..series[group[a]]]
    BY <1>2, <2>1 DEF Bijection, Injection
  <2>3. QED
    BY <2>1, <2>2
<1>6. f \in [A -> Parts(series)]
  BY <1>4, <1>5
<1>7. ASSUME NEW a \in A, NEW b \in A, f[a] = f[b]
      PROVE  a = b
  <2>1. group[a] = group[b] /\ numbering[group[a]][a] = numbering[group[a]][b]
    BY <1>5, <1>7
  <2>2. a \in Group(A, group, group[a]) /\ b \in Group(A, group, group[a])
    BY <2>1 DEF Group
  <2>3. QED
    BY <1>2, <1>5, <2>1, <2>2 DEF Bijection, Injection, IsInjective
<1>8. ASSUME NEW p \in Parts(series)
      PROVE  \E a \in A : f[a] = p
  <2>1. PICK x \in D : \E i \in 1..series[x] : p = <<x, i>>
    BY <1>4
  <2>2. PICK i \in 1..series[x] : p = <<x, i>>
    BY <2>1
  <2>3. PICK a \in Group(A, group, x) : numbering[x][a] = i
    BY <1>2 DEF Bijection, Surjection
  <2>4. QED
    BY <2>2, <2>3 DEF Group
<1>9. f \in Bijection(A, Parts(series))
  BY <1>6, <1>7, <1>8 DEF Bijection, Injection, IsInjective, Surjection
<1>10. Cardinality(Parts(series)) = Cardinality(A)
  BY <1>9, FS_Bijection DEF ExistsBijection
<1>11. QED
  BY <1>3, <1>10 DEF Summed, Parts

\* A tally whose months add up to its total.
AddsUp(tally) ==
  /\ tally.total \in Nat
  /\ IsFiniteSet(DOMAIN tally.byMonth)
  /\ tally.byMonth \in [DOMAIN tally.byMonth -> Nat]
  /\ Summed(tally.byMonth) = tally.total

LEMMA CountsAddUp ==
  ASSUME NEW dates, DatesOK(dates), NEW range
  PROVE  AddsUp(Counts(dates, range))
<1> DEFINE matched == Within(dates, range)
           months == {MonthOf(dates[d]) : d \in matched}
           group == [d \in matched |-> MonthOf(dates[d])]
           series == [month \in months |->
                        Cardinality({d \in matched : MonthOf(dates[d]) = month})]
<1>1. IsFiniteSet(matched)
  BY WithinFinite
<1>2. group \in Surjection(matched, months)
  BY DEF Surjection
<1>3. IsFiniteSet(months) /\ group \in [matched -> months]
  BY <1>1, <1>2, FS_Surjection DEF Surjection
<1>4. \A month \in months :
        Group(matched, group, month) = {d \in matched : MonthOf(dates[d]) = month}
  BY DEF Group
<1>5. series = [month \in months |-> Cardinality(Group(matched, group, month))]
  BY <1>4
<1>6. Counts(dates, range) = [total |-> Cardinality(matched), byMonth |-> series]
  BY DEF Counts
<1>7. DOMAIN series = months
  OBVIOUS
<1> HIDE DEF matched, months, group, series
<1>8. series \in [months -> Nat] /\ Summed(series) = Cardinality(matched)
  BY <1>1, <1>3, <1>5, SumOfGroups
<1>9. Cardinality(matched) \in Nat
  BY <1>1, FS_CardinalityType
<1>10. QED
  BY <1>3, <1>6, <1>7, <1>8, <1>9 DEF AddsUp

-----------------------------------------------------------------------------
(* What the metrics count.                                                 *)

BeaconSteps == {"idle", "rejected", "dated", "answered", "failed"}

EventsOK ==
  /\ DOMAIN events \subseteq Beacons
  /\ IsFiniteSet(DOMAIN events)
  /\ \A b \in DOMAIN events : events[b] \in Instants
  /\ beacon \in [Beacons -> [step : BeaconSteps, date : Instants]]

\* All that a step can do to the events: they stay, with their dates.
EventsMove ==
  /\ DOMAIN events \subseteq DOMAIN events'
  /\ \A b \in DOMAIN events : events'[b] = events[b]

LEMMA InsertGrows ==
  ASSUME NEW b
  PROVE  /\ DOMAIN AfterInsert(b)
              = IF Recorded(b) THEN DOMAIN events ELSE DOMAIN events \cup {b}
         /\ \A d \in DOMAIN events : AfterInsert(b)[d] = events[d]
         /\ \A d \in DOMAIN AfterInsert(b) \ DOMAIN events :
              AfterInsert(b)[d] = beacon[b].date
BY DEF AfterInsert

LEMMA EventsInit == Init => EventsOK
<1>1. DOMAIN << >> = {}
  OBVIOUS
<1>2. QED
  BY <1>1, FS_EmptySet, Constants
     DEF Init, InitMetrics, EventsOK, BeaconSteps, Instants

\* What is inserted is the beacon's own document, dated when it was accepted.
LEMMA InsertKeepsEvents ==
  ASSUME EventsOK, NEW b \in Beacons, events' \in {events, AfterInsert(b)},
         beacon' \in [Beacons -> [step : BeaconSteps, date : Instants]]
  PROVE  EventsOK' /\ EventsMove
<1>1. beacon[b].date \in Instants
  BY DEF EventsOK
<1>2. CASE events' = events
  BY <1>2 DEF EventsOK, EventsMove
<1>3. CASE events' = AfterInsert(b)
  <2>1. /\ DOMAIN events \subseteq DOMAIN events'
        /\ DOMAIN events' \subseteq DOMAIN events \cup {b}
    BY <1>3, InsertGrows
  <2>2. IsFiniteSet(DOMAIN events')
    BY <2>1, FS_AddElement, FS_Subset DEF EventsOK
  <2>3. \A d \in DOMAIN events' : events'[d] \in Instants
    BY <1>1, <1>3, InsertGrows DEF EventsOK
  <2>4. EventsMove
    BY <1>3, <2>1, InsertGrows DEF EventsMove
  <2>5. QED
    BY <2>1, <2>2, <2>3, <2>4 DEF EventsOK
<1>4. QED
  BY <1>2, <1>3

LEMMA EventsNext ==
  ASSUME RegisterTypeOK, EventsOK, [Next]_vars
  PROVE  EventsOK' /\ EventsMove
<1>1. ASSUME NEW b \in Beacons, RejectToken(b) \/ Accept(b)
      PROVE  EventsOK' /\ EventsMove
  BY <1>1
     DEF RejectToken, Accept, MoveBeacon, EventsOK, EventsMove, BeaconSteps,
         RegisterTypeOK
<1>2. ASSUME NEW b \in Beacons, Record(b) \/ RecordFails(b)
      PROVE  EventsOK' /\ EventsMove
  <2>1. /\ beacon' \in [Beacons -> [step : BeaconSteps, date : Instants]]
        /\ events' \in {events, AfterInsert(b)}
    BY <1>2 DEF Record, RecordFails, MoveBeacon, EventsOK, BeaconSteps
  <2>2. QED
    BY <2>1, InsertKeepsEvents
<1>3. CASE UNCHANGED <<events, beacon>>
  BY <1>3 DEF EventsOK, EventsMove
<1>4. QED
  BY <1>1, <1>2, <1>3
     DEF Next, Metrics, AskSummary, Count, AnswerSummary, vars, metricsVars

LEMMA SourceDates ==
  ASSUME RegisterTypeOK, EventsOK, NEW source \in Sources
  PROVE  DatesOK(DatesOf(source))
<1>1. CASE source = "registrations"
  <2>1. DOMAIN DatesOf(source) = Stored
    BY <1>1 DEF DatesOf, Completed
  <2>2. \A ref \in Stored : DatesOf(source)[ref] = register[ref].submittedAt
    BY <1>1 DEF DatesOf, Completed
  <2>3. QED
    BY <2>1, <2>2, RegisterShape DEF DatesOK
<1>2. CASE source # "registrations"
  <2>1. DOMAIN DatesOf(source) = {b \in DOMAIN events : KindOf[b] = source}
    BY <1>2 DEF DatesOf
  <2>2. \A b \in DOMAIN DatesOf(source) : DatesOf(source)[b] = events[b]
    BY <1>2 DEF DatesOf
  <2>3. IsFiniteSet(DOMAIN DatesOf(source))
    BY <2>1, FS_Subset DEF EventsOK
  <2>4. QED
    BY <2>1, <2>2, <2>3 DEF DatesOK, EventsOK, Dates
<1>3. QED
  BY <1>1, <1>2

\* Whatever happens, a source only gains documents.
LEMMA SourceGrows ==
  ASSUME RegisterTypeOK, RegisterTypeOK', EventsOK, EventsOK', RegisterMoves,
         EventsMove, NEW source \in Sources, NEW range
  PROVE  Counts(DatesOf(source), range).total
           <= Counts(DatesOf(source)', range).total
<1>1. DatesOK(DatesOf(source)) /\ DatesOK(DatesOf(source)')
  <2>1. DatesOK(DatesOf(source))
    BY SourceDates
  <2>2. DatesOK(DatesOf(source))'
    BY SourceDates, PTL
  <2>3. QED
    BY <2>1, <2>2 DEF DatesOK, Dates
<1>2. /\ DOMAIN DatesOf(source) \subseteq DOMAIN DatesOf(source)'
      /\ \A d \in DOMAIN DatesOf(source) : DatesOf(source)'[d] = DatesOf(source)[d]
  <2>1. CASE source = "registrations"
    BY <2>1 DEF DatesOf, Completed, RegisterMoves
  <2>2. CASE source # "registrations"
    BY <2>2 DEF DatesOf, EventsMove
  <2>3. QED
    BY <2>1, <2>2
<1> HIDE DEF DatesOf
<1>3. QED
  BY <1>1, <1>2, CountsGrow

-----------------------------------------------------------------------------
(* Beacons are counted once.                                               *)

SameEvent(b, other) == KindOf[other] = KindOf[b] /\ TokenOf[other] = TokenOf[b]

\* CountedOnce and what its induction needs: no beacon gets as far as its
\* insert without a token.
BeaconInv ==
  /\ RegisterTypeOK /\ EventsOK
  /\ CountedOnce
  /\ TokenRequired =>
       \A b \in Beacons :
         beacon[b].step \in {"dated", "answered", "failed"} =>
           TokenOf[b] # Forged

LEMMA BeaconInit == Init => BeaconInv
<1>1. DOMAIN << >> = {}
  OBVIOUS
<1>2. QED
  BY <1>1, RegisterInit, EventsInit
     DEF Init, InitMetrics, BeaconInv, CountedOnce

LEMMA BeaconNext == BeaconInv /\ [Next]_vars => BeaconInv'
<1> SUFFICES ASSUME BeaconInv, [Next]_vars, TokenRequired
             PROVE  /\ CountedOnce'
                    /\ \A b \in Beacons :
                         beacon'[b].step \in {"dated", "answered", "failed"} =>
                           TokenOf[b] # Forged
  BY RegisterNext, EventsNext DEF BeaconInv, CountedOnce
<1>0. EventsOK /\ EventsOK' /\ EventsMove
  BY RegisterNext, EventsNext DEF BeaconInv
<1> USE <1>0 DEF BeaconInv, CountedOnce, EventsOK
<1>1. ASSUME NEW b \in Beacons, RejectToken(b) \/ Accept(b)
      PROVE  /\ CountedOnce'
             /\ \A c \in Beacons :
                  beacon'[c].step \in {"dated", "answered", "failed"} =>
                    TokenOf[c] # Forged
  BY <1>1 DEF RejectToken, Accept, MoveBeacon
<1>2. ASSUME NEW b \in Beacons, Record(b) \/ RecordFails(b)
      PROVE  /\ CountedOnce'
             /\ \A c \in Beacons :
                  beacon'[c].step \in {"dated", "answered", "failed"} =>
                    TokenOf[c] # Forged
  <2>1. /\ beacon[b].step = "dated" /\ TokenOf[b] # Forged
        /\ events' \in {events, AfterInsert(b)}
        /\ \A c \in Beacons \ {b} : beacon'[c].step = beacon[c].step
        /\ beacon'[b].step \in {"answered", "failed"}
        /\ beacon'[b].step = "answered" => events' = AfterInsert(b)
    BY <1>2 DEF Record, RecordFails, MoveBeacon
  <2>2. \/ DOMAIN events' = DOMAIN events
        \/ ~Recorded(b) /\ DOMAIN events' = DOMAIN events \cup {b}
    BY <2>1, InsertGrows
  <2>3. \A c, other \in DOMAIN events' : SameEvent(c, other) => c = other
    BY <2>2 DEF Recorded, SameEvent
  <2>4. \A c \in DOMAIN events' : TokenOf[c] # Forged
    BY <2>1, <2>2
  <2>5. beacon'[b].step = "answered" => \E c \in DOMAIN events' : SameEvent(b, c)
    <3>1. CASE Recorded(b)
      BY <1>0, <3>1 DEF Recorded, SameEvent, EventsMove
    <3>2. CASE ~Recorded(b)
      <4>1. b \in DOMAIN AfterInsert(b)
        BY <3>2, InsertGrows
      <4>2. QED
        BY <2>1, <4>1 DEF SameEvent
    <3>3. QED
      BY <3>1, <3>2
  <2>6. \A c \in Beacons \ {b} : beacon'[c].step = "answered" =>
          \E other \in DOMAIN events' : SameEvent(c, other)
    BY <2>1, <2>2 DEF SameEvent
  <2>7. CountedOnce'
    BY <2>3, <2>4, <2>5, <2>6 DEF SameEvent
  <2>8. QED
    BY <2>1, <2>7
<1>3. CASE UNCHANGED <<events, beacon>>
  BY <1>3
<1>4. QED
  BY <1>1, <1>2, <1>3
     DEF Next, Metrics, AskSummary, Count, AnswerSummary, vars, metricsVars

\* When tokens are required a session has at most one event of a kind, none
\* without a token, and one as soon as any of its beacons was answered with
\* success, for any number of replays, in any order and with any failures.
THEOREM BeaconsCountedOnce == Spec => []CountedOnce
<1>1. Spec => []BeaconInv
  BY BeaconInit, BeaconNext, PTL DEF Spec
<1>2. BeaconInv => CountedOnce
  BY DEF BeaconInv
<1>3. QED
  BY <1>1, <1>2, PTL


-----------------------------------------------------------------------------
(* A range cut between two days.                                           *)

LEMMA CutBetweenDays ==
  ASSUME NEW dates, DatesOK(dates), NEW to \in Instants, NEW from \in Instants,
         from \div DayLength = to \div DayLength + 1
  PROVE  Cardinality(Within(dates, [from |-> 0, to |-> MaxClock]))
           = Cardinality(Within(dates, [from |-> 0, to |-> to]))
               + Cardinality(Within(dates, [from |-> from, to |-> MaxClock]))
<1> DEFINE whole == Within(dates, [from |-> 0, to |-> MaxClock])
           first == Within(dates, [from |-> 0, to |-> to])
           second == Within(dates, [from |-> from, to |-> MaxClock])
<1>1. /\ to \in Nat /\ from \in Nat /\ to <= MaxClock
      /\ MaxClock \in Nat /\ 0 # NoBound /\ to # NoBound /\ from # NoBound
      /\ MaxClock # NoBound
  BY Constants DEF Instants, NoBound
<1>2. /\ StartOfDay(0) \in Nat /\ StartOfDay(0) <= 0
      /\ MaxClock <= EndOfDay(MaxClock) /\ EndOfDay(MaxClock) \in Nat
      /\ to <= EndOfDay(to) /\ EndOfDay(to) \in Nat
      /\ StartOfDay(from) = EndOfDay(to) + 1
  BY <1>1, DayBounds, DaysAdjoin
<1>3. ASSUME NEW d \in DOMAIN dates
      PROVE  /\ dates[d] \in Int
             /\ dates[d] # NoDate => dates[d] >= 0 /\ dates[d] <= MaxClock
  BY <1>3, Constants DEF DatesOK, Dates, Instants
<1>4. ASSUME NEW d \in DOMAIN dates
      PROVE  /\ d \in whole <=> dates[d] # NoDate
             /\ d \in first <=> dates[d] # NoDate /\ dates[d] <= EndOfDay(to)
             /\ d \in second <=> dates[d] # NoDate /\ dates[d] > EndOfDay(to)
  BY <1>1, <1>2, <1>3 DEF Within, InRange
<1>5. /\ whole \subseteq DOMAIN dates /\ first \subseteq DOMAIN dates
      /\ second \subseteq DOMAIN dates
      /\ IsFiniteSet(first) /\ IsFiniteSet(second)
      /\ Cardinality(first) \in Nat /\ Cardinality(second) \in Nat
  BY WithinFinite
<1>6. whole = first \cup second /\ first \cap second = {}
  <2> HIDE DEF whole, first, second
  <2>1. \A d \in DOMAIN dates : dates[d] <= EndOfDay(to) \/ dates[d] > EndOfDay(to)
    BY <1>2, <1>3
  <2>2. \A d \in DOMAIN dates : ~(dates[d] <= EndOfDay(to) /\ dates[d] > EndOfDay(to))
    BY <1>2, <1>3
  <2>3. QED
    BY <1>4, <1>5, <2>1, <2>2
<1>7. Cardinality(whole)
        = Cardinality(first) + Cardinality(second) - Cardinality(first \cap second)
  BY <1>5, <1>6, FS_Union
<1> HIDE DEF whole, first, second
<1>8. Cardinality(first \cap second) = 0
  BY <1>6, FS_EmptySet
<1>9. QED
  BY <1>5, <1>7, <1>8 DEF whole, first, second

\* Wherever a range is cut between two days, at whatever time of either, the
\* two parts count what the whole does, for any length of a day.
THEOREM RangesPartition == Spec => []RangesAddUp
<1>1. RegisterTypeOK /\ EventsOK => RangesAddUp
  BY SourceDates, CutBetweenDays DEF RangesAddUp
<1>2. Spec => [](RegisterTypeOK /\ EventsOK)
  BY RegisterInit, RegisterNext, EventsInit, EventsNext, PTL DEF Spec
<1>3. QED
  BY <1>1, <1>2, PTL

-----------------------------------------------------------------------------
(* A summary's counts are of its time.                                     *)

SummarySteps == {"idle", "asked", "answered"}

SummaryType ==
  summary \in [Summaries -> [step : SummarySteps,
                             range : [from : Int, to : Int],
                             counts : [Sources -> Tallies],
                             before : [Sources -> Tallies]]]

Now(s, source) == Counts(DatesOf(source), summary[s].range).total

\* Between question and answer: what a source held at first is no more than
\* what has been read of it, and that is no more than what it holds now.
Between(s, source) ==
  LET first == summary[s].before[source].total
      read == summary[s].counts[source]
  IN  /\ first \in Nat
      /\ first <= Now(s, source)
      /\ read # Uncounted =>
           /\ first <= read.total /\ read.total <= Now(s, source)
           /\ AddsUp(read)

SummaryOf(s) ==
  /\ summary[s].step = "idle" =>
       \A source \in Sources : summary[s].counts[source] = Uncounted
  /\ summary[s].step # "idle" =>
       summary[s].range \in Ranges /\ \A source \in Sources : Between(s, source)
  /\ summary[s].step = "answered" =>
       \A source \in Sources : summary[s].counts[source] # Uncounted

SummaryInv ==
  /\ RegisterTypeOK /\ EventsOK /\ SummaryType
  /\ faults \in 0..MaxFaults
  /\ \A s \in Summaries : SummaryOf(s)

LEMMA SummaryInit == Init => SummaryInv
<1> SUFFICES ASSUME Init
             PROVE  /\ SummaryType /\ faults \in 0..MaxFaults
                    /\ \A s \in Summaries : SummaryOf(s)
  BY RegisterInit, EventsInit DEF SummaryInv
<1>1. \A s \in Summaries : summary[s] = NoSummary
  BY DEF Init, InitMetrics
<1>2. NoSummary \in [step : SummarySteps, range : [from : Int, to : Int],
                     counts : [Sources -> Tallies], before : [Sources -> Tallies]]
  BY UncountedIsTally DEF NoSummary, SummarySteps, NoBound
<1>3. SummaryType
  BY <1>2 DEF Init, InitMetrics, SummaryType
<1>4. \A s \in Summaries : SummaryOf(s)
  BY <1>1 DEF SummaryOf, NoSummary
<1>5. QED
  BY <1>3, <1>4, MetricsAssumption DEF Init, InitMetrics

\* Whatever happens to the sources, what was between first and now stays so.
LEMMA BetweenStays ==
  ASSUME SummaryInv, [Next]_vars, NEW s \in Summaries, NEW source \in Sources,
         Between(s, source),
         summary'[s].range = summary[s].range,
         summary'[s].before[source] = summary[s].before[source],
         summary'[s].counts[source] = summary[s].counts[source]
  PROVE  Between(s, source)'
<1> DEFINE first == summary[s].before[source].total
           read == summary[s].counts[source]
<1>1. /\ RegisterTypeOK /\ RegisterTypeOK' /\ EventsOK /\ EventsOK'
      /\ RegisterMoves /\ EventsMove
  BY RegisterNext, EventsNext DEF SummaryInv
<1>2. Now(s, source) <= Now(s, source)'
  BY <1>1, SourceGrows DEF Now
<1>3. Now(s, source) \in Nat
  BY <1>1, SourceDates, CountsType DEF Now
<1>4. Now(s, source)' \in Nat
  <2>1. DatesOK(DatesOf(source))'
    BY <1>1, SourceDates, PTL
  <2>2. DatesOK(DatesOf(source)')
    BY <2>1 DEF DatesOK, Dates
  <2>3. QED
    BY <2>2, CountsType DEF Now
<1>5. read.total \in Int
  BY DEF SummaryInv, SummaryType, Tallies
<1>6. QED
  BY <1>2, <1>3, <1>4, <1>5 DEF Between

LEMMA SummaryStays ==
  ASSUME SummaryInv, [Next]_vars, NEW s \in Summaries, summary'[s] = summary[s]
  PROVE  SummaryOf(s)'
BY BetweenStays DEF SummaryInv, SummaryOf

LEMMA AskSummaryNext ==
  ASSUME SummaryInv, NEW s \in Summaries, AskSummary(s)
  PROVE  SummaryType' /\ SummaryOf(s)'
<1>1. PICK range \in Ranges :
        summary' = [summary EXCEPT ![s] =
          [@ EXCEPT !.step = "asked", !.range = range,
                    !.before = [source \in Sources |->
                                  Counts(DatesOf(source), range)]]]
  BY DEF AskSummary
<1> DEFINE first == [source \in Sources |-> Counts(DatesOf(source), range)]
<1>2. \A source \in Sources :
        /\ Counts(DatesOf(source), range) \in Tallies
        /\ Counts(DatesOf(source), range).total \in Nat
  BY SourceDates, CountsType DEF SummaryInv
<1>3. range \in [from : Int, to : Int]
  BY Constants
<1>4. /\ first \in [Sources -> Tallies]
      /\ \A source \in Sources : first[source] = Counts(DatesOf(source), range)
  BY <1>2
<1> DEFINE asked == [summary[s] EXCEPT !.step = "asked", !.range = range,
                                       !.before = first]
<1>5. /\ asked \in [step : SummarySteps, range : [from : Int, to : Int],
                    counts : [Sources -> Tallies], before : [Sources -> Tallies]]
      /\ asked.step = "asked" /\ asked.range = range /\ asked.before = first
      /\ asked.counts = summary[s].counts
  <2> HIDE DEF first
  <2>1. QED
    BY <1>3, <1>4 DEF SummaryInv, SummaryType, SummarySteps
<1>6. summary' = [summary EXCEPT ![s] = asked]
  BY <1>1
<1> HIDE DEF asked, first
<1>7. SummaryType' /\ summary'[s] = asked
  BY <1>5, <1>6 DEF SummaryInv, SummaryType
<1>8. UNCHANGED <<register, events>>
  BY DEF AskSummary
<1>9. \A source \in Sources : DatesOf(source)' = DatesOf(source)
  BY <1>8 DEF DatesOf, Completed, Stored, Visible, Deleted
<1>10. \A source \in Sources :
         /\ Now(s, source)' = Counts(DatesOf(source), range).total
         /\ summary'[s].before[source] = Counts(DatesOf(source), range)
         /\ summary'[s].counts[source] = Uncounted
  BY <1>4, <1>5, <1>7, <1>9 DEF Now, SummaryInv, SummaryOf, AskSummary
<1>11. \A source \in Sources : Between(s, source)'
  BY <1>2, <1>10 DEF Between
<1>12. QED
  BY <1>5, <1>7, <1>11 DEF SummaryOf

LEMMA CountNext ==
  ASSUME SummaryInv, [Next]_vars, NEW s \in Summaries, NEW counted \in Sources,
         Count(s, counted)
  PROVE  SummaryType' /\ SummaryOf(s)'
<1> DEFINE tally == Counts(DatesOf(counted), summary[s].range)
<1>1. /\ tally \in Tallies /\ tally.total \in Nat
      /\ tally.total = Now(s, counted) /\ AddsUp(tally)
  BY SourceDates, CountsType, CountsAddUp DEF SummaryInv, Now
<1>2. /\ summary[s].step = "asked"
      /\ summary' = [summary EXCEPT ![s].counts[counted] = tally]
  BY DEF Count
<1> HIDE DEF tally
<1>3. /\ SummaryType'
      /\ summary'[s].step = "asked"
      /\ summary'[s].range = summary[s].range
      /\ summary'[s].before = summary[s].before
      /\ summary'[s].counts[counted] = tally
      /\ \A source \in Sources \ {counted} :
           summary'[s].counts[source] = summary[s].counts[source]
  BY <1>1, <1>2 DEF SummaryInv, SummaryType
<1>4. \A source \in Sources : Between(s, source)
  BY <1>2 DEF SummaryInv, SummaryOf
<1>5. ASSUME NEW source \in Sources \ {counted}
      PROVE  Between(s, source)'
  BY <1>3, <1>4, BetweenStays
<1>6. Between(s, counted)'
  <2>1. UNCHANGED <<register, events>>
    BY DEF Count
  <2>2. Now(s, counted)' = Now(s, counted)
    BY <1>3, <2>1 DEF Now, DatesOf, Completed, Stored, Visible, Deleted
  <2>3. QED
    BY <1>1, <1>3, <1>4, <2>2 DEF Between
<1>7. QED
  BY <1>2, <1>3, <1>5, <1>6 DEF SummaryOf, SummaryInv

LEMMA AnswerSummaryNext ==
  ASSUME SummaryInv, [Next]_vars, NEW s \in Summaries, AnswerSummary(s)
  PROVE  SummaryType' /\ SummaryOf(s)'
<1>1. /\ SummaryType'
      /\ summary'[s].step = "answered"
      /\ summary'[s].range = summary[s].range
      /\ summary'[s].before = summary[s].before
      /\ summary'[s].counts = summary[s].counts
  BY DEF AnswerSummary, SummaryInv, SummaryType, SummarySteps
<1>2. /\ summary[s].step = "asked"
      /\ \A source \in Sources : summary[s].counts[source] # Uncounted
  BY DEF AnswerSummary
<1>3. \A source \in Sources : Between(s, source)'
  BY <1>1, <1>2, BetweenStays DEF SummaryInv, SummaryOf
<1>4. QED
  BY <1>1, <1>2, <1>3 DEF SummaryInv, SummaryOf

LEMMA SummaryNext == SummaryInv /\ [Next]_vars => SummaryInv'
<1> SUFFICES ASSUME SummaryInv, [Next]_vars
             PROVE  /\ SummaryType' /\ faults' \in 0..MaxFaults
                    /\ \A s \in Summaries : SummaryOf(s)'
  BY RegisterNext, EventsNext DEF SummaryInv
<1>1. ASSUME NEW s \in Summaries,
             SummaryType' /\ SummaryOf(s)',
             \A other \in Summaries \ {s} : summary'[other] = summary[other],
             faults' = faults
      PROVE  /\ SummaryType' /\ faults' \in 0..MaxFaults
             /\ \A other \in Summaries : SummaryOf(other)'
  BY <1>1, SummaryStays DEF SummaryInv
<1>2. ASSUME NEW s \in Summaries, AskSummary(s)
      PROVE  /\ SummaryType' /\ faults' \in 0..MaxFaults
             /\ \A other \in Summaries : SummaryOf(other)'
  <2>1. \A other \in Summaries \ {s} : summary'[other] = summary[other]
    BY <1>2 DEF AskSummary, SummaryInv, SummaryType
  <2>2. faults' = faults
    BY <1>2 DEF AskSummary
  <2>3. QED
    BY <1>1, <1>2, <2>1, <2>2, AskSummaryNext
<1>3. ASSUME NEW s \in Summaries, NEW source \in Sources, Count(s, source)
      PROVE  /\ SummaryType' /\ faults' \in 0..MaxFaults
             /\ \A other \in Summaries : SummaryOf(other)'
  <2>1. \A other \in Summaries \ {s} : summary'[other] = summary[other]
    BY <1>3 DEF Count, SummaryInv, SummaryType
  <2>2. faults' = faults
    BY <1>3 DEF Count
  <2>3. QED
    BY <1>1, <1>3, <2>1, <2>2, CountNext
<1>4. ASSUME NEW s \in Summaries, AnswerSummary(s)
      PROVE  /\ SummaryType' /\ faults' \in 0..MaxFaults
             /\ \A other \in Summaries : SummaryOf(other)'
  <2>1. \A other \in Summaries \ {s} : summary'[other] = summary[other]
    BY <1>4 DEF AnswerSummary, SummaryInv, SummaryType
  <2>2. faults' = faults
    BY <1>4 DEF AnswerSummary
  <2>3. QED
    BY <1>1, <1>4, <2>1, <2>2, AnswerSummaryNext
<1>5. ASSUME NEW b \in Beacons, RejectToken(b) \/ Accept(b) \/ Record(b) \/ RecordFails(b)
      PROVE  summary' = summary /\ faults' \in 0..MaxFaults
  BY <1>5, MetricsAssumption
     DEF RejectToken, Accept, Record, RecordFails, SummaryInv
<1>6. CASE summary' = summary /\ faults' \in 0..MaxFaults
  BY <1>6, SummaryStays DEF SummaryInv, SummaryType
<1>7. CASE UNCHANGED metricsVars
  BY <1>6, <1>7 DEF metricsVars, SummaryInv
<1>8. QED
  BY <1>2, <1>3, <1>4, <1>5, <1>6, <1>7 DEF Next, Metrics, vars

\* More finishing journeys mean fewer drop-outs, more started ones mean more.
LEMMA DropOutsBounds ==
  ASSUME NEW figures \in [Sources -> Nat], NEW other \in [Sources -> Nat],
         figures["starts"] <= other["starts"],
         other["registrations"] <= figures["registrations"],
         other["notEligible"] <= figures["notEligible"]
  PROVE  DropOuts(figures) <= DropOuts(other)
BY DEF DropOuts, Finished, Sources, Kinds

LEMMA BetweenMeansOfItsTime == SummaryInv => SummaryOfItsTime
<1> SUFFICES ASSUME SummaryInv, NEW s \in Summaries, summary[s].step = "answered"
             PROVE  LET first == Overall(summary[s].before)
                        read == Overall(summary[s].counts)
                        last == [source \in Sources |->
                                   Counts(DatesOf(source), summary[s].range).total]
                    IN  /\ \A source \in Sources :
                             read[source] \in first[source]..last[source]
                        /\ DropOuts(read)
                             >= DropOuts([last EXCEPT !["starts"] = first["starts"]])
                        /\ DropOuts(read)
                             <= DropOuts([first EXCEPT !["starts"] = last["starts"]])
  BY DEF SummaryOfItsTime
<1> DEFINE first == Overall(summary[s].before)
           read == Overall(summary[s].counts)
           last == [source \in Sources |->
                      Counts(DatesOf(source), summary[s].range).total]
           least == [last EXCEPT !["starts"] = first["starts"]]
           most == [first EXCEPT !["starts"] = last["starts"]]
<1>1. ASSUME NEW source \in Sources
      PROVE  /\ first[source] \in Nat /\ read[source] \in Nat /\ last[source] \in Nat
             /\ first[source] <= read[source] /\ read[source] <= last[source]
  <2>1. Between(s, source) /\ summary[s].counts[source] # Uncounted
    BY DEF SummaryInv, SummaryOf
  <2>2. Now(s, source) \in Nat
    BY SourceDates, CountsType DEF SummaryInv, Now
  <2>3. summary[s].counts[source].total \in Int
    BY DEF SummaryInv, SummaryType, Tallies
  <2>4. QED
    BY <2>1, <2>2, <2>3 DEF Between, Overall, Now
<1>2. /\ first \in [Sources -> Nat] /\ read \in [Sources -> Nat]
      /\ last \in [Sources -> Nat]
  BY <1>1 DEF Overall
<1> HIDE DEF first, read, last
<1>3. "starts" \in Sources /\ "notEligible" \in Sources /\ "registrations" \in Sources
  BY DEF Sources, Kinds
<1>4. /\ least \in [Sources -> Nat] /\ most \in [Sources -> Nat]
      /\ least["starts"] = first["starts"] /\ most["starts"] = last["starts"]
      /\ \A source \in Sources \ {"starts"} :
           least[source] = last[source] /\ most[source] = first[source]
  BY <1>1, <1>2, <1>3
<1>5. DropOuts(least) \in Nat /\ DropOuts(read) \in Nat /\ DropOuts(most) \in Nat
  BY <1>2, <1>3, <1>4 DEF DropOuts, Finished
<1> HIDE DEF least, most
<1>6. DropOuts(least) <= DropOuts(read) /\ DropOuts(read) <= DropOuts(most)
  BY <1>1, <1>2, <1>3, <1>4, DropOutsBounds
<1>7. \A source \in Sources : read[source] \in first[source]..last[source]
  BY <1>1
<1>8. QED
  BY <1>5, <1>6, <1>7 DEF first, read, last, least, most

\* The three counts of a summary may be of three moments, but each lies between
\* what its range held at the question and at the answer, whatever is stored,
\* deleted and recorded meanwhile, and the drop-outs lie between the extremes.
THEOREM SummariesOfTheirTime == Spec => []SummaryOfItsTime
<1>1. Spec => []SummaryInv
  BY SummaryInit, SummaryNext, PTL DEF Spec
<1>2. QED
  BY <1>1, BetweenMeansOfItsTime, PTL

-----------------------------------------------------------------------------
(* A summary's rows.                                                       *)

LEMMA SummedParts == ASSUME NEW series PROVE Summed(series) = Cardinality(Parts(series))
BY DEF Summed, Parts

LEMMA MonthsOf ==
  ASSUME NEW counts
  PROVE  /\ NoMonth \notin Months(counts)
         /\ \A source \in Sources :
              \A month \in DOMAIN counts[source].byMonth :
                month # NoMonth => month \in Months(counts)
<1>1. NoMonth \notin Months(counts)
  BY DEF Months
<1>2. ASSUME NEW source \in Sources, NEW month \in DOMAIN counts[source].byMonth,
             month # NoMonth
      PROVE  month \in Months(counts)
  BY <1>2 DEF Months
<1>3. QED
  BY <1>1, <1>2

\* The months of all three sources, with a zero where one has nothing, hold
\* what is counted of each of them but for what has no month.
LEMMA MonthsSum ==
  ASSUME NEW counts, NEW source \in Sources, AddsUp(counts[source])
  PROVE  LET column == Column(Monthly(counts), source)
         IN  /\ column \in [Months(counts) -> Nat]
             /\ IsFiniteSet(Parts(column))
             /\ Cardinality(Parts(column))
                  = counts[source].total - CountFor(counts[source], NoMonth)
<1> DEFINE column == Column(Monthly(counts), source)
           series == counts[source].byMonth
           D == DOMAIN series
           dated == [month \in D \ {NoMonth} |-> series[month]]
           total == counts[source].total
<1>1. /\ series \in [D -> Nat] /\ IsFiniteSet(D) /\ total \in Nat
      /\ Summed(series) = total
  BY DEF AddsUp
<1>2. /\ dated \in [D \ {NoMonth} -> Nat] /\ IsFiniteSet(D \ {NoMonth})
  BY <1>1, FS_RemoveElement
<1>3. D \ {NoMonth} \subseteq Months(counts)
  BY MonthsOf
<1>4. column = [month \in Months(counts) |-> CountFor(counts[source], month)]
  BY DEF Column, Monthly
<1>5. /\ column \in [Months(counts) -> Nat]
      /\ \A month \in Months(counts) : month # NoMonth
      /\ \A month \in Months(counts) :
           column[month] = IF month \in D THEN dated[month] ELSE 0
  <2>1. \A month \in Months(counts) : month # NoMonth
    BY MonthsOf
  <2>2. \A month \in Months(counts) :
          column[month] = IF month \in D THEN series[month] ELSE 0
    BY <1>4 DEF CountFor
  <2>3. \A month \in Months(counts) : column[month] \in Nat
    BY <1>1, <2>2
  <2>4. QED
    BY <1>4, <2>1, <2>2, <2>3
<1>6. Parts(column) = Parts(dated)
  <2> HIDE DEF column, dated, series, D
  <2>1. \A p : p \in Parts(column) <=>
          \E x \in Months(counts) : \E i \in 1..column[x] : p = <<x, i>>
    BY <1>5, PartsOf
  <2>2. \A p : p \in Parts(dated) <=>
          \E x \in D \ {NoMonth} : \E i \in 1..dated[x] : p = <<x, i>>
    BY <1>2, PartsOf
  <2>3. 1..0 = {}
    OBVIOUS
  <2>4. \A x \in Months(counts) :
          1..column[x] = IF x \in D THEN 1..dated[x] ELSE {}
    BY <1>5, <2>3
  <2>5. \A p : p \in Parts(column) <=> p \in Parts(dated)
    BY <1>3, <1>5, <2>1, <2>2, <2>4
  <2>6. QED
    BY <2>5
<1>7. IsFiniteSet(Parts(dated)) /\ Summed(dated) \in Nat
  BY <1>2, PartsFinite
<1>8. Summed(dated) = total - CountFor(counts[source], NoMonth)
  <2>1. CASE NoMonth \in D
    <3>1. Summed(series) = series[NoMonth] + Summed(dated)
      BY <1>1, <2>1, SumOfOneMore
    <3>2. CountFor(counts[source], NoMonth) = series[NoMonth]
      BY <2>1 DEF CountFor
    <3>3. series[NoMonth] \in Nat
      BY <1>1, <2>1
    <3> HIDE DEF dated, series, D, total
    <3>4. QED
      BY <1>1, <1>7, <3>1, <3>2, <3>3
  <2>2. CASE NoMonth \notin D
    <3>1. D \ {NoMonth} = D
      BY <2>2
    <3>2. dated = series
      BY <1>1, <3>1
    <3>3. CountFor(counts[source], NoMonth) = 0
      BY <2>2 DEF CountFor
    <3> HIDE DEF dated, series, D, total
    <3>4. QED
      BY <1>1, <3>2, <3>3
  <2>3. QED
    BY <2>1, <2>2
<1>9. QED
  BY <1>5, <1>6, <1>7, <1>8, SummedParts

\* A year's row holds what its months' rows do.
LEMMA YearsSum ==
  ASSUME NEW counts, NEW source \in Sources,
         Column(Monthly(counts), source) \in [Months(counts) -> Nat],
         IsFiniteSet(Parts(Column(Monthly(counts), source)))
  PROVE  Summed(Column(Yearly(counts), source))
           = Cardinality(Parts(Column(Monthly(counts), source)))
<1> DEFINE column == Column(Monthly(counts), source)
           A == Parts(column)
           years == {YearOf(month) : month \in Months(counts)}
           yearly == Column(Yearly(counts), source)
           monthsOf(year) == {month \in Months(counts) : YearOf(month) = year}
           part(year) == [month \in monthsOf(year) |-> column[month]]
           group == [p \in A |-> YearOf(p[1])]
<1>1. DOMAIN Monthly(counts) = Months(counts)
  BY DEF Monthly
<1>2. yearly = [year \in years |-> Summed(part(year))]
  <2>1. \A month \in Months(counts) : column[month] = Monthly(counts)[month][source]
    BY <1>1 DEF Column
  <2>2. Yearly(counts) =
          [year \in years |-> [src \in Sources |->
             Summed([month \in monthsOf(year) |-> Monthly(counts)[month][src]])]]
    BY <1>1 DEF Yearly
  <2> HIDE DEF column
  <2>3. \A year \in years :
          Yearly(counts)[year][source] = Summed(part(year))
    <3>1. \A year \in years :
            [month \in monthsOf(year) |-> Monthly(counts)[month][source]] = part(year)
      BY <2>1
    <3>2. \A year \in years :
            Yearly(counts)[year][source]
              = Summed([month \in monthsOf(year) |-> Monthly(counts)[month][source]])
      BY <2>2
    <3>3. QED
      BY <3>1, <3>2
  <2>4. DOMAIN Yearly(counts) = years
    BY <2>2
  <2>5. QED
    BY <2>3, <2>4 DEF Column
<1>3. \A p : p \in A <=>
        \E x \in Months(counts) : \E i \in 1..column[x] : p = <<x, i>>
  BY PartsOf
<1>4. group \in [A -> years]
  BY <1>3
<1>5. ASSUME NEW year \in years
      PROVE  Parts(part(year)) = Group(A, group, year)
  <2>1. part(year) \in [monthsOf(year) -> Nat]
    OBVIOUS
  <2>2. \A p : p \in Parts(part(year)) <=>
          \E x \in monthsOf(year) : \E i \in 1..part(year)[x] : p = <<x, i>>
    BY <2>1, PartsOf
  <2>3. \A p : p \in Group(A, group, year) <=> p \in A /\ YearOf(p[1]) = year
    BY DEF Group
  <2>4. \A x \in monthsOf(year) :
          x \in Months(counts) /\ YearOf(x) = year /\ part(year)[x] = column[x]
    OBVIOUS
  <2>5. \A x \in Months(counts) : YearOf(x) = year => x \in monthsOf(year)
    OBVIOUS
  <2>6. \A p : p \in Parts(part(year)) <=> p \in Group(A, group, year)
    <3> HIDE DEF column, A, monthsOf, part
    <3>1. ASSUME NEW p \in Parts(part(year))
          PROVE  p \in Group(A, group, year)
      <4>1. PICK x \in monthsOf(year) : \E i \in 1..part(year)[x] : p = <<x, i>>
        BY <2>2
      <4>2. p \in A /\ p[1] = x
        BY <1>3, <2>4, <4>1
      <4>3. QED
        BY <2>3, <2>4, <4>2
    <3>2. ASSUME NEW p \in Group(A, group, year)
          PROVE  p \in Parts(part(year))
      <4>1. PICK x \in Months(counts) : \E i \in 1..column[x] : p = <<x, i>>
        BY <1>3, <2>3
      <4>2. x \in monthsOf(year)
        BY <2>3, <2>5, <4>1
      <4>3. QED
        BY <2>2, <2>4, <4>1, <4>2
    <3>3. QED
      BY <3>1, <3>2
  <2>7. QED
    BY <2>6
<1>6. yearly = [year \in years |-> Cardinality(Group(A, group, year))]
  BY <1>2, <1>5, SummedParts
<1> HIDE DEF column, A, years, yearly, group
<1>7. Summed(yearly) = Cardinality(A)
  BY <1>4, <1>6, SumOfGroups DEF A, column
<1>8. QED
  BY <1>7 DEF A, column, yearly

\* Every event with a date is in exactly one row of the months and in one of the
\* years, for any lengths of a month and a year and any number of either.
THEOREM RowsHoldAll == Spec => []RowsAddUp
<1>1. ASSUME SummaryInv, NEW s \in Summaries, summary[s].step = "answered",
             NEW source \in Sources
      PROVE  LET counts == summary[s].counts
                 dated == counts[source].total - CountFor(counts[source], NoMonth)
             IN  /\ Summed(Column(Monthly(counts), source)) = dated
                 /\ Summed(Column(Yearly(counts), source)) = dated
  <2>1. AddsUp(summary[s].counts[source])
    BY <1>1 DEF SummaryInv, SummaryOf, Between
  <2>2. QED
    BY <2>1, MonthsSum, YearsSum, SummedParts
<1>2. SummaryInv => RowsAddUp
  BY <1>1 DEF RowsAddUp
<1>3. Spec => []SummaryInv
  BY SummaryInit, SummaryNext, PTL DEF Spec
<1>4. QED
  BY <1>2, <1>3, PTL

=============================================================================
