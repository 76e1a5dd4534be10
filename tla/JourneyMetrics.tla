---------------------------- MODULE JourneyMetrics ----------------------------
(***************************************************************************)
(* The journey metrics: the public beacons that record a journey's start   *)
(* or its end on the "not eligible" page, and GET /metrics/journeys, which *)
(* counts both and the registrations and sums them up.                     *)
(***************************************************************************)
EXTENDS Register

CONSTANTS
  Beacons,         \* beacon requests, replays of one another included
  KindOf,          \* which event each of them records
  TokenOf,         \* the session whose token it carries, or Forged
  Forged,          \* no token, or one that the frontend has not signed
  TokenRequired,   \* whether journeyToken.secret is set
  Summaries,       \* GET /metrics/journeys requests
  Ranges,          \* the ranges they ask for, from the `from` day to the `to` day
  DayLength,       \* instants in a day
  MonthLength,     \* instants in a month
  YearLength,      \* months in a year
  MaxFaults        \* bound: failed inserts

Kinds == {"starts", "notEligible"}

NoBound == -1   \* no `from`, or no `to`

ASSUME MetricsAssumption ==
  /\ KindOf \in [Beacons -> Kinds]
  /\ TokenRequired \in BOOLEAN
  /\ Ranges \subseteq [from : Instants \cup {NoBound}, to : Instants \cup {NoBound}]
  /\ {DayLength, MonthLength, YearLength} \subseteq Nat \ {0}
  /\ MonthLength % DayLength = 0
  /\ MaxFaults \in Nat

VARIABLES
  events,    \* each recorded event, by the beacon that recorded it: its date
  beacon,    \* each beacon: where it is, and the date it takes
  summary,   \* each summary: the range, and the counts read so far
  faults

Sources == Kinds \cup {"registrations"}

Uncounted == [total |-> -1, byMonth |-> <<>>]

\* `before` is history: the counts of the range when the officer asked.
NoSummary == [step |-> "idle", range |-> [from |-> NoBound, to |-> NoBound],
              counts |-> [s \in Sources |-> Uncounted],
              before |-> [s \in Sources |-> Uncounted]]

InitMetrics ==
  /\ events = << >>
  /\ beacon = [b \in Beacons |-> [step |-> "idle", date |-> 0]]
  /\ summary = [s \in Summaries |-> NoSummary]
  /\ faults = 0

-----------------------------------------------------------------------------
(* Beacons.                                                                *)

MoveBeacon(b, from, to) ==
  /\ beacon[b].step = from
  /\ beacon' = [beacon EXCEPT ![b].step = to]

\* 401: the token's signature does not verify.
RejectToken(b) ==
  /\ TokenRequired /\ TokenOf[b] = Forged
  /\ MoveBeacon(b, "idle", "rejected")
  /\ UNCHANGED <<clock, register, events, summary, faults>>

\* The document is dated before the insert is sent.
Accept(b) ==
  /\ TokenRequired => TokenOf[b] # Forged
  /\ beacon[b].step = "idle"
  /\ beacon' = [beacon EXCEPT ![b] = [step |-> "dated", date |-> clock]]
  /\ UNCHANGED <<clock, register, events, summary, faults>>

\* Mutant: a replay is only known while its first event is of the same instant.
RecordedAtOnce(b) ==
  /\ TokenRequired
  /\ \E other \in DOMAIN events : /\ KindOf[other] = KindOf[b]
                                  /\ TokenOf[other] = TokenOf[b]
                                  /\ events[other] = beacon[b].date

\* The unique index on the nonce, which is only stored when tokens are required.
Recorded(b) ==
  /\ TokenRequired
  /\ \E other \in DOMAIN events : /\ KindOf[other] = KindOf[b]
                                  /\ TokenOf[other] = TokenOf[b]

\* A duplicate is a success that records nothing.
AfterInsert(b) ==
  IF Recorded(b) THEN events
  ELSE [d \in DOMAIN events \cup {b} |->
          IF d \in DOMAIN events THEN events[d] ELSE beacon[b].date]

\* 204
Record(b) ==
  /\ MoveBeacon(b, "dated", "answered")
  /\ events' = AfterInsert(b)
  /\ UNCHANGED <<clock, register, summary, faults>>

\* 500, whether or not the insert was applied.
RecordFails(b) ==
  /\ faults < MaxFaults /\ faults' = faults + 1
  /\ MoveBeacon(b, "dated", "failed")
  /\ events' \in {events, AfterInsert(b)}
  /\ UNCHANGED <<clock, register, summary>>

-----------------------------------------------------------------------------
(* Counts: a total and a series by month of the dates within two days.     *)

StartOfDay(t) == t - (t % DayLength)

\* Mutant: a range ends as its last day begins.
EndAtMidnight(t) == t - (t % DayLength)

EndOfDay(t) == StartOfDay(t) + DayLength - 1

\* A missing date matches no bound.
InRange(t, range) ==
  /\ range.from # NoBound => t # NoDate /\ t >= StartOfDay(range.from)
  /\ range.to # NoBound => t # NoDate /\ t <= EndOfDay(range.to)

NoMonth == -1   \* the group of the documents without a date

MonthOf(t) == IF t = NoDate THEN NoMonth ELSE t \div MonthLength

YearOf(month) == month \div YearLength

Within(dates, range) == {d \in DOMAIN dates : InRange(dates[d], range)}

Counts(dates, range) ==
  LET matched == Within(dates, range)
  IN  [total |-> Cardinality(matched),
       byMonth |-> [month \in {MonthOf(dates[d]) : d \in matched} |->
                      Cardinality({d \in matched : MonthOf(dates[d]) = month})]]

\* Mutant: a registration no longer counts once it is deleted.
Remaining == Visible

\* "A registration deleted later was still completed."
Completed == Stored

\* The dates of what a source holds.
DatesOf(source) ==
  IF source = "registrations"
    THEN [ref \in Completed |-> register[ref].submittedAt]
    ELSE [b \in {b \in DOMAIN events : KindOf[b] = source} |-> events[b]]

-----------------------------------------------------------------------------
(* GET /metrics/journeys                                                   *)

AskSummary(s) ==
  /\ summary[s].step = "idle"
  /\ \E range \in Ranges :
       summary' = [summary EXCEPT ![s] =
         [@ EXCEPT !.step = "asked", !.range = range,
                   !.before = [source \in Sources |->
                                 Counts(DatesOf(source), range)]]]
  /\ UNCHANGED <<clock, register, events, beacon, faults>>

\* The three counts are sent together and answered in any order.
Count(s, source) ==
  /\ summary[s].step = "asked" /\ summary[s].counts[source] = Uncounted
  /\ summary' = [summary EXCEPT ![s].counts[source] =
                    Counts(DatesOf(source), summary[s].range)]
  /\ UNCHANGED <<clock, register, events, beacon, faults>>

AnswerSummary(s) ==
  /\ summary[s].step = "asked"
  /\ \A source \in Sources : summary[s].counts[source] # Uncounted
  /\ summary' = [summary EXCEPT ![s].step = "answered"]
  /\ UNCHANGED <<clock, register, events, beacon, faults>>

Metrics ==
  \/ \E b \in Beacons : \/ RejectToken(b) \/ Accept(b)
                        \/ Record(b) \/ RecordFails(b)
  \/ \E s \in Summaries : \/ AskSummary(s) \/ AnswerSummary(s)
                          \/ \E source \in Sources : Count(s, source)

-----------------------------------------------------------------------------
(* What the answer says: the three counts, overall, by month and by year.  *)

\* Mutant: only months with a start have a row.
MonthsWithStarts(counts) == DOMAIN counts["starts"].byMonth \ {NoMonth}

Months(counts) == (UNION {DOMAIN counts[s].byMonth : s \in Sources}) \ {NoMonth}

CountFor(series, month) ==
  IF month \in DOMAIN series.byMonth THEN series.byMonth[month] ELSE 0

Monthly(counts) ==
  [month \in Months(counts) |->
     [source \in Sources |-> CountFor(counts[source], month)]]

\* The sum of a series, as the number of all that it counts: a fold would say
\* the same to TLC and nothing to the prover.
Summed(series) ==
  Cardinality(UNION {{x} \X (1..series[x]) : x \in DOMAIN series})

\* A row of `rows` for each month or year: what it says of a source.
Column(rows, source) == [row \in DOMAIN rows |-> rows[row][source]]

Yearly(counts) ==
  LET months == Monthly(counts)
      monthsOf(year) == {month \in DOMAIN months : YearOf(month) = year}
  IN  [year \in {YearOf(month) : month \in DOMAIN months} |->
         [source \in Sources |->
            Summed([month \in monthsOf(year) |-> months[month][source]])]]

Overall(counts) == [source \in Sources |-> counts[source].total]

Finished(figures) == figures["registrations"] + figures["notEligible"]

DropOuts(figures) ==
  IF figures["starts"] > Finished(figures)
    THEN figures["starts"] - Finished(figures) ELSE 0

-----------------------------------------------------------------------------
(* Properties.                                                             *)

MetricsTypeOK ==
  /\ DOMAIN events \subseteq Beacons
  /\ \A b \in DOMAIN events : events[b] \in Instants
  /\ beacon \in [Beacons -> [step : {"idle", "rejected", "dated", "answered", "failed"},
                             date : Instants]]
  /\ \A s \in Summaries :
       /\ summary[s].step \in {"idle", "asked", "answered"}
       /\ summary[s].step # "idle" => summary[s].range \in Ranges
       /\ summary[s].step = "answered" => Uncounted \notin Range(summary[s].counts)
  /\ faults \in 0..MaxFaults

\* README: "a missing or forged token is a 401, and a repeated one is stored
\* once".  When tokens are required, a session has at most one event of a kind,
\* none without a token, and one if any of its beacons was answered with a 204,
\* although beacons are replayed, answered in any order and may fail after they
\* were applied.
CountedOnce ==
  TokenRequired =>
    /\ \A b, other \in DOMAIN events :
         KindOf[b] = KindOf[other] /\ TokenOf[b] = TokenOf[other] => b = other
    /\ \A b \in DOMAIN events : TokenOf[b] # Forged
    /\ \A b \in Beacons : beacon[b].step = "answered" =>
         \E recorded \in DOMAIN events : /\ KindOf[recorded] = KindOf[b]
                                        /\ TokenOf[recorded] = TokenOf[b]

\* README: "optional inclusive ?from= and ?to= ISO dates".  Wherever an officer
\* cuts a period between two days, at whatever time of either, both parts
\* together count what the whole does: no event of the last day is lost and
\* none is counted twice.
RangesAddUp ==
  \A source \in Sources :
    LET dates == DatesOf(source)
        counted(first, last) ==
          Cardinality(Within(dates, [from |-> first, to |-> last]))
    IN  \A to, from \in Instants :
          from \div DayLength = to \div DayLength + 1 =>
            counted(0, MaxClock) = counted(0, to) + counted(from, MaxClock)

\* Every event with a date is in exactly one row of the months and of the years,
\* whichever of the three series its month appears in.
RowsAddUp ==
  \A s \in Summaries : summary[s].step = "answered" =>
    LET counts == summary[s].counts
        monthly == Monthly(counts)
        yearly == Yearly(counts)
    IN  \A source \in Sources :
          LET dated == counts[source].total - CountFor(counts[source], NoMonth)
          IN  /\ Summed(Column(monthly, source)) = dated
              /\ Summed(Column(yearly, source)) = dated

\* README: "drop-outs are starts minus finished", of counts "including any
\* deleted since".  The three counts are of three moments between question and
\* answer: each lies between what its range held at
\* either, a deletion takes nothing away, and so the drop-outs lie between
\* those moments' extremes.
SummaryOfItsTime ==
  \A s \in Summaries : summary[s].step = "answered" =>
    LET first == Overall(summary[s].before)
        read == Overall(summary[s].counts)
        last == [source \in Sources |->
                   Counts(DatesOf(source), summary[s].range).total]
    IN  /\ \A source \in Sources : read[source] \in first[source]..last[source]
        /\ DropOuts(read) >= DropOuts([last EXCEPT !["starts"] = first["starts"]])
        /\ DropOuts(read) <= DropOuts([first EXCEPT !["starts"] = last["starts"]])

=============================================================================
