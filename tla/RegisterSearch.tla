---------------------------- MODULE RegisterSearch ----------------------------
(***************************************************************************)
(* GET /search and GET /export: a case officer who goes through the pages  *)
(* of a search, and one who downloads a file, while the register changes.  *)
(***************************************************************************)
EXTENDS Register

CONSTANTS
  Walks,      \* officers who page through a search
  Exports,    \* officers who export
  PageSize,   \* pageSize
  MaxRows,    \* export.maxRows
  Malformed   \* a reference that is not well formed

ASSUME SearchAssumption ==
  /\ Malformed \notin Criteria \cup References
  /\ Criteria \cap References = {}
  /\ PageSize \in Nat \ {0}
  /\ MaxRows \in Nat \ {0}

VARIABLES
  walk,     \* each walk: its page, what has been read of it, what was shown
  export    \* each export: what was asked, and the file or the refusal

Unread == -1
Queries == Criteria \cup References \cup {Malformed}

\* `there` and `gone` are the history the properties need: what matched, and
\* what had been deleted, when the officer asked.
NoWalk == [step |-> "idle", criterion |-> Malformed, page |-> 1,
           rows |-> <<Unread>>, total |-> Unread, seen |-> {},
           there |-> {}, gone |-> {}]

NoExport == [step |-> "idle", query |-> Malformed, rows |-> {},
             there |-> {}, gone |-> {}]

SearchTypeOK ==
  /\ \A w \in Walks :
       /\ walk[w].step \in {"idle", "asked", "done"}
       /\ walk[w].criterion \in Criteria \cup {Malformed}
       /\ walk[w].page \in 1..Cardinality(References) + 1
       /\ walk[w].rows = <<Unread>> \/ Len(walk[w].rows) <= PageSize
       /\ walk[w].total \in 0..Cardinality(References) \cup {Unread}
       /\ walk[w].seen \cup walk[w].there \cup walk[w].gone \subseteq References
  /\ \A x \in Exports :
       /\ export[x].step \in {"idle", "asked", "file", "refused", "invalid"}
       /\ export[x].query \in Queries
       /\ export[x].rows \cup export[x].there \cup export[x].gone \subseteq References
       /\ Cardinality(export[x].rows) <= MaxRows

InitSearch ==
  /\ walk = [w \in Walks |-> NoWalk]
  /\ export = [x \in Exports |-> NoExport]

-----------------------------------------------------------------------------
(* /search                                                                 *)

AskPage(w) ==
  /\ walk[w].step = "idle"
  /\ \E c \in Criteria :
       walk' = [walk EXCEPT ![w] = [@ EXCEPT !.step = "asked",
                                             !.criterion = c,
                                             !.there = Matches(c),
                                             !.gone = Deleted]]
  /\ UNCHANGED <<clock, register, export>>

\* Mutant: ties of submittedAt are left to the database.
NewestFirst == Newer

\* searchSort: newest first, ties broken by reference.
SearchSort ==
  Newer \cup {p \in References \X References :
                /\ register[p[1]].submittedAt = register[p[2]].submittedAt
                /\ p[1] < p[2]}

Skipped(page) == (page - 1) * PageSize

\* The rows and the total of a page are two reads, sent together.
ReadRows(w) ==
  /\ walk[w].step = "asked" /\ walk[w].rows = <<Unread>>
  /\ \E rows \in InOrder(Matches(walk[w].criterion), SearchSort) :
       walk' = [walk EXCEPT ![w].rows = Slice(rows, Skipped(walk[w].page), PageSize)]
  /\ UNCHANGED <<clock, register, export>>

\* Mutant: the total counts deleted registrations too.
CountedWithDeleted(c) == Stored \cap Matching[c]

Counted(c) == Matches(c)

ReadTotal(w) ==
  /\ walk[w].step = "asked" /\ walk[w].total = Unread
  /\ walk' = [walk EXCEPT ![w].total = Cardinality(Counted(walk[w].criterion))]
  /\ UNCHANGED <<clock, register, export>>

\* The officer goes on until a page is not full.
AnswerPage(w) ==
  /\ walk[w].step = "asked"
  /\ walk[w].rows # <<Unread>> /\ walk[w].total # Unread
  /\ LET shown == [walk[w] EXCEPT !.seen = @ \cup ToSet(walk[w].rows)]
     IN  walk' = [walk EXCEPT ![w] =
           IF Len(shown.rows) < PageSize
             THEN [shown EXCEPT !.step = "done"]
             ELSE [shown EXCEPT !.page = @ + 1, !.rows = <<Unread>>,
                                !.total = Unread]]
  /\ UNCHANGED <<clock, register, export>>

-----------------------------------------------------------------------------
(* /export                                                                 *)

\* What a query asks for: a criterion's matches, or one registration.
Wanted(q) ==
  IF q \in Criteria THEN Matching[q] ELSE {q} \cap References

AskExport(x) ==
  /\ export[x].step = "idle"
  /\ \E q \in Queries :
       export' = [export EXCEPT ![x] = [@ EXCEPT !.step = "asked",
                                                 !.query = q,
                                                 !.there = Visible \cap Wanted(q),
                                                 !.gone = Deleted]]
  /\ UNCHANGED <<clock, register, walk>>

\* A reference that is not well formed reads nothing.
RejectReference(x) ==
  /\ export[x].step = "asked" /\ export[x].query = Malformed
  /\ export' = [export EXCEPT ![x].step = "invalid"]
  /\ UNCHANGED <<clock, register, walk>>

\* At most one registration has the reference: no limit applies.
ServeOne(x) ==
  /\ export[x].step = "asked" /\ export[x].query \in References
  /\ export' = [export EXCEPT ![x] = [@ EXCEPT !.step = "file",
                                               !.rows = Visible \cap Wanted(export[x].query)]]
  /\ UNCHANGED <<clock, register, walk>>

\* Mutant: no row is read to tell the limit from a larger match.
LimitItself == MaxRows

ReadLimit == MaxRows + 1

\* Mutant: one row too many is let through.
TooManyByTwo(found) == Len(found) > ReadLimit

TooMany(found) == Len(found) > MaxRows

\* The matches, up to one more than a file may have.
ServeMatches(x) ==
  /\ export[x].step = "asked" /\ export[x].query \in Criteria
  /\ \E rows \in InOrder(Matches(export[x].query), Newer) :
       LET found == Slice(rows, 0, ReadLimit)
       IN  export' = [export EXCEPT ![x] =
             IF TooMany(found)
               THEN [@ EXCEPT !.step = "refused"]
               ELSE [@ EXCEPT !.step = "file", !.rows = ToSet(found)]]
  /\ UNCHANGED <<clock, register, walk>>

Search ==
  \/ \E w \in Walks : AskPage(w) \/ ReadRows(w) \/ ReadTotal(w) \/ AnswerPage(w)
  \/ \E x \in Exports : \/ AskExport(x) \/ RejectReference(x)
                        \/ ServeOne(x) \/ ServeMatches(x)

-----------------------------------------------------------------------------
(* Properties.                                                             *)

\* What could have matched since: stored by now, and not deleted before.
MatchedSince(gone, wanted) == (Stored \ gone) \cap wanted

\* README: "ties broken by reference, so pages are stable".  Going through the
\* pages shows every registration that matched when the officer began and still
\* does, however many are stored meanwhile and wherever they sort; each one that
\* is deleted meanwhile can hide at most one other.
PagesCover ==
  \A w \in Walks : walk[w].step = "done" =>
    LET missed == (walk[w].there \cap Visible) \ walk[w].seen
        deleted == (Deleted \ walk[w].gone) \cap Matching[walk[w].criterion]
    IN  Cardinality(missed) <= Cardinality(deleted)

\* A page's total is read apart from its rows, but is never less than what
\* matched all the while nor more than what matched at some time, and no page
\* shows a registration that was deleted before the officer asked.
TotalsTrue ==
  \A w \in Walks : walk[w].step # "idle" =>
    LET since == MatchedSince(walk[w].gone, Matching[walk[w].criterion])
    IN  /\ walk[w].total # Unread =>
             walk[w].total \in Cardinality(walk[w].there \cap Visible)
                               ..Cardinality(since)
        /\ walk[w].seen \subseteq since

\* README: "a larger match is a 400 ... rather than a truncated file" and
\* "deleted registrations are never exported".  A file has everything that
\* matched when it was asked for and still does, nothing deleted before, and is
\* only refused when more than a file's worth matched.
ExportWhole ==
  \A x \in Exports :
    LET since == MatchedSince(export[x].gone, Wanted(export[x].query))
    IN  /\ export[x].step = "file" =>
             /\ export[x].there \cap Visible \subseteq export[x].rows
             /\ export[x].rows \subseteq since
        /\ export[x].step = "refused" => Cardinality(since) > MaxRows

=============================================================================
