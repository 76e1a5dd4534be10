------------------------------- MODULE Register -------------------------------
(***************************************************************************)
(* The registrations collection as its readers see it: what the audited    *)
(* repository's search, findByReference, count and countByMonth return     *)
(* while registrations are stored and deleted.  AuditedRepository has the  *)
(* transactions that store and delete them; here each takes effect at once.*)
(* Left out are update, which nothing in the service calls (one that       *)
(* changes what a registration matches would take it out of one search and *)
(* into another), and the hard deletions of delete-seed.js, which is for   *)
(* local databases.                                                        *)
(* A read is taken to be of one moment.  `register` is the copy that the   *)
(* reads go to: the primary's, or one secondary's, which goes through the  *)
(* same changes later.                                                     *)
(***************************************************************************)
EXTENDS Integers, FiniteSets, SequencesExt

CONSTANTS
  References,       \* references, in the order that their strings sort
  Undated,          \* those stored long ago without a submittedAt
  Criteria,         \* search terms, of /search and /export
  Matching,         \* what each of them matches
  MaxClock          \* bound: the last instant

ASSUME RegisterAssumption ==
  /\ References \subseteq Nat /\ IsFiniteSet(References)
  /\ Undated \subseteq References
  /\ Matching \in [Criteria -> SUBSET References]
  /\ MaxClock \in Nat

VARIABLES
  clock,
  register   \* each registration: its submittedAt, and whether it is stored

NoDate == -1            \* a missing date: it sorts below every date
Instants == 0..MaxClock

\* "dated": an attempt to save it is under way.  Nothing leaves the collection:
\* the repository deletes softly.
Stages == {"none", "dated", "stored", "deleted"}

RegisterTypeOK ==
  /\ clock \in Instants
  /\ register \in [References -> [submittedAt : Instants \cup {NoDate},
                                  stage : Stages]]

InitRegister ==
  /\ clock = 0
  /\ register = [ref \in References |->
                   [submittedAt |-> NoDate,
                    stage |-> IF ref \in Undated THEN "stored" ELSE "none"]]

Tick == clock < MaxClock /\ clock' = clock + 1 /\ UNCHANGED register

Advance(ref, from, to) ==
  /\ register[ref].stage = from
  /\ register' = [register EXCEPT ![ref].stage = to]
  /\ UNCHANGED clock

\* An attempt to save a registration dates it before it is stored, so what is
\* stored next may be older than what was stored before.
Submit(ref) ==
  /\ register[ref].stage = "none"
  /\ register' = [register EXCEPT ![ref] = [submittedAt |-> clock, stage |-> "dated"]]
  /\ UNCHANGED clock

Store(ref) == Advance(ref, "dated", "stored")

SoftDelete(ref) == Advance(ref, "stored", "deleted")

Change == Tick \/ \E ref \in References : Submit(ref) \/ Store(ref) \/ SoftDelete(ref)

-----------------------------------------------------------------------------
(* Reads.                                                                  *)

Deleted == {ref \in References : register[ref].stage = "deleted"}
Visible == {ref \in References : register[ref].stage = "stored"}
Stored == Visible \cup Deleted

Matches(c) == Visible \cap Matching[c]

\* A sort is the set of pairs whose first must come before their second: newest
\* first, where a missing date is the oldest.
Newer ==
  {p \in References \X References :
     register[p[1]].submittedAt > register[p[2]].submittedAt}

\* A find with a sort may return any order that the sort allows.
InOrder(refs, sort) ==
  {rows \in SetToSeqs(refs) :
     \A i, j \in DOMAIN rows : i < j => <<rows[j], rows[i]>> \notin sort}

\* skip and limit.
Slice(rows, skip, limit) ==
  SubSeq(rows, skip + 1, IF skip + limit < Len(rows) THEN skip + limit ELSE Len(rows))

=============================================================================
