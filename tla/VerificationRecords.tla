------------------------- MODULE VerificationRecords -------------------------
(***************************************************************************)
(* The email verifications collection: one document per link, what each of *)
(* verification-records.js's operations matches and changes, the TTL index *)
(* on purgeAt, and the copy a secondary serves.                            *)
(*                                                                         *)
(* A link and its document are named by the request that made it, so the   *)
(* fields that never change (journeyId, email, tokenHash) are functions of *)
(* the request, and expiresAt and purgeAt follow from createdAt.           *)
(* supersededAt is written and never read, and is left out.                *)
(***************************************************************************)
EXTENDS SendLimits

CONSTANTS
  LinkTtl,          \* linkTtlSeconds, in ticks
  VerifiedTtl,      \* verifiedTtlSeconds
  Retention,        \* recordRetentionSeconds
  ReadPreference    \* mongo.mongoOptions.readPreference, or MONGO_URI's

\* POSITIVE_INT, and validateRetention, which keeps the app from starting.
ASSUME RecordsAssumption ==
  /\ LinkTtl \in Nat \ {0}
  /\ VerifiedTtl \in Nat \ {0}
  /\ Retention \in Nat
  /\ Retention >= LinkTtl + VerifiedTtl
  /\ ReadPreference \in {"primary", "secondaryPreferred"}

VARIABLES
  clock,      \* the time, as every instance reads it
  records,    \* the collection on the primary
  secondary   \* the collection on a secondary: records as they once were

Statuses == {"sending", "pending", "superseded", "verified"}

\* verifiedAt is null until the status is verified, when it is first read.
Docs == [status : Statuses \cup {"none"}, createdAt : Times, verifiedAt : Times]

NoDoc == [status |-> "none", createdAt |-> 0, verifiedAt |-> 0]

ExpiresAt(doc) == doc.createdAt + LinkTtl

PurgeAt(doc) == doc.createdAt + Retention

\* insertSendingRecord's document.
SendingDoc(now) == [status |-> "sending", createdAt |-> now, verifiedAt |-> 0]

\* Mutant: a link verifies as often as it is used.
CanVerifyAgain(doc, now) == doc.status # "none" /\ ExpiresAt(doc) > now

\* Mutant: whenever it is used, as long as it is pending.
CanVerifyLate(doc, now) == doc.status = "pending"

\* markVerified's filter and update.
CanVerify(doc, now) == doc.status = "pending" /\ ExpiresAt(doc) > now

\* Mutant: the wrong date.
VerifiedDocExpiry(doc, now) ==
  [doc EXCEPT !.status = "verified", !.verifiedAt = ExpiresAt(doc)]

VerifiedDoc(doc, now) == [doc EXCEPT !.status = "verified", !.verifiedAt = now]

\* Mutant: every other document of the journey.
OtherOfJourney(copy, x) ==
  {y \in Requests \ {x} :
     JourneyOf[y] = JourneyOf[x] /\ copy[y].status # "none"}

\* The documents activateRecord's updateMany matches.
OtherPending(copy, x) ==
  {y \in Requests \ {x} :
     JourneyOf[y] = JourneyOf[x] /\ copy[y].status = "pending"}

\* findLatestRecord: the journey's newest documents whose email has gone.
LatestRecords(copy, j) ==
  LET sent == {x \in Requests :
                 JourneyOf[x] = j /\ copy[x].status \notin {"none", "sending"}}
  IN  {x \in sent : \A y \in sent : copy[y].createdAt <= copy[x].createdAt}

\* Mutants: of any address, and however long ago.
AnyAddressVerifications(copy, j, e, since) ==
  {x \in Requests : /\ JourneyOf[x] = j
                    /\ copy[x].status = "verified"
                    /\ copy[x].verifiedAt > since}

OldVerifications(copy, j, e, since) ==
  {x \in Requests : /\ JourneyOf[x] = j /\ EmailOf[x] = e
                    /\ copy[x].status = "verified"}

\* findRecentVerification: those it may return one of.
RecentVerifications(copy, j, e, since) ==
  {x \in Requests : /\ JourneyOf[x] = j /\ EmailOf[x] = e
                    /\ copy[x].status = "verified"
                    /\ copy[x].verifiedAt > since}

\* What a read outside a transaction may see.
Copies ==
  IF ReadPreference = "primary" THEN {records} ELSE {records, secondary}

\* The secondary catches up, some time after any number of writes.
Replicate ==
  /\ ReadPreference # "primary"
  /\ secondary # records
  /\ secondary' = records

=============================================================================
