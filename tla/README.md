# Verification of the pesticides OCR backend

The backend registers operators who handle pesticides. An applicant proves that
they own their contact email address by a magic link, submits a registration,
and case officers search and export the register. The service runs as several
instances of one Node process that share nothing but a MongoDB replica set, so
everything hard about it is in how their database operations interleave, fail
and are read late. This project models that with TLA+, checks it with TLC on
small instances, and proves the most important parts with TLAPS for all of them.

Paths below are relative to the repository.

## The system

| Component | State | Operations | Correct when |
| --- | --- | --- | --- |
| Rate limiter, `src/services/email-verification/rate-limiter.js` | counters and cooldowns in one collection, shared by all instances | `reserveSend`, `releaseSend` | caps are never overshot; a journey's emails keep their cooldown; what is refused or undone costs nothing |
| Verification records, `verification-records.js` beside it | one document per link: `sending`, `pending`, `superseded`, `verified`; purged by a TTL index | insert, delete, activate (a transaction), mark verified, three reads | one live link per journey; a link is used once; a verification outlives its use |
| Link requests, `request-link.js` | none of their own | reserve, insert, Notify, activate; undo on failure | a failed request leaves nothing; the old link works until the new one does |
| Using a link, `verify-link.js` | none | one atomic update, then a read that explains a refusal | never two winners; a final code is true |
| Registration gate, `registration-gate.js` | none | one read | nothing is accepted without a verification of that address on that journey |
| Current status, `current-status.js` | none | two reads | `verified` only of an address that was verified on the journey, `pending` only of a link whose email has gone and that was not over by its lifetime |
| Audited repository, `src/repositories/` | registrations and their history | `create`, `update`, `softDelete`, `withTransaction`; reads | a change and its history together or not at all; versions unbroken; nothing after a deletion |
| Saving a registration, `src/services/registration/`, `src/routes/registration/` | none | up to ten attempts to create under a random reference | at most one registration a submission; the answered reference is the applicant's |
| Seed scripts, `scripts/` | none | insert and delete registrations past the repository | |
| Journey metrics, `src/services/metrics/` | two event collections with unique nonces | record a beacon, count by month, summarise | a session counts once; sums agree |
| Search and export | none | filtered, paged, limited reads | pages cover the matches; an export is complete or refused |
| Authorisation, `src/auth/` | cached keys, per instance | token to credentials, role check | off a developer's machine nobody is served whose token has not been checked in everything |
| Boot and shutdown, `src/plugins/`, `src/server.js` | the database's indexes; each instance's phase | create and drop indexes, listen, drain, exit | nobody listens without the indexes; sound settings always come up, however many boot at once or over again |
| Journey tokens, `require-journey-id.js`, `journey-token.js` | none | signed header to journey id, or a refusal | no unsigned journey leaves a trace |

Interactions: a route calls one service; the link request calls the limiter,
the records and Notify in turn; the gate stands before saving; saving calls the
repository; search, export and the registrations metric read through it. Every
other interaction is through MongoDB: atomic single-document updates,
transactions under snapshot isolation that the driver retries, unique indexes
that turn a race into a duplicate key error, TTL indexes that delete behind the
code's back, and reads that CDP's `MONGO_URI` sends to a secondary.

What is hard is listed line by line under `hazards` in PROJECT.json: concurrent
reservations, late releases, `now` captured before a chain of awaits, purges
that overtake slow requests, snapshot isolation, the driver's retries, lost
answers, processes that die between two steps, caught and wrapped failures,
boots that race or start over, settings that leave a check out.

## Modules

| Module | Models |
| --- | --- |
| `SendLimits` | constants and the arithmetic of windows and buckets |
| `SendQuota` | what the limiter promises: an atomic grant, and its return |
| `RateLimiter` | the limiter, one step per database operation |
| `RateLimiter_proofs` | its theorems |
| `VerificationRecords` | the collection: what each operation matches and changes, what a read may see |
| `MagicLinks` | what email verification promises of its links, each changing in one step |
| `LinkRequests` | a request for a link from quota to activation, with the activation's transaction |
| `EmailVerification` | `LinkRequests` with the users of links, the gate and the status |
| `EmailVerification_proofs` | theorems about all three |
| `AuditLog` | what the repository promises: whole changes with their history |
| `AuditedRepository` | the repository's operations and transactions |
| `AuditedRepository_proofs` | its theorems |
| `SaveRegistration` | `AuditedRepository` with the submissions' attempts |
| `SaveRegistration_proofs` | its theorems |
| `Register` | the registrations as readers see them, and the repository's reads |
| `RegisterSearch` | `Register` with walks through a search's pages, and exports |
| `JourneyMetrics` | `Register` with the beacons, the monthly counts and the journey summary |
| `RegisterReaders` | the two together |
| `JourneyMetrics_proofs` | theorems of `RegisterReaders` about beacons and summaries |
| `RegisterReaders_proofs` | theorems of `RegisterReaders` about searches and exports |
| `Access` | the routes' decisions: settings and a token in, a status out, in the code's order |
| `Boot` | the instances from process start to exit, and the index operations they share |
| `Service` | `Boot` and `Access` with the routes, the key caches and the keys of Entra |
| `Service_proofs` | its theorems |
| `MC...` | instances for TLC |

`EmailVerification` uses the limiter through `SendQuota`: the limiter is shown
to implement it, so the requests above it need only the atomic quota.
`SaveRegistration` uses `AuditedRepository` itself. `Register` lets a registration
be dated, stored and softly deleted at any time, which is what the service does to
registrations. It leaves out the repository's `update`, which nothing in the
service calls yet (an update that changes what a registration matches would take
it out of one search and into another), and the hard deletions of
`scripts/delete-seed.js`, which is for local databases.

### How the modules read against the code

*Rate limiter.* `pc` follows `reserveSend`: `claim` (the upsert of the
cooldown), `count` (the three increments under `Promise.allSettled`, in any
order), then `reserved`, or `release` (the deletion and decrements under
`Promise.all`). `startedAt` is the `now` the caller captured, which every later
comparison uses while `clock` moves on. A counter document that does not exist
is a count of 0. `over` and `held` are what the results say: a count above the
maximum, an increment known to have been applied. `retryOnDuplicateKey` is
folded into the increment it makes succeed. An operation that fails, an increment as
well as one of a release, may have been applied.

*Records and requests.* A document is named by the request that made it. The
transaction of `activateRecord` is four steps: `WriteMarker` opens the snapshot
and holds the journey's marker, `Sweep` supersedes, `MakePending` moves the
record itself, `Commit` publishes. A write conflicts with a change since the
snapshot and with another open transaction; then `Retry` starts again.
A write conflict on the marker itself is modelled as waiting for it, because the
transaction has done nothing else yet. Writes outside a transaction wait for one
that has written the same document.

*Reads.* `Copies` is what a read outside a transaction can return: the primary's
collection, or also some earlier state of it (`secondary`, which `Replicate`
brings up to date whenever it likes).

*Repository.* A caller is a call, with a transaction of its own, or a group, the
work given to `withTransaction`. A group's work is free: it awaits any
operations, catches or wraps what they throw, and commits or aborts its session
itself. `view` and `log` are the two collections as the transaction sees them.
`EndWork`, `Succeeds`, `Retries` and `Reject` are the wrapper's `try`, rethrow
and label check. What a registration says is abstracted to who changed it last.
A registration may be `Unversioned` from the beginning: stored before there were
versions (`README.md:464`). It has no history until its first change, which makes
version 1 without a `create` entry. One that the seed script inserts looks the same.

*Readers.* `Register` is the copy that reads go to: the primary's, or that of one
secondary, which goes through the same changes later. An officer who is sent to
different copies from one read to the next is not modelled, and could see less.
A find with a sort returns any order the sort allows (`InOrder`), so a sort that
leaves ties open is open in the model too. The rows and the total of a page, and
the three counts of a summary, are separate steps, as `Promise.all` sends them
together. Dates are instants; days, months and years are runs of them. The
summary's figures are operators over the counts it has read.

*Service.* `phase` is how far an instance has come: `loading` (the imports, where
`config.js` and the route modules may throw), `connecting`, `indexing`,
`starting`, `listening`, `draining` after SIGTERM. `Plan` is `createIndexes` as a
sequence of thirteen operations and `at` an instance's place in it.
`IndexAnswer` is what MongoDB answers (external): dropping an index that is gone
is `IndexNotFound`, from a collection that is not there yet `NamespaceNotFound`,
and a unique index over duplicates fails. The code forgives only the first,
which is enough because an index on the collection comes before it in the plan. An instance
that its own code has thrown out of is `failed`, one whose operation the database
has failed, or that was killed, is `crashed`; the failed operation may have been
applied. Settings are records of the values that decide anything, from the
environment and the defaults together. A request is one step, because settings
do not change while an instance runs and the other modules take its operations
apart; `answer` holds what the last step answered, so that a property can judge
it. The keys an instance checks signatures with are those it has cached or those
published now; when the JWT library fetches is left open, but it does so only for a
token that it has to verify. A link said to be of a journey may be unknown, live,
used or over (`LinkStates`), the last three only if one was sent for that journey;
a live one makes `POST /email-verifications/verify` answer 200 and the journey
verified. The seed script runs
beside all this whenever somebody starts it.

## Runs

| Run | Bounds | What it shows |
| --- | --- | --- |
| `resends` | 3 requests, 1 journey, 1 address, caps 2/1/2, cooldown 1, 2 instants | cooldown, exact counters with no failures |
| `rivals` | 2 requests of 2 journeys for 1 address, caps 1, one fault, 2 windows | caps and refinement when operations fail, are applied unheard, processes die and the TTL index purges |
| `links` | 2 requests of 1 journey, 2 attempts, 3 instants, one fault | one live link, at most one success, retention, true refusals, clean undo, refinement of `MagicLinks` |
| `activations` | 2 requests of 1 journey for 2 addresses, 1 attempt, 1 registration or 1 poll, 3 instants, one fault, lagging reads | activations end (liveness); the gate and the status are never too generous |
| `repository` | 1 call, 1 group of up to 2 changes, 1 registration (new or from before versions) and 1 seed, one fault | history, atomicity, retries, refinement of `AuditLog` |
| `submissions` | 2 submissions with 2 attempts, 1 other call, 2 references (free or taken since before versions), one fault | stored once, the answer is true, and there is one (liveness) |
| `readers_of_register` | 2 registrations and 1 undated, pages of 1 row, exports of up to 1, 4 beacons of 1 session (one forged), 2 ranges over 2 days and months, one fault | pages cover, exports are whole, sessions count once, ranges and rows add up, a summary is true of its time |
| `instances` | 2 instances, 8 kinds of settings, 8 bearer tokens, 4 journey tokens of 3 journeys, a fresh or an older database, 3 documents, one fault | indexes before listening, nothing stored twice, boots fail only for their settings and otherwise succeed (liveness), only vouched officers, also with cached keys, only signed journeys, and behind the gate only verified ones |
| `refused_with_room` | as `rivals`, no fault | finding 1 |
| `cap_overshot` | 2 requests, a purge that overtakes | finding 2 |
| `latest_link` | 2 requests, 2 instants | finding 3 |
| `gate_reads_stale` | 2 requests, 1 attempt, 1 registration | finding 4 |

Why the bounds are enough to meet the cases. Three requests are the fewest that a
late release can confuse: one that releases, one that claims in between, one
that is let in. Two instants with a cooldown of one separate "running" from
"over"; windows of one or two instants let requests meet in a window or straddle
its end. Three instants with a link lifetime of one, a verification lifetime of
one and a retention of two make every expiry happen, and the retention is the
smallest the settings allow. One fault lets any single operation fail at any
point; two faults multiply the states without a new pair of steps meeting. Two
transactions on two documents are what it takes to conflict; a group of two
changes has a first that must be rolled back with the second. `activations`
has one reader at a time (`ReadersApart`): neither changes what anybody reads. `readers_of_register`
does the same with one kind of reader at a time; a page of one row makes every
change a change of pages, a limit of one row puts an export on and over it, and
two days that are two months meet every boundary of a range and of a month.
In `rivals` each journey has one request, so its
cooldown is met only in `resends` and in the proofs.
`instances` has one bearer token for each thing that can be wrong with one, one
journey for each deployed secret, one that is signed only with a secret nobody has
deployed or not at all, and settings for each way to start, to refuse and to be
incomplete. Its `Apart` takes scenarios one at a time that do
not touch each other's state: officers and keys with one instance, two booting
instances with one of them set up for production, documents without faults. An
answer that changes nothing but `answer` ends a behaviour, because every other
continuation also happens without it. Those that go on are in `Changes`: whatever
stores a document or sends a link, a verification (so that a journey can go from
its link past the gate), and an officer's answer after which keys are cached (so
that later tokens are checked with keys that Entra may have withdrawn). Any
officer's call with a token fetches keys alike, so of those the good token's stands
for all.

`CHECK_DEADLOCK FALSE` everywhere: requests are finitely many and the clock
stops, so a model may end.

Each property of a passing run is also checked against a mutant: a definition
changed the way a slip in the code would change it (the definitions commented
*Mutant*), which must break the property.

### Fairness

Safety needs none. `ActivationEnds` assumes that an activation that can take its
next step does: each database operation is answered and the driver retries a
transaction that conflicts. `SubmissionsAnswered` assumes the same of every call
of the repository and of the handler around it. `Serves` assumes that an
instance's boot goes on and that the platform starts a process again that has
exited with a failure; faults are finitely many. Nothing else is fair: requests
may never come, the clock may stop, purges and replication may never happen. No
group takes part in `submissions`: its work could hold a transaction open for as
long as it likes, and two groups that want each other's documents can fail each
other again and again, which the code leaves to the driver's time limit.

## Findings

1. *Refused with room.* Two concurrent requests over one remaining send can each
   see the other's increment and both be refused. `README.md` says a cap was
   reached. No quota is lost, and a later request is let through.
2. *Cap overshot after a purge.* The increment upserts. If the TTL index deletes
   a window's counter while a request of that window is still under way, the
   request counts from zero. It takes a request that is slower than the rest of
   its window and the TTL monitor's delay. Everything else about the limiter is
   checked and proved with `PurgeOvertakes` false, which says that this does not
   happen.
3. *Not only the latest link.* Which link supersedes which is decided by whose
   activation runs last, not by whose email went last. With an activation slower
   than the cooldown, the older email's link stays live and the newer one's is
   answered `TOKEN_SUPERSEDED`; the current status, which looks at the latest
   record by `createdAt`, then says `expired`.
4. *The gate on a lagging secondary.* With `readPreference=secondaryPreferred` a
   registration that follows its verification closely can be refused.

## Proofs

Every safety property that a passing run checks is also proved, for all values of
the constants. Each proof module follows one plan: the type invariant first, then
an invariant strong enough to be inductive, with one lemma for each part of it
and one step for each action, then the theorems as its consequences.

What a finding's run violates has a theorem too, with the finding's cause as its
hypothesis: without that cause the property holds, so there is no other. They are
`RefusedOnlyCrowded` for finding 1, `OvershotOnlyLate` for 2, `LatestOnlyOvertaken`
for 3 and `RefusedOnlyByLag` for 4.

### The limiter: `RateLimiter_proofs`

For all requests, journeys, addresses, limits and bounds:

- `TypeCorrect`: the type invariant, which is inductive together with the
  assumptions on the constants.
- `SpacedByCooldown`: `CooldownSpacing`. It is not inductive: a request that
  holds a cooldown must be known to *own* its journey's cooldown document for as
  long as that runs. `CooldownIsOwn` says so, and the claim check of the deletion
  is what preserves it (`ClaimKeepsOwn`).
- `NeverOvershot`: `CapHolds`, assuming `~PurgeOvertakes`. The strengthening
  `Capped` is about one bucket: while the bucket can still be counted in, the
  number of requests that hold one of its increments is at most its counter, and
  those that were let through are at most the maximum; once it is closed, nobody
  can be let through any more. The count a request compares is then an upper
  bound on everybody who counted before it.
- `NoQuotaLost`: `QuotaExact`. It holds only as long as no operation has failed, and
  `NoFaultSoFar` leaves the steps that then remain. `Accounted` adds three things to
  the invariant: while a window is open its counter is exactly the number of its
  holders, a release gives back exactly what its request holds, and every claim
  is of a request that keeps it.
- `QuotaImplemented`: the limiter implements `SendQuota`. A step that allows a
  request is a grant, a failed send gives it back, every other step stutters;
  the cooldown and the cap are the grant's guards.
- `OvershotOnlyLate` and `QuotaImplementedInTime`: `CapHolds` and the refinement hold with
  purges that overtake, too, under `InTime`: whoever has still to count is in the window of its `now`. No
  counter it needs can then be purged.
- `RefusedOnlyCrowded`: `RefusedOnlyWhenCapReached` under `CountsApart`, that no two
  requests count, or give back what a limit refused, at once. `Covered` bounds a
  counter by its holders also where a purge has reset it (which `Exact` leaves
  open), so a count above the maximum is made of holders; under `CountsApart` all of
  them but the one that counts were let through (`ExceedsReached`), and those stay
  so (`ReachedStays`).

`NeverOvershot` and `QuotaImplemented` assume that a purge does not overtake a
request, their variants that no request is late to count; the code enforces
neither (finding 2). All assume the settings
are positive integers, which `config.js` checks at boot.

### Records, links, gate and status: `EmailVerification_proofs`

- `TypeCorrect`: the type invariant. A request that is about to insert must also be
  known to hold its quota (`QuotaHeld`).
- `OneLiveLink`: `AtMostOneLive`. The journey's marker allows one open transaction
  (`OneTransaction`). While it is open, no link of the journey becomes pending
  behind its back (`SnapshotCovers`), so what it sweeps in its snapshot is all
  there is, and what it has swept nobody changes (`WrittenAsSeen`). At the commit
  its own link is therefore the only one.
- `VerificationLasts`: `VerificationKept`. `VerificationRecorded` says that a verification is
  in its record, made before the link expired, or is over; a purge comes
  `Retention` after `createdAt`, and the assumption that this is at least both
  lifetimes together is all that keeps it from coming early.
- `SupersededOnlyByAnother`: the action property `SupersededByAnother`, from the same
  invariant: a commit changes what it has written, its own link and those swept.
- `UndoLeavesNothing`: `NothingLeftBehind`, by following what an undo has done so far
  (`UndoneSoFar`).
- `OneAttemptSucceeds`, `RejectionsAreTrue`: `OneSuccess`, which is that at most one
  attempt succeeds, and `RejectionIsTrue`. The explanation
  of a refusal is read after the refusal and from a copy that may lag.
  `CopiesAgree` says what even then can be relied on: the time of creation, a
  verification, and that a superseded link is over for good (`OverStays`).
- `AcceptedNeedsVerification`, `PollsAreTrue`: `GateNeedsVerification` and `PollTellsTruth`, from
  `CopiesAgree` again.
- `LinksImplemented`: the records with everybody who changes them implement
  `MagicLinks`. A commit is the step in which a link goes live and the journey's
  other one is over, the atomic update is its use, a purge is a lapse or the end of
  what a use is remembered for, a request that fails gives its link up, and all
  other steps but the mailing stutter. That a use comes after its link was mailed and
  before it expired is in the same invariants as above.
- `LatestOnlyOvertaken`: `LatestLinkWorks` under `ActivationsApart`, that a journey's
  activation is over before its next email has gone. `InOrder` says that whoever is
  activating was mailed after all whose links are live or superseded.
- `RefusedOnlyByLag`: if the gate reads the primary, `RefusedOnlyUnverified` holds. It is the
  property that finding 4 violates, so the lag is the finding's only cause.

They assume the sizes of the lifetimes that `config.js` checks
(`RecordsAssumption`) and that there is something to ask for (`UseAssumption`).

### Repository and submissions: `AuditedRepository_proofs`, `SaveRegistration_proofs`

- `TypeCorrect` and `HistoryKept`: `HistoryMatches`, of every registration that the
  seed scripts leave alone. `Matches` says it of any pair of a
  registration and its history, in the collections and in every transaction's
  view of them; in between, while a transaction has changed a registration and not
  yet appended, `Behind` holds of its view instead (`MatchInv`). `InStep` is how a
  transaction's place, status and failure hang together.
- `ConflictsLeadToRetries`: `ConflictsRetried`. A transaction whose work has met a write
  conflict is either run again or dead, whatever the work did with the error
  (`ToldTruly`).
- `NothingHalfDone`: `AllOrNothing`. A caller's mark is in somebody else's view only
  after it has committed (`MarksCommitted`), and a second attempt begins without any.
- `RepositoryImplementsLog`: the repository implements `AuditLog`. By `SnapshotInv` what a
  transaction has not written it sees as of its snapshot, and what it has written
  nobody has changed since; by `WroteApart` no other open transaction has written
  it. A commit is then one step of the log, which appends to each changed
  registration the versions its view has more; every other step stutters. That
  version 1 is a creation only where nothing was stored before is `FirstEntry`.
- `HistoryKeptWhileSaving`, `AttemptsAllOrNothing` and `SavingImplementsLog`: the repository's
  promises once more with submissions among its callers. Drawing again begins a
  transaction of its caller's own, as a call does, so each step is one of the
  repository's (`RepositoryStep`) and its lemmas carry over.
- `SaveTypeCorrect`, `OneRegistrationEach` and `AnswersAreStored`: the
  submissions' `SaveTypeOK`, `StoredOnce` and `AcceptedIsStored`. A submission may draw
  again only after a collision. `Ended` says that a
  collision has left nothing, because its transaction was aborted, and that a
  success has left exactly the reference that is answered; `LogInv` says that an entry
  in a transaction's view is the collection's or its own.

They assume that there are references, that the words for "no answer yet" and
"failed" are none of them, and the shape of the other constants.

### Readers of the register: `JourneyMetrics_proofs`, `RegisterReaders_proofs`

For any references, terms, page size, limit, beacons, ranges and calendar:

- `ReadersTypeCorrect`: the type invariant.
- `PagesAreStable`: `PagesCover`. With `searchSort` total (`SortIsTotal`) a page has exactly
  the matches of certain ranks (`PageRanks`), a rank being the number of matches
  sorted before. What is stored only increases the ranks of the others
  (`EarlyAmongMore`), and a deletion brings at most one row forward over the boundary
  of what has been read (`EarlyAmongFewer`). So the matches that are within the pages
  already read and were not shown (`Due`) never outnumber the matches deleted
  meanwhile (`Lost`); once the last page is read, all that were missed are due.
  Without the tie-break the ranks are not determined and the argument fails at its
  first lemma.
- `TotalsAreTrue`: `TotalsTrue`, from the same invariant (`WalkOf`).
- `ExportsAreWhole`: `ExportWhole`. Reading one row more than the limit tells a larger
  match from one of the limit's size, in whatever order the rows come
  (`LimitIsTold`); then a file has all matches of one moment.
- `BeaconsCountedOnce`: `CountedOnce`, with what is known of accepted beacons.
- `RangesPartition`: `RangesAddUp`. The day after begins where the day ends
  (`DaysAdjoin`), so a cut between two days makes two disjoint sets.
- `RowsHoldAll`: `RowsAddUp`. The rows are disjoint groups of the counted dates
  (`Months`, then years of months), so their sums are the size of the union. `Summed` is written
  as the number of pairs of a row and one of what it counts; that this is a sum
  is itself a lemma (`SumOfNone`, `SumOfOneMore`).
- `SummariesOfTheirTime`: `SummaryOfItsTime`. What a source holds only grows (`SourceGrows`), so a
  count lies between what was there at the question and what is there now
  (`Between`), and `DropOuts` is monotonic in its counts (`DropOutsBounds`).

They assume the shape of the constants, and that a search term is not also a
reference (`SearchAssumption`): the two come in different query parameters.

### The service: `Service_proofs`

For any number of instances, documents, tenants, keys and tokens and for any
settings, every safety property of `Service`:

- `TypeCorrect`: the type invariant.
- `IndexedBeforeListening`, `NothingStoredTwice` and `ThrowsForItsSettings` rest
  on one invariant, `IndexInv`. `PlanFollowed` says that an instance at a place
  in the plan leaves behind what the operations before that place make, which
  holds against the other instances because no operation of the plan undoes
  another (`NothingUndone`: the one drop is of an index that nobody creates). From it
  follow that a finished plan means all indexes (`AllIndexed`), that the unique
  index on `reference` is there whenever something can be stored, by the seed
  script too (`SeedIndexed`), so that nothing is stored twice, and hence that no
  operation of the plan ever throws (`PlanNeverThrows`).
- `ServedOnlyVouched`: `OnlyVouched`. It needs that no deployed instance that
  serves is in mock mode (`NoMockReady`) and that a cached key is one of the tenant's
  own (`KeysOwn`).
- `OnlySignedJourneys`: `JourneysSigned`, from the statement that everything recorded is
  signed with a deployed secret (`AllSigned`), that only a journey with a link can be
  verified (`VerifiedLinked`) and what the last answer says of both (`RegisteredVerified`).

They assume only the shape of the constants (`AccessAssumption`,
`BootAssumption`, `ServiceAssumption`): a tenant signs with its own keys, and
"not set" is none of the values that can be set.

### Only model-checked

- Liveness: `ActivationEnds`, `SubmissionsAnswered`, `Serves`. The prover has neither fairness
  nor `ENABLED`.
- The counterexamples of the findings: that what they violate is violated.

## Not modelled

Payload and query schemas, what a search term matches, CSV rendering, rates and
their rounding, and other response bodies, audit events, metrics counters and logs;
token randomness and hashing; `Retry-After`; MongoDB's own correctness (an
operation on one document is atomic, a transaction sees a snapshot, unique
indexes are unique) and clock differences between instances. The clock is one
for all: the code compares times of different instances as if it were.
A caller that goes on to commit its session itself after it has caught a failure,
and one that does not await an operation, are misuse and left out: `CommitItself`
has a guard, that nothing has failed before, that the repository cannot have, because
the caller commits past it.
Readers do not see updates, of which the service makes none, nor the hard
deletions of `delete-seed.js`: `PagesCover`, `TotalsTrue`, `ExportWhole` and
`SummaryOfItsTime` are of registrations that come and are softly deleted.

The JWT library's checks and when it fetches keys, the platform that restarts
instances, and hapi-pulse's draining are external. `mongo-lock.js` is called by
nothing. Request logging, tracing, proxy set-up and `/health` have no state.

## Plan

Modelling and the proofs of what the runs check are done, within the limits
above. What is left:

1. The seed scripts against the repository: what a reference that was deleted by
   `delete-seed.js` and used again does to `HistoryMatches`, which is stated of
   registrations that the scripts never touch.
2. The gate before `SaveRegistration`: the two are proved apart, because the gate's
   answer does not depend on the register.
3. How far a cap can be overshot by requests that count late (`OvershotOnlyLate` says
   that only they can): once for each time a counter is purged under them.
