----------------------------- MODULE RateLimiter -----------------------------
(***************************************************************************)
(* services/email-verification/rate-limiter.js: reserveSend and            *)
(* releaseSend, run by any number of requests at once on any number of     *)
(* instances that share nothing but the rate limits collection.            *)
(*                                                                         *)
(* Every await of the code is a step of its own.  One database operation   *)
(* is atomic, and the three counters of a request are incremented          *)
(* concurrently, in any order, each with its own outcome.  A counter       *)
(* document that is absent is modelled as a count of 0: an upserted $inc   *)
(* and the guarded decrement do the same to both.  retryOnDuplicateKey     *)
(* makes the losing insert of two increment the winner's document, so an   *)
(* increment is one step here, and one that fails both times is            *)
(* IncrementFails.                                                         *)
(*                                                                         *)
(* The caller's part, request-link.js, is reduced to its two outcomes: the *)
(* email goes (the reservation is kept) or it does not (it is released).   *)
(***************************************************************************)
EXTENDS SendLimits

CONSTANTS
  NoOne,            \* no request: a cooldown document that does not exist
  NotGranted,       \* for the refinement of SendQuota
  PurgeOvertakes,   \* whether the TTL index may delete a counter that a slow
                    \* request, with an earlier `now`, has still to increment
  MaxFaults         \* bound: failed operations and dead processes

ASSUME LimiterAssumption ==
  /\ NoOne \notin Requests
  /\ NotGranted \notin Nat
  /\ PurgeOvertakes \in BOOLEAN
  /\ MaxFaults \in Nat

VARIABLES
  clock,      \* the time, as every instance reads it
  cooldowns,  \* the cooldown document of each journey
  counters,   \* the count of each counter document
  pc,         \* where each request is
  startedAt,  \* its `now`, captured once
  waiting,    \* operations of the current Promise.all not yet settled
  over,       \* the limits whose increment returned a count above the maximum
  held,       \* the counters it knows it has incremented and not given back
  outcome,    \* what reserveSend resolved to, or is about to
  faults      \* how many faults have happened

vars == <<clock, cooldowns, counters, pc, startedAt, waiting, over, held,
          outcome, faults>>

NoCooldown == [claim |-> NoOne, endsAt |-> 0]

Steps == {"idle", "claim", "refused", "count", "reserved", "release", "sent",
          "done", "dead"}

Outcomes == Limits \cup {"none", "cooldown", "allowed", "undone", "error"}

\* The operations a release is made of: one per counter and the cooldown's.
Releases == Limits \cup {"cooldown"}

Bucket(r, l) == BucketAt(r, l, startedAt[r])

\* The one type invariant: every variable has its shape, and no request is
\* ahead of the clock.
TypeOK ==
  /\ clock \in Times
  /\ cooldowns \in [Journeys -> [claim : Requests \cup {NoOne}, endsAt : Nat]]
  /\ counters \in [Buckets -> Nat]
  /\ pc \in [Requests -> Steps]
  /\ startedAt \in [Requests -> Times]
  /\ \A r \in Requests : startedAt[r] <= clock
  /\ waiting \in [Requests -> SUBSET Releases]
  /\ over \in [Requests -> SUBSET Limits]
  /\ held \in [Requests -> SUBSET Limits]
  /\ outcome \in [Requests -> Outcomes]
  /\ faults \in Nat

Init ==
  /\ clock = 0
  /\ cooldowns = [j \in Journeys |-> NoCooldown]
  /\ counters = [b \in Buckets |-> 0]
  /\ pc = [r \in Requests |-> "idle"]
  /\ startedAt = [r \in Requests |-> 0]
  /\ waiting = [r \in Requests |-> {}]
  /\ over = [r \in Requests |-> {}]
  /\ held = [r \in Requests |-> {}]
  /\ outcome = [r \in Requests |-> "none"]
  /\ faults = 0

Goto(r, from, to) ==
  /\ pc[r] = from
  /\ pc' = [pc EXCEPT ![r] = to]

\* The local variables of a call that has ended.
Forget(r) ==
  /\ waiting' = [waiting EXCEPT ![r] = {}]
  /\ over' = [over EXCEPT ![r] = {}]

Fault ==
  /\ faults < MaxFaults
  /\ faults' = faults + 1

-----------------------------------------------------------------------------
(* reserveSend: the cooldown, then the three counters, then the decision.  *)

\* The request captures `now` before it does anything else.
Start(r) ==
  /\ Goto(r, "idle", "claim")
  /\ startedAt' = [startedAt EXCEPT ![r] = clock]
  /\ UNCHANGED <<clock, cooldowns, counters, waiting, over, held, outcome,
                 faults>>

\* The upsert's filter matches an expired cooldown only, judged by the
\* request's own `now`; a document that does not exist is inserted.
CooldownFree(r) ==
  LET running == cooldowns[JourneyOf[r]]
  IN  running.claim = NoOne \/ running.endsAt <= startedAt[r]

OwnCooldown(r) == [claim |-> r, endsAt |-> startedAt[r] + Cooldown]

ClaimCooldown(r) ==
  /\ CooldownFree(r)
  /\ Goto(r, "claim", "count")
  /\ cooldowns' = [cooldowns EXCEPT ![JourneyOf[r]] = OwnCooldown(r)]
  /\ waiting' = [waiting EXCEPT ![r] = Limits]
  /\ UNCHANGED <<clock, counters, startedAt, over, held, outcome, faults>>

\* While a cooldown runs the upsert inserts a second document with its _id:
\* the duplicate key error is the refusal.
CooldownRefuses(r) ==
  /\ ~CooldownFree(r)
  /\ Goto(r, "claim", "refused")
  /\ UNCHANGED <<clock, cooldowns, counters, startedAt, waiting, over, held,
                 outcome, faults>>

\* The running cooldown is read for Retry-After, which is not modelled: it
\* changes no state and the read may find the document gone.
ReadRunning(r) ==
  /\ Goto(r, "refused", "done")
  /\ outcome' = [outcome EXCEPT ![r] = "cooldown"]
  /\ UNCHANGED <<clock, cooldowns, counters, startedAt, waiting, over, held,
                 faults>>

\* Claiming or reading fails: reserveSend rejects with nothing released,
\* and the claim may have been applied although the request never heard so.
ClaimFails(r) ==
  /\ Fault
  /\ \/ /\ Goto(r, "claim", "done")
        /\ CooldownFree(r)
        /\ cooldowns' = [cooldowns EXCEPT ![JourneyOf[r]] = OwnCooldown(r)]
     \/ /\ Goto(r, "claim", "done") \/ Goto(r, "refused", "done")
        /\ UNCHANGED cooldowns
  /\ outcome' = [outcome EXCEPT ![r] = "error"]
  /\ UNCHANGED <<clock, counters, startedAt, waiting, over, held>>

\* Mutant: one more than the maximum gets through.
ExceedsLate(count, l) == count > MaxSends[l] + 1

\* The comparison with the maximum, made here on the count the increment
\* returns: nothing else is ever done with it.
Exceeds(count, l) == count > MaxSends[l]

Increment(r, l) ==
  /\ pc[r] = "count" /\ l \in waiting[r]
  /\ counters' = [counters EXCEPT ![Bucket(r, l)] = @ + 1]
  /\ over' = [over EXCEPT ![r] = IF Exceeds(counters[Bucket(r, l)] + 1, l)
                                 THEN @ \cup {l} ELSE @]
  /\ held' = [held EXCEPT ![r] = @ \cup {l}]
  /\ waiting' = [waiting EXCEPT ![r] = @ \ {l}]
  /\ UNCHANGED <<clock, cooldowns, pc, startedAt, outcome, faults>>

\* A rejected increment, applied all the same when only its answer was lost.
IncrementFails(r, l) ==
  /\ Fault
  /\ pc[r] = "count" /\ l \in waiting[r]
  /\ \/ UNCHANGED counters
     \/ counters' = [counters EXCEPT ![Bucket(r, l)] = @ + 1]
  /\ waiting' = [waiting EXCEPT ![r] = @ \ {l}]
  /\ UNCHANGED <<clock, cooldowns, pc, startedAt, over, held, outcome>>

Rank == [email |-> 1, journey |-> 2, global |-> 3]

\* The limit a refusal names: the first exceeded one in the buckets' order.
FirstExceeded(r, l) ==
  /\ l \in over[r]
  /\ \A k \in over[r] : Rank[l] <= Rank[k]

\* Mutant: the cooldown stays.
ReleaseCounters(r) == held[r]

\* What a release gives back: every increment known to have been applied, and
\* the cooldown.
ReleaseSet(r) == held[r] \cup {"cooldown"}

\* All three increments have settled, and at least one was rejected.
AbandonFailed(r) ==
  /\ waiting[r] = {} /\ held[r] # Limits
  /\ Goto(r, "count", "release")
  /\ outcome' = [outcome EXCEPT ![r] = "error"]
  /\ waiting' = [waiting EXCEPT ![r] = ReleaseSet(r)]
  /\ UNCHANGED <<clock, cooldowns, counters, startedAt, over, held, faults>>

Refuse(r) ==
  /\ waiting[r] = {} /\ held[r] = Limits
  /\ Goto(r, "count", "release")
  /\ \E l \in Limits : /\ FirstExceeded(r, l)
                       /\ outcome' = [outcome EXCEPT ![r] = l]
  /\ waiting' = [waiting EXCEPT ![r] = ReleaseSet(r)]
  /\ UNCHANGED <<clock, cooldowns, counters, startedAt, over, held, faults>>

Allow(r) ==
  /\ waiting[r] = {} /\ held[r] = Limits
  /\ over[r] = {}
  /\ Goto(r, "count", "reserved")
  /\ outcome' = [outcome EXCEPT ![r] = "allowed"]
  /\ UNCHANGED <<clock, cooldowns, counters, startedAt, waiting, over, held,
                 faults>>

-----------------------------------------------------------------------------
(* The caller: the email goes, or it does not and undoSend releases.       *)

SendSucceeds(r) ==
  /\ Goto(r, "reserved", "sent")
  /\ UNCHANGED <<clock, cooldowns, counters, startedAt, waiting, over, held,
                 outcome, faults>>

SendFails(r) ==
  /\ Goto(r, "reserved", "release")
  /\ outcome' = [outcome EXCEPT ![r] = "undone"]
  /\ waiting' = [waiting EXCEPT ![r] = ReleaseSet(r)]
  /\ UNCHANGED <<clock, cooldowns, counters, startedAt, over, held, faults>>

-----------------------------------------------------------------------------
(* releaseSend: the deletion and the decrements, concurrently.             *)

\* Mutant: deleteOne matches the journey only.
AfterDeletingAnyCooldown(r) ==
  [cooldowns EXCEPT ![JourneyOf[r]] = NoCooldown]

\* deleteOne matches the claim as well as the journey, so a cooldown that
\* somebody else has claimed since is left running.
AfterDeletingCooldown(r) ==
  IF cooldowns[JourneyOf[r]].claim = r
  THEN [cooldowns EXCEPT ![JourneyOf[r]] = NoCooldown]
  ELSE cooldowns

DeleteCooldown(r) ==
  /\ pc[r] = "release" /\ "cooldown" \in waiting[r]
  /\ cooldowns' = AfterDeletingCooldown(r)
  /\ waiting' = [waiting EXCEPT ![r] = @ \ {"cooldown"}]
  /\ UNCHANGED <<clock, counters, pc, startedAt, over, held, outcome, faults>>

\* Mutant: no filter.
AfterAnyDecrement(r, l) == [counters EXCEPT ![Bucket(r, l)] = @ - 1]

\* The filter count > 0 keeps a counter that was purged meanwhile from going
\* negative.
AfterDecrement(r, l) ==
  IF counters[Bucket(r, l)] > 0
  THEN [counters EXCEPT ![Bucket(r, l)] = @ - 1]
  ELSE counters

Decrement(r, l) ==
  /\ pc[r] = "release" /\ l \in waiting[r]
  /\ counters' = AfterDecrement(r, l)
  /\ held' = [held EXCEPT ![r] = @ \ {l}]
  /\ waiting' = [waiting EXCEPT ![r] = @ \ {l}]
  /\ UNCHANGED <<clock, cooldowns, pc, startedAt, over, outcome, faults>>

\* One operation of the release fails, applied or not.  The others are already
\* under way and go on; reserveSend then rejects with this error, undoSend only
\* logs it.
ReleaseFails(r, x) ==
  /\ Fault
  /\ pc[r] = "release" /\ x \in waiting[r]
  /\ waiting' = [waiting EXCEPT ![r] = @ \ {x}]
  /\ held' = [held EXCEPT ![r] = @ \ {x}]
  /\ outcome' = [outcome EXCEPT ![r] = IF @ \in Limits THEN "error" ELSE @]
  /\ \/ UNCHANGED <<cooldowns, counters>>
     \/ /\ x \in Limits
        /\ counters' = AfterDecrement(r, x) /\ UNCHANGED cooldowns
     \/ /\ x = "cooldown"
        /\ cooldowns' = AfterDeletingCooldown(r) /\ UNCHANGED counters
  /\ UNCHANGED <<clock, pc, startedAt, over>>

EndRelease(r) ==
  /\ waiting[r] = {}
  /\ Goto(r, "release", "done")
  /\ Forget(r)
  /\ UNCHANGED <<clock, cooldowns, counters, startedAt, held, outcome, faults>>

-----------------------------------------------------------------------------
(* The environment: crashes, the TTL index, time.                          *)

\* The process serving the request dies: nothing is released, now or later.
ProcessDies(r) ==
  /\ Fault
  /\ pc[r] \notin {"idle", "sent", "done", "dead"}
  /\ pc' = [pc EXCEPT ![r] = "dead"]
  /\ Forget(r)
  /\ UNCHANGED <<clock, cooldowns, counters, startedAt, held, outcome>>

PurgeCooldown(j) ==
  /\ cooldowns[j].claim # NoOne /\ cooldowns[j].endsAt <= clock
  /\ cooldowns' = [cooldowns EXCEPT ![j] = NoCooldown]
  /\ UNCHANGED <<clock, counters, pc, startedAt, waiting, over, held, outcome,
                 faults>>

PurgeCounter(b) ==
  /\ counters[b] # 0 /\ WindowEnd(b[3]) <= clock
  /\ \/ PurgeOvertakes
     \/ \A r \in Requests :
          pc[r] \in {"claim", "count"} => Window(startedAt[r]) # b[3]
  /\ counters' = [counters EXCEPT ![b] = 0]
  /\ UNCHANGED <<clock, cooldowns, pc, startedAt, waiting, over, held, outcome,
                 faults>>

Tick ==
  /\ clock < MaxClock
  /\ clock' = clock + 1
  /\ UNCHANGED <<cooldowns, counters, pc, startedAt, waiting, over, held,
                 outcome, faults>>

-----------------------------------------------------------------------------

Reserve(r) ==
  \/ Start(r) \/ ClaimCooldown(r) \/ CooldownRefuses(r) \/ ReadRunning(r)
  \/ ClaimFails(r)
  \/ \E l \in Limits : Increment(r, l) \/ IncrementFails(r, l)
  \/ AbandonFailed(r) \/ Refuse(r) \/ Allow(r)

Release(r) ==
  \/ DeleteCooldown(r)
  \/ \E l \in Limits : Decrement(r, l)
  \/ \E x \in Releases : ReleaseFails(r, x)
  \/ EndRelease(r)

Caller(r) == SendSucceeds(r) \/ SendFails(r)

Environment ==
  \/ \E r \in Requests : ProcessDies(r)
  \/ \E j \in Journeys : PurgeCooldown(j)
  \/ \E b \in Buckets : PurgeCounter(b)
  \/ Tick

Next == (\E r \in Requests : Reserve(r) \/ Caller(r) \/ Release(r))
          \/ Environment

Spec == Init /\ [][Next]_vars

-----------------------------------------------------------------------------
(* Properties.                                                             *)

Granted == {r \in Requests : outcome[r] = "allowed"}

\* No more requests are allowed to send in a window than a limit's maximum,
\* however their increments interleave, and whatever fails or is released
\* meanwhile: "concurrent requests can't overshoot a limit".
CapHolds ==
  \A b \in Buckets :
    Cardinality({r \in Granted : Bucket(r, b[1]) = b}) <= MaxSends[b[1]]

\* The requests whose cooldown is meant to keep the journey waiting: allowed,
\* or still counting.
Holding == {r \in Requests : pc[r] = "count" \/ outcome[r] = "allowed"}

\* Of the requests a journey has in hand or has been allowed, at most one is
\* within its cooldown.  It takes three to break: one that releases late must
\* not clear the cooldown a second has claimed since, and so let in a third.
CooldownSpacing ==
  \A r, s \in Holding :
    r # s /\ JourneyOf[r] = JourneyOf[s]
      => startedAt[r] + Cooldown <= clock \/ startedAt[s] + Cooldown <= clock

AtRest == \A r \in Requests : pc[r] \in {"idle", "sent", "done"}

\* "A refused or failed request uses up no quota and doesn't start a cooldown":
\* with every request at rest and no fault so far, an open window's counter is
\* exactly the number of emails it let go, and a cooldown belongs to one.
QuotaExact ==
  AtRest /\ faults = 0 =>
    /\ \A b \in Buckets :
         WindowEnd(b[3]) > clock =>
           counters[b] = Cardinality({r \in Requests :
                                        pc[r] = "sent" /\ Bucket(r, b[1]) = b})
    /\ \A j \in Journeys :
         cooldowns[j].claim # NoOne => pc[cooldowns[j].claim] = "sent"

\* The limiter implements the atomic quota: a decision that took up to five
\* operations, with other requests in between, is one of SendQuota's.
Quota == INSTANCE SendQuota
  WITH grants <- [r \in Requests |->
                    IF outcome[r] = "allowed" THEN startedAt[r] ELSE NotGranted]

ImplementsQuota == Quota!Spec

\* README.md, of RATE_LIMITED: "A cap on emails per address, per journey or
\* overall was reached".  With every request at rest and no fault, one that was
\* refused for a limit shared its window with as many requests as the limit
\* allows, each of which was allowed, even if it was undone later.
RefusedOnlyWhenCapReached ==
  AtRest /\ faults = 0 =>
    \A r \in Requests, l \in Limits :
      outcome[r] = l =>
        Cardinality({s \in Requests : /\ outcome[s] \in {"allowed", "undone"}
                                      /\ Bucket(s, l) = Bucket(r, l)})
          >= MaxSends[l]

=============================================================================
