-------------------------- MODULE RateLimiter_proofs --------------------------
(***************************************************************************)
(* Theorems about RateLimiter, for any finite set of requests, any         *)
(* journeys, addresses, limits, cooldown and window.                       *)
(***************************************************************************)
EXTENDS RateLimiter, FiniteSetTheorems, TLAPS

-----------------------------------------------------------------------------
(* Facts about the constants and the buckets.                              *)

LEMMA Constants ==
  /\ IsFiniteSet(Requests)
  /\ \A r \in Requests : JourneyOf[r] \in Journeys
  /\ \A l \in Limits : MaxSends[l] \in Nat \ {0}
  /\ Cooldown \in Nat \ {0}
  /\ WindowLength \in Nat \ {0}
  /\ MaxClock \in Nat
  /\ NoOne \notin Requests
  /\ NotGranted \notin Nat
  /\ "cooldown" \notin Limits
  /\ Limits \subseteq Releases
BY RequestsAssumption, SettingsAssumption, LimiterAssumption
   DEF Limits, Releases

\* A time in a window is before the end of the window.
LEMMA BeforeWindowEnd ==
  ASSUME NEW t \in Nat
  PROVE  t < WindowEnd(Window(t))
<1>1. WindowLength \in Nat /\ WindowLength > 0
  BY Constants
<1>2. QED
  BY <1>1, Z3 DEF WindowEnd, Window

\* A request's counter documents are among the buckets, one for each limit.
LEMMA BucketType ==
  ASSUME NEW r \in Requests, NEW l \in Limits, NEW t \in Times
  PROVE  /\ BucketAt(r, l, t) \in Buckets
         /\ BucketAt(r, l, t)[1] = l
         /\ BucketAt(r, l, t)[3] = Window(t)
BY DEF BucketAt, Buckets, Windows

LEMMA BucketLimit ==
  ASSUME NEW b \in Buckets
  PROVE  b[1] \in Limits /\ WindowEnd(b[3]) \in Int
<1>1. PICK r \in Requests, l \in Limits, w \in Windows : b = <<l, Key(r, l), w>>
  BY DEF Buckets
<1>2. PICK t \in Times : w = Window(t)
  BY <1>1 DEF Windows
<1>3. w \in Int /\ WindowLength \in Int
  BY <1>2, Constants DEF Window, Times
<1>4. WindowEnd(w) \in Int
  BY <1>3 DEF WindowEnd
<1>5. QED
  BY <1>1, <1>4

-----------------------------------------------------------------------------

LEMMA InitType == Init => TypeOK
BY Constants DEF Init, TypeOK, Times, NoCooldown, Steps, Outcomes

LEMMA NextType == TypeOK /\ [Next]_vars => TypeOK'
<1> SUFFICES ASSUME TypeOK, [Next]_vars
             PROVE  TypeOK'
  OBVIOUS
<1> USE Constants DEF TypeOK, Steps, Outcomes, Times
<1>1. ASSUME NEW r \in Requests, Reserve(r)
      PROVE  TypeOK'
  <2>1. CASE Start(r)
    BY <2>1 DEF Start, Goto
  <2>2. CASE ClaimCooldown(r)
    BY <2>2 DEF ClaimCooldown, Goto, OwnCooldown, Releases
  <2>3. CASE CooldownRefuses(r)
    BY <2>3 DEF CooldownRefuses, Goto
  <2>4. CASE ReadRunning(r)
    BY <2>4 DEF ReadRunning, Goto
  <2>5. CASE ClaimFails(r)
    <3>1. OwnCooldown(r) \in [claim : Requests \cup {NoOne}, endsAt : Nat]
      BY DEF OwnCooldown
    <3>2. cooldowns' \in [Journeys -> [claim : Requests \cup {NoOne}, endsAt : Nat]]
      BY <2>5, <3>1 DEF ClaimFails
    <3>3. pc' \in [Requests -> Steps] /\ faults' \in Nat
      BY <2>5 DEF ClaimFails, Goto, Fault
    <3>4. outcome' \in [Requests -> Outcomes]
      BY <2>5 DEF ClaimFails
    <3>5. UNCHANGED <<clock, counters, startedAt, waiting, over, held>>
      BY <2>5 DEF ClaimFails
    <3>6. QED
      BY <3>2, <3>3, <3>4, <3>5
  <2>6. ASSUME NEW l \in Limits, Increment(r, l)
        PROVE  TypeOK'
    <3>1. Bucket(r, l) \in Buckets
      BY BucketType DEF Bucket
    <3>2. QED
      BY <2>6, <3>1 DEF Increment
  <2>7. ASSUME NEW l \in Limits, IncrementFails(r, l)
        PROVE  TypeOK'
    <3>1. Bucket(r, l) \in Buckets
      BY BucketType DEF Bucket
    <3>2. QED
      BY <2>7, <3>1 DEF IncrementFails, Fault
  <2>8. CASE AbandonFailed(r)
    BY <2>8 DEF AbandonFailed, Goto, ReleaseSet, Releases
  <2>9. CASE Refuse(r)
    BY <2>9 DEF Refuse, Goto, ReleaseSet, Releases
  <2>10. CASE Allow(r)
    BY <2>10 DEF Allow, Goto
  <2>11. QED
    BY <1>1, <2>1, <2>2, <2>3, <2>4, <2>5, <2>6, <2>7, <2>8, <2>9, <2>10
       DEF Reserve
<1>2. ASSUME NEW r \in Requests, Caller(r)
      PROVE  TypeOK'
  BY <1>2 DEF Caller, SendSucceeds, SendFails, Goto, ReleaseSet, Releases
<1>3. ASSUME NEW r \in Requests, Release(r)
      PROVE  TypeOK'
  <2>1. CASE DeleteCooldown(r)
    BY <2>1 DEF DeleteCooldown, AfterDeletingCooldown, NoCooldown
  <2>2. ASSUME NEW l \in Limits, Decrement(r, l)
        PROVE  TypeOK'
    <3>1. Bucket(r, l) \in Buckets
      BY BucketType DEF Bucket
    <3>2. AfterDecrement(r, l) \in [Buckets -> Nat]
      BY <3>1 DEF AfterDecrement
    <3>3. QED
      BY <2>2, <3>2 DEF Decrement
  <2>3. ASSUME NEW x \in Releases, ReleaseFails(r, x)
        PROVE  TypeOK'
    <3>1. counters' \in [Buckets -> Nat]
      <4>1. CASE UNCHANGED counters
        BY <4>1
      <4>2. CASE x \in Limits /\ counters' = AfterDecrement(r, x)
        <5>1. Bucket(r, x) \in Buckets
          BY <4>2, BucketType DEF Bucket
        <5>2. QED
          BY <4>2, <5>1 DEF AfterDecrement
      <4>3. QED
        BY <2>3, <4>1, <4>2 DEF ReleaseFails
    <3>2. \/ UNCHANGED cooldowns
          \/ cooldowns' = AfterDeletingCooldown(r)
      BY <2>3 DEF ReleaseFails
    <3>3. QED
      BY <2>3, <3>1, <3>2
         DEF ReleaseFails, Fault, AfterDeletingCooldown, NoCooldown
  <2>4. CASE EndRelease(r)
    BY <2>4 DEF EndRelease, Goto, Forget
  <2>5. QED
    BY <1>3, <2>1, <2>2, <2>3, <2>4 DEF Release
<1>4. CASE Environment
  <2>1. ASSUME NEW r \in Requests, ProcessDies(r)
        PROVE  TypeOK'
    BY <2>1 DEF ProcessDies, Fault, Forget
  <2>2. ASSUME NEW j \in Journeys, PurgeCooldown(j)
        PROVE  TypeOK'
    BY <2>2 DEF PurgeCooldown, NoCooldown
  <2>3. ASSUME NEW b \in Buckets, PurgeCounter(b)
        PROVE  TypeOK'
    BY <2>3 DEF PurgeCounter
  <2>4. CASE Tick
    BY <2>4 DEF Tick
  <2>5. QED
    BY <1>4, <2>1, <2>2, <2>3, <2>4 DEF Environment
<1>5. CASE UNCHANGED vars
  BY <1>5 DEF vars
<1>6. QED
  BY <1>1, <1>2, <1>3, <1>4, <1>5 DEF Next

\* Every variable keeps its shape, and no request is ever ahead of the clock.
THEOREM TypeCorrect == Spec => []TypeOK
<1>1. QED
  BY InitType, NextType, PTL DEF Spec

-----------------------------------------------------------------------------
(* What a request holds at each point of its call.                         *)

\* A request that has not started counting holds nothing; one that counts
\* holds what its increments returned; an allowed one holds all three
\* counters, none above its maximum; a releasing one is not allowed any more.
HoldsAt(r) ==
  /\ pc[r] \in {"idle", "claim", "refused"} =>
       held[r] = {} /\ over[r] = {} /\ outcome[r] = "none"
  /\ pc[r] = "count" =>
       /\ waiting[r] \subseteq Limits
       /\ waiting[r] \cap held[r] = {}
       /\ over[r] \subseteq held[r]
       /\ outcome[r] = "none"
  /\ pc[r] = "reserved" => outcome[r] = "allowed"
  /\ pc[r] = "release" =>
       /\ outcome[r] # "allowed"
       /\ waiting[r] \cap Limits \subseteq held[r]
  /\ outcome[r] = "allowed" =>
       /\ pc[r] \in {"reserved", "sent", "dead"}
       /\ held[r] = Limits
       /\ over[r] = {}

HoldsInv == TypeOK /\ \A r \in Requests : HoldsAt(r)

LEMMA InitHolds == Init => HoldsInv
BY InitType DEF Init, HoldsInv, HoldsAt

LEMMA NextHolds == HoldsInv /\ [Next]_vars => HoldsInv'
<1> SUFFICES ASSUME HoldsInv, [Next]_vars
             PROVE  \A q \in Requests : HoldsAt(q)'
  BY NextType DEF HoldsInv
<1> TAKE q \in Requests
<1>0. TypeOK /\ HoldsAt(q)
  BY DEF HoldsInv
<1> USE <1>0 DEF TypeOK, HoldsAt
<1>1. ASSUME NEW r \in Requests, Reserve(r)
      PROVE  HoldsAt(q)'
  <2>1. CASE Start(r)
    BY <2>1 DEF Start, Goto
  <2>2. CASE ClaimCooldown(r)
    BY <2>2 DEF ClaimCooldown, Goto, OwnCooldown
  <2>3. CASE CooldownRefuses(r)
    BY <2>3 DEF CooldownRefuses, Goto
  <2>4. CASE ReadRunning(r)
    BY <2>4 DEF ReadRunning, Goto
  <2>5. CASE ClaimFails(r)
    BY <2>5 DEF ClaimFails, Goto
  <2>6. ASSUME NEW l \in Limits, Increment(r, l)
        PROVE  HoldsAt(q)'
    BY <2>6 DEF Increment
  <2>7. ASSUME NEW l \in Limits, IncrementFails(r, l)
        PROVE  HoldsAt(q)'
    BY <2>7 DEF IncrementFails
  <2>8. CASE AbandonFailed(r)
    BY <2>8 DEF AbandonFailed, Goto, ReleaseSet, Limits
  <2>9. CASE Refuse(r)
    BY <2>9 DEF Refuse, Goto, ReleaseSet, Limits
  <2>10. CASE Allow(r)
    BY <2>10 DEF Allow, Goto
  <2>11. QED
    BY <1>1, <2>1, <2>2, <2>3, <2>4, <2>5, <2>6, <2>7, <2>8, <2>9, <2>10
       DEF Reserve
<1>2. ASSUME NEW r \in Requests, Caller(r)
      PROVE  HoldsAt(q)'
  BY <1>2 DEF Caller, SendSucceeds, SendFails, Goto, ReleaseSet, Limits
<1>3. ASSUME NEW r \in Requests, Release(r)
      PROVE  HoldsAt(q)'
  <2>1. CASE DeleteCooldown(r)
    BY <2>1 DEF DeleteCooldown
  <2>2. ASSUME NEW l \in Limits, Decrement(r, l)
        PROVE  HoldsAt(q)'
    BY <2>2 DEF Decrement
  <2>3. ASSUME NEW x \in Releases, ReleaseFails(r, x)
        PROVE  HoldsAt(q)'
    BY <2>3 DEF ReleaseFails
  <2>4. CASE EndRelease(r)
    BY <2>4 DEF EndRelease, Goto, Forget
  <2>5. QED
    BY <1>3, <2>1, <2>2, <2>3, <2>4 DEF Release
<1>4. CASE Environment
  <2>1. ASSUME NEW r \in Requests, ProcessDies(r)
        PROVE  HoldsAt(q)'
    BY <2>1 DEF ProcessDies, Forget
  <2>2. ASSUME NEW j \in Journeys, PurgeCooldown(j)
        PROVE  HoldsAt(q)'
    BY <2>2 DEF PurgeCooldown
  <2>3. ASSUME NEW b \in Buckets, PurgeCounter(b)
        PROVE  HoldsAt(q)'
    BY <2>3 DEF PurgeCounter
  <2>4. CASE Tick
    BY <2>4 DEF Tick
  <2>5. QED
    BY <1>4, <2>1, <2>2, <2>3, <2>4 DEF Environment
<1>5. CASE UNCHANGED vars
  BY <1>5 DEF vars
<1>6. QED
  BY <1>1, <1>2, <1>3, <1>4, <1>5 DEF Next

-----------------------------------------------------------------------------
(* The cooldown.                                                           *)

\* While the cooldown of a request that holds one has not run out, the
\* journey's document is its own.
CooldownIsOwn ==
  \A r \in Holding :
    \/ startedAt[r] + Cooldown <= clock
    \/ cooldowns[JourneyOf[r]] = OwnCooldown(r)

CooldownInv == HoldsInv /\ CooldownIsOwn

LEMMA InitCooldown == Init => CooldownInv
BY InitHolds DEF Init, CooldownInv, CooldownIsOwn, Holding

\* A cooldown is replaced only once it has run out, by the claimant's clock
\* and therefore by everybody's.
LEMMA ClaimKeepsOwn ==
  ASSUME CooldownInv, NEW r \in Requests, CooldownFree(r),
         NEW q \in Holding, JourneyOf[q] = JourneyOf[r]
  PROVE  startedAt[q] + Cooldown <= clock
<1>1. q \in Requests /\ q # NoOne
  BY Constants DEF Holding
<1>2. startedAt[r] <= clock /\ startedAt[r] \in Int /\ clock \in Int
        /\ startedAt[q] \in Int /\ Cooldown \in Int
  BY <1>1, Constants DEF CooldownInv, HoldsInv, TypeOK, Times
<1>3. CASE cooldowns[JourneyOf[q]] = OwnCooldown(q)
  BY <1>1, <1>2, <1>3 DEF CooldownFree, OwnCooldown
<1>4. QED
  BY <1>3 DEF CooldownInv, CooldownIsOwn

LEMMA NextCooldown == CooldownInv /\ [Next]_vars => CooldownInv'
<1> SUFFICES ASSUME CooldownInv, [Next]_vars, NEW q \in Holding'
             PROVE  \/ (startedAt[q] + Cooldown <= clock)'
                    \/ (cooldowns[JourneyOf[q]] = OwnCooldown(q))'
  BY NextHolds DEF CooldownInv, CooldownIsOwn
<1> DEFINE Expired == startedAt[q] + Cooldown <= clock
           Own == cooldowns[JourneyOf[q]] = OwnCooldown(q)
<1>0. /\ TypeOK /\ q \in Requests /\ HoldsAt(q)
      /\ q \in Holding => Expired \/ Own
  BY DEF CooldownInv, CooldownIsOwn, HoldsInv, Holding
<1>t. /\ clock \in Int /\ startedAt[q] \in Int /\ Cooldown \in Int
      /\ JourneyOf[q] \in Journeys /\ q # NoOne
  BY <1>0, Constants DEF TypeOK, Times
<1> USE <1>0, <1>t DEF TypeOK, HoldsAt, Holding
<1>1. ASSUME NEW r \in Requests, Reserve(r)
      PROVE  Expired' \/ Own'
  <2>1. CASE Start(r)
    BY <2>1 DEF Start, Goto, OwnCooldown
  <2>2. CASE ClaimCooldown(r)
    <3>1. CASE q = r
      BY <2>2, <3>1 DEF ClaimCooldown, Goto, OwnCooldown
    <3>2. CASE q # r /\ JourneyOf[q] # JourneyOf[r]
      BY <2>2, <3>2 DEF ClaimCooldown, Goto, OwnCooldown
    <3>3. CASE q # r /\ JourneyOf[q] = JourneyOf[r]
      <4>1. q \in Holding
        BY <2>2, <3>3 DEF ClaimCooldown, Goto
      <4>2. Expired
        BY <2>2, <3>3, <4>1, ClaimKeepsOwn DEF ClaimCooldown
      <4>3. QED
        BY <2>2, <4>2 DEF ClaimCooldown
    <3>4. QED
      BY <3>1, <3>2, <3>3
  <2>3. CASE CooldownRefuses(r)
    BY <2>3 DEF CooldownRefuses, Goto, OwnCooldown
  <2>4. CASE ReadRunning(r)
    BY <2>4 DEF ReadRunning, Goto, OwnCooldown
  <2>5. CASE ClaimFails(r)
    <3>1. q \in Holding /\ UNCHANGED <<startedAt, clock>>
      BY <2>5 DEF ClaimFails, Goto
    <3>2. CASE UNCHANGED cooldowns
      BY <2>5, <3>1, <3>2 DEF ClaimFails, OwnCooldown
    <3>3. CASE /\ CooldownFree(r)
               /\ cooldowns' = [cooldowns EXCEPT
                                  ![JourneyOf[r]] = OwnCooldown(r)]
      <4>1. CASE JourneyOf[q] = JourneyOf[r]
        BY <3>1, <3>3, <4>1, ClaimKeepsOwn
      <4>2. CASE JourneyOf[q] # JourneyOf[r]
        BY <3>1, <3>3, <4>2 DEF OwnCooldown
      <4>3. QED
        BY <4>1, <4>2
    <3>4. QED
      BY <2>5, <3>2, <3>3 DEF ClaimFails
  <2>6. ASSUME NEW l \in Limits, Increment(r, l)
        PROVE  Expired' \/ Own'
    BY <2>6 DEF Increment, OwnCooldown
  <2>7. ASSUME NEW l \in Limits, IncrementFails(r, l)
        PROVE  Expired' \/ Own'
    BY <2>7 DEF IncrementFails, OwnCooldown
  <2>8. CASE AbandonFailed(r)
    BY <2>8 DEF AbandonFailed, Goto, OwnCooldown
  <2>9. CASE Refuse(r)
    BY <2>9 DEF Refuse, Goto, OwnCooldown, Limits
  <2>10. CASE Allow(r)
    BY <2>10 DEF Allow, Goto, OwnCooldown
  <2>11. QED
    BY <1>1, <2>1, <2>2, <2>3, <2>4, <2>5, <2>6, <2>7, <2>8, <2>9, <2>10
       DEF Reserve
<1>2. ASSUME NEW r \in Requests, Caller(r)
      PROVE  Expired' \/ Own'
  BY <1>2 DEF Caller, SendSucceeds, SendFails, Goto, OwnCooldown
<1>3. ASSUME NEW r \in Requests, Release(r)
      PROVE  Expired' \/ Own'
  <2>1. CASE DeleteCooldown(r)
    \* A releasing request holds no cooldown, so it cannot delete q's.
    <3>1. q # r /\ q \in Holding
      BY <2>1 DEF DeleteCooldown
    <3>2. CASE Own
      BY <2>1, <3>1, <3>2 DEF DeleteCooldown, AfterDeletingCooldown, OwnCooldown
    <3>3. CASE Expired
      BY <2>1, <3>3 DEF DeleteCooldown
    <3>4. QED
      BY <3>1, <3>2, <3>3
  <2>2. ASSUME NEW l \in Limits, Decrement(r, l)
        PROVE  Expired' \/ Own'
    BY <2>2 DEF Decrement, OwnCooldown
  <2>3. ASSUME NEW x \in Releases, ReleaseFails(r, x)
        PROVE  Expired' \/ Own'
    <3>1. q # r /\ q \in Holding
      BY <2>3 DEF ReleaseFails
    <3>2. CASE Own
      BY <2>3, <3>1, <3>2 DEF ReleaseFails, AfterDeletingCooldown, OwnCooldown
    <3>3. CASE Expired
      BY <2>3, <3>3 DEF ReleaseFails
    <3>4. QED
      BY <3>1, <3>2, <3>3
  <2>4. CASE EndRelease(r)
    BY <2>4 DEF EndRelease, Goto, OwnCooldown
  <2>5. QED
    BY <1>3, <2>1, <2>2, <2>3, <2>4 DEF Release
<1>4. CASE Environment
  <2>1. ASSUME NEW r \in Requests, ProcessDies(r)
        PROVE  Expired' \/ Own'
    BY <2>1 DEF ProcessDies, OwnCooldown
  <2>2. ASSUME NEW j \in Journeys, PurgeCooldown(j)
        PROVE  Expired' \/ Own'
    BY <2>2 DEF PurgeCooldown, OwnCooldown
  <2>3. ASSUME NEW b \in Buckets, PurgeCounter(b)
        PROVE  Expired' \/ Own'
    BY <2>3 DEF PurgeCounter, OwnCooldown
  <2>4. CASE Tick
    BY <2>4 DEF Tick, OwnCooldown
  <2>5. QED
    BY <1>4, <2>1, <2>2, <2>3, <2>4 DEF Environment
<1>5. CASE UNCHANGED vars
  BY <1>5 DEF vars, OwnCooldown
<1>6. QED
  BY <1>1, <1>2, <1>3, <1>4, <1>5 DEF Next

LEMMA OwnMeansSpaced == CooldownInv => CooldownSpacing
<1> SUFFICES ASSUME CooldownInv, NEW r \in Holding, NEW s \in Holding,
                    r # s, JourneyOf[r] = JourneyOf[s]
             PROVE  \/ startedAt[r] + Cooldown <= clock
                    \/ startedAt[s] + Cooldown <= clock
  BY DEF CooldownSpacing
<1>1. OwnCooldown(r) # OwnCooldown(s)
  BY DEF OwnCooldown
<1>2. QED
  BY <1>1 DEF CooldownInv, CooldownIsOwn

\* At most one of the requests a journey has in hand or has been allowed is
\* within its cooldown, with no assumption on how slow requests are, when the
\* TTL index runs, or which operations and processes fail.
THEOREM SpacedByCooldown == Spec => []CooldownSpacing
<1>1. Spec => []CooldownInv
  BY InitCooldown, NextCooldown, PTL DEF Spec
<1>2. QED
  BY <1>1, OwnMeansSpaced, PTL

-----------------------------------------------------------------------------
(* The caps.                                                               *)

LEMMA SubsetOfRequests ==
  ASSUME NEW S \in SUBSET Requests, NEW T \in SUBSET S
  PROVE  /\ IsFiniteSet(S) /\ Cardinality(S) \in Nat
         /\ IsFiniteSet(T) /\ Cardinality(T) \in Nat
         /\ Cardinality(T) <= Cardinality(S)
<1>1. IsFiniteSet(S)
  BY Constants, FS_Subset
<1>2. IsFiniteSet(T) /\ Cardinality(T) <= Cardinality(S)
  BY <1>1, FS_Subset
<1>3. QED
  BY <1>1, <1>2, FS_CardinalityType

\* One request more, and one less.
LEMMA OneMoreRequest ==
  ASSUME NEW S \in SUBSET Requests, NEW r \in Requests \ S
  PROVE  /\ Cardinality(S \cup {r}) = Cardinality(S) + 1
         /\ Cardinality(S) \in Nat
BY SubsetOfRequests, FS_AddElement

LEMMA OneRequestLess ==
  ASSUME NEW S \in SUBSET Requests, NEW r \in S
  PROVE  /\ Cardinality(S \ {r}) = Cardinality(S) - 1
         /\ Cardinality(S) \in Nat
BY SubsetOfRequests, FS_RemoveElement

\* The requests a bucket's count stands for.
Holders(b) == {r \in Requests : b[1] \in held[r] /\ Bucket(r, b[1]) = b}

\* Those of them that this bucket's limit lets through.
Accepted(b) ==
  {r \in Holders(b) : /\ b[1] \notin over[r]
                      /\ pc[r] = "count" \/ outcome[r] = "allowed"}

\* A window that is over and that nobody will count towards any more: only
\* then may the TTL index have taken the document.
Closed(b) ==
  /\ WindowEnd(b[3]) <= clock
  /\ \A r \in Requests :
       pc[r] \in {"claim", "count"} => Window(startedAt[r]) # b[3]

Counted(b) == Closed(b) \/ Cardinality(Holders(b)) <= counters[b]

Capped(b) == Cardinality(Accepted(b)) <= MaxSends[b[1]]

\* CapHolds is not inductive: what bounds the accepted requests of a bucket
\* is that its count was never below the number of requests holding it.
CapInv == HoldsInv /\ \A b \in Buckets : Counted(b) /\ Capped(b)

LEMMA InitCap == Init => CapInv
<1> SUFFICES ASSUME Init, NEW b \in Buckets
             PROVE  Counted(b) /\ Capped(b)
  BY InitHolds DEF CapInv
<1>1. Holders(b) = {} /\ Accepted(b) = {}
  BY DEF Init, Holders, Accepted
<1>2. Cardinality(Holders(b)) = 0 /\ Cardinality(Accepted(b)) = 0
  BY <1>1, FS_EmptySet
<1>3. MaxSends[b[1]] \in Nat /\ counters[b] = 0
  BY BucketLimit, Constants DEF Init
<1>4. QED
  BY <1>2, <1>3 DEF Counted, Capped

\* The common case of the induction: nobody new holds the bucket, nobody new
\* is accepted, and the count does not fall.
LEMMA NothingTaken ==
  ASSUME CapInv, NEW b \in Buckets, TypeOK',
         Holders(b)' \subseteq Holders(b),
         Accepted(b)' \subseteq Accepted(b),
         counters[b] <= counters'[b],
         Closed(b) => Closed(b)'
  PROVE  Counted(b)' /\ Capped(b)'
<1>1. Holders(b) \subseteq Requests /\ Accepted(b) \subseteq Requests
  BY DEF Holders, Accepted
<1>2. /\ Cardinality(Holders(b)') <= Cardinality(Holders(b))
      /\ Cardinality(Holders(b)') \in Nat /\ Cardinality(Holders(b)) \in Nat
  BY <1>1, SubsetOfRequests
<1>3. /\ Cardinality(Accepted(b)') <= Cardinality(Accepted(b))
      /\ Cardinality(Accepted(b)') \in Nat /\ Cardinality(Accepted(b)) \in Nat
  BY <1>1, SubsetOfRequests
<1>4. /\ counters[b] \in Nat /\ counters'[b] \in Nat /\ MaxSends[b[1]] \in Nat
      /\ Counted(b) /\ Capped(b)
  BY BucketLimit, Constants DEF CapInv, HoldsInv, TypeOK
<1>5. Counted(b)'
  BY <1>2, <1>4 DEF Counted
<1>6. Capped(b)'
  BY <1>3, <1>4 DEF Capped
<1>7. QED
  BY <1>5, <1>6

\* A request that starts now counts towards a window that has not ended, so a
\* closed window stays closed.
LEMMA StaysClosed ==
  ASSUME TypeOK, [Next]_vars, NEW b \in Buckets, Closed(b)
  PROVE  Closed(b)'
<1> USE DEF TypeOK, Closed
<1>1. clock \in Nat /\ Window(clock) # b[3]
  <2>1. clock \in Nat
    BY Constants DEF Times
  <2>2. WindowEnd(b[3]) <= clock /\ WindowEnd(b[3]) \in Int
    BY BucketLimit
  <2>3. clock < WindowEnd(Window(clock))
    BY <2>1, BeforeWindowEnd
  <2>4. QED
    BY <2>1, <2>2, <2>3
<1>2. ASSUME NEW r \in Requests, Start(r)
      PROVE  Closed(b)'
  BY <1>1, <1>2 DEF Start, Goto
<1>3. ASSUME NEW r \in Requests, Reserve(r), ~Start(r)
      PROVE  Closed(b)'
  BY <1>3 DEF Reserve, ClaimCooldown, CooldownRefuses, ReadRunning, ClaimFails,
              Increment, IncrementFails, AbandonFailed, Refuse, Allow, Goto
<1>4. ASSUME NEW r \in Requests, Caller(r) \/ Release(r)
      PROVE  Closed(b)'
  BY <1>4 DEF Caller, SendSucceeds, SendFails, Release, DeleteCooldown,
              Decrement, ReleaseFails, EndRelease, Goto
<1>5. CASE Environment
  <2>1. CASE Tick
    BY <1>1, <2>1, BucketLimit DEF Tick
  <2>2. CASE ~Tick
    BY <1>5, <2>2 DEF Environment, ProcessDies, PurgeCooldown, PurgeCounter
  <2>3. QED
    BY <2>1, <2>2
<1>6. CASE UNCHANGED vars
  BY <1>6 DEF vars
<1>7. QED
  BY <1>2, <1>3, <1>4, <1>5, <1>6 DEF Next

\* The step that matters: the count an increment returns is at least the
\* number of requests that then hold the bucket, so a request that is not
\* over the maximum finds at most the maximum of them there, itself included.
LEMMA IncrementCapped ==
  ASSUME CapInv, CapInv => TypeOK', NEW r \in Requests, NEW l \in Limits,
         Increment(r, l), [Next]_vars, NEW b \in Buckets
  PROVE  Counted(b)' /\ Capped(b)'
<1>0. TypeOK /\ TypeOK' /\ \A q \in Requests : HoldsAt(q)
  BY DEF CapInv, HoldsInv
<1> USE <1>0 DEF TypeOK
<1>1. CASE b # Bucket(r, l)
  <2>1. Holders(b)' \subseteq Holders(b)
    BY <1>1 DEF Increment, Holders, Bucket
  <2>2. Accepted(b)' \subseteq Accepted(b)
    BY <1>1 DEF Increment, Accepted, Holders, Bucket
  <2>3. counters[b] <= counters'[b]
    BY <1>1 DEF Increment
  <2>4. QED
    BY <2>1, <2>2, <2>3, StaysClosed, NothingTaken
<1>2. CASE b = Bucket(r, l)
  <2>1. b[1] = l /\ b[3] = Window(startedAt[r])
    BY <1>2, BucketType DEF Bucket
  <2>2. ~Closed(b)
    BY <2>1 DEF Closed, Increment
  <2>3. l \notin held[r]
    BY DEF HoldsAt, Increment
  <2>4. Holders(b)' = Holders(b) \cup {r}
    BY <1>2, <2>1 DEF Holders, Increment, Bucket
  <2>5. r \notin Holders(b)
    BY <2>1, <2>3 DEF Holders
  <2>6. Holders(b) \subseteq Requests /\ IsFiniteSet(Holders(b))
    BY SubsetOfRequests DEF Holders
  <2>7. /\ Cardinality(Holders(b)') = Cardinality(Holders(b)) + 1
        /\ Cardinality(Holders(b)) \in Nat
    BY <2>4, <2>5, <2>6, OneMoreRequest
  <2>8. counters[b] \in Nat /\ counters'[b] = counters[b] + 1
    BY <1>2 DEF Increment
  <2>9. Cardinality(Holders(b)) <= counters[b]
    BY <2>2 DEF CapInv, Counted
  <2>10. Counted(b)'
    BY <2>7, <2>8, <2>9 DEF Counted
  <2>11. Capped(b)'
    <3>1. CASE Exceeds(counters[b] + 1, l)
      <4>1. l \in over'[r]
        BY <1>2, <3>1 DEF Increment
      <4>2. Accepted(b)' \subseteq Accepted(b)
        BY <1>2, <2>1, <2>4, <4>1 DEF Accepted, Increment
      <4>3. Accepted(b) \subseteq Requests
        BY DEF Accepted, Holders
      <4>4. /\ Cardinality(Accepted(b)') <= Cardinality(Accepted(b))
            /\ Cardinality(Accepted(b)') \in Nat
            /\ Cardinality(Accepted(b)) \in Nat
        BY <4>2, <4>3, SubsetOfRequests
      <4>5. Capped(b) /\ MaxSends[b[1]] \in Nat
        BY BucketLimit, Constants DEF CapInv
      <4>6. QED
        BY <4>4, <4>5 DEF Capped
    <3>2. CASE ~Exceeds(counters[b] + 1, l)
      <4>1. counters[b] + 1 <= MaxSends[l] /\ MaxSends[l] \in Nat
        BY <2>8, <3>2, Constants DEF Exceeds
      <4>2. Accepted(b)' \subseteq Holders(b)' /\ Holders(b)' \subseteq Requests
        BY DEF Accepted, Holders
      <4>3. /\ Cardinality(Accepted(b)') <= Cardinality(Holders(b)')
            /\ Cardinality(Accepted(b)') \in Nat
        BY <4>2, SubsetOfRequests
      <4>4. QED
        BY <2>1, <2>7, <2>8, <2>9, <4>1, <4>3 DEF Capped
    <3>3. QED
      BY <3>1, <3>2
  <2>12. QED
    BY <2>10, <2>11
<1>3. QED
  BY <1>1, <1>2

\* A decrement that is applied, whether its answer is heard or not.
GivenBack(r, l) ==
  /\ pc[r] = "release" /\ l \in waiting[r]
  /\ counters' = AfterDecrement(r, l)
  /\ held' = [held EXCEPT ![r] = @ \ {l}]
  /\ \A q \in Requests : outcome'[q] = "allowed" => outcome[q] = "allowed"
  /\ UNCHANGED <<pc, startedAt, over>>

\* A decrement takes its own request from the holders, so the count may fall.
LEMMA DecrementCapped ==
  ASSUME CapInv, CapInv => TypeOK', NEW r \in Requests, NEW l \in Limits,
         GivenBack(r, l), [Next]_vars, NEW b \in Buckets
  PROVE  Counted(b)' /\ Capped(b)'
<1>0. TypeOK /\ TypeOK' /\ \A q \in Requests : HoldsAt(q)
  BY DEF CapInv, HoldsInv
<1> USE <1>0 DEF TypeOK
<1>1. Holders(b)' \subseteq Holders(b) /\ Accepted(b)' \subseteq Accepted(b)
  BY DEF GivenBack, Accepted, Holders, Bucket
<1>2. CASE counters[b] <= counters'[b]
  BY <1>1, <1>2, StaysClosed, NothingTaken
<1>3. CASE ~(counters[b] <= counters'[b])
  <2>1. b = Bucket(r, l) /\ counters'[b] = counters[b] - 1
    BY <1>3 DEF GivenBack, AfterDecrement
  <2>2. b[1] = l
    BY <2>1, BucketType DEF Bucket
  <2>3. r \in Holders(b) /\ Holders(b)' = Holders(b) \ {r}
    BY <2>1, <2>2 DEF GivenBack, HoldsAt, Holders, Bucket
  <2>4. Holders(b) \subseteq Requests /\ IsFiniteSet(Holders(b))
    BY SubsetOfRequests DEF Holders
  <2>5. /\ Cardinality(Holders(b)') = Cardinality(Holders(b)) - 1
        /\ Cardinality(Holders(b)) \in Nat
    BY <2>3, <2>4, OneRequestLess
  <2>6. Closed(b) => Closed(b)'
    BY StaysClosed
  <2>7. Counted(b)'
    BY <2>1, <2>5, <2>6 DEF CapInv, Counted
  <2>8. Accepted(b) \subseteq Requests
    BY DEF Accepted, Holders
  <2>9. /\ Cardinality(Accepted(b)') <= Cardinality(Accepted(b))
        /\ Cardinality(Accepted(b)') \in Nat
        /\ Cardinality(Accepted(b)) \in Nat
    BY <1>1, <2>8, SubsetOfRequests
  <2>10. Capped(b) /\ MaxSends[b[1]] \in Nat
    BY BucketLimit, Constants DEF CapInv
  <2>11. QED
    BY <2>7, <2>9, <2>10 DEF Capped
<1>4. QED
  BY <1>2, <1>3

\* Whoever is yet to count is still in the window of the `now` it captured.
InTime ==
  \A r \in Requests :
    pc[r] \in {"claim", "count"} => clock < WindowEnd(Window(startedAt[r]))

LEMMA NextCap ==
  ASSUME CapInv, [Next]_vars, ~PurgeOvertakes \/ InTime
  PROVE  CapInv'
<1> SUFFICES ASSUME NEW b \in Buckets
             PROVE  Counted(b)' /\ Capped(b)'
  BY NextHolds DEF CapInv
<1>0. TypeOK /\ TypeOK' /\ \A q \in Requests : HoldsAt(q)
  BY NextHolds DEF CapInv, HoldsInv
<1> DEFINE Quiet == /\ Holders(b)' \subseteq Holders(b)
                    /\ Accepted(b)' \subseteq Accepted(b)
                    /\ counters[b] <= counters'[b]
<1>q. Quiet => Counted(b)' /\ Capped(b)'
  BY <1>0, StaysClosed, NothingTaken
<1> USE <1>0 DEF TypeOK, Holders, Accepted, Bucket
<1>1. ASSUME NEW r \in Requests, Reserve(r)
      PROVE  Counted(b)' /\ Capped(b)'
  <2>1. CASE Start(r)
    <3>1. Quiet
      BY <2>1 DEF Start, Goto, HoldsAt
    <3>2. QED
      BY <3>1, <1>q
  <2>2. CASE ClaimCooldown(r)
    <3>1. Quiet
      BY <2>2 DEF ClaimCooldown, Goto, HoldsAt
    <3>2. QED
      BY <3>1, <1>q
  <2>3. CASE CooldownRefuses(r)
    <3>1. Quiet
      BY <2>3 DEF CooldownRefuses, Goto
    <3>2. QED
      BY <3>1, <1>q
  <2>4. CASE ReadRunning(r)
    <3>1. Quiet
      BY <2>4 DEF ReadRunning, Goto
    <3>2. QED
      BY <3>1, <1>q
  <2>5. CASE ClaimFails(r)
    <3>1. Quiet
      BY <2>5 DEF ClaimFails, Goto
    <3>2. QED
      BY <3>1, <1>q
  <2>6. ASSUME NEW l \in Limits, Increment(r, l)
        PROVE  Counted(b)' /\ Capped(b)'
    BY <2>6, IncrementCapped
  <2>7. ASSUME NEW l \in Limits, IncrementFails(r, l)
        PROVE  Counted(b)' /\ Capped(b)'
    <3>1. Quiet
      BY <2>7 DEF IncrementFails
    <3>2. QED
      BY <3>1, <1>q
  <2>8. CASE AbandonFailed(r)
    <3>1. Quiet
      BY <2>8 DEF AbandonFailed, Goto
    <3>2. QED
      BY <3>1, <1>q
  <2>9. CASE Refuse(r)
    <3>1. Quiet
      BY <2>9 DEF Refuse, Goto, Limits
    <3>2. QED
      BY <3>1, <1>q
  <2>10. CASE Allow(r)
    <3>1. Quiet
      BY <2>10 DEF Allow, Goto
    <3>2. QED
      BY <3>1, <1>q
  <2>11. QED
    BY <1>1, <2>1, <2>2, <2>3, <2>4, <2>5, <2>6, <2>7, <2>8, <2>9, <2>10
       DEF Reserve
<1>2. ASSUME NEW r \in Requests, Caller(r)
      PROVE  Counted(b)' /\ Capped(b)'
  <2>1. Quiet
    BY <1>2 DEF Caller, SendSucceeds, SendFails, Goto
  <2>2. QED
    BY <2>1, <1>q
<1>3. ASSUME NEW r \in Requests, Release(r)
      PROVE  Counted(b)' /\ Capped(b)'
  <2>1. CASE DeleteCooldown(r)
    <3>1. Quiet
      BY <2>1 DEF DeleteCooldown
    <3>2. QED
      BY <3>1, <1>q
  <2>2. ASSUME NEW l \in Limits, Decrement(r, l)
        PROVE  Counted(b)' /\ Capped(b)'
    <3>1. GivenBack(r, l)
      BY <2>2 DEF Decrement, GivenBack
    <3>2. QED
      BY <3>1, DecrementCapped
  <2>3. ASSUME NEW x \in Releases, ReleaseFails(r, x)
        PROVE  Counted(b)' /\ Capped(b)'
    <3>1. CASE UNCHANGED counters
      <4>1. Quiet
        BY <2>3, <3>1 DEF ReleaseFails, Limits
      <4>2. QED
        BY <4>1, <1>q
    <3>2. CASE x \in Limits /\ counters' = AfterDecrement(r, x)
      <4>1. GivenBack(r, x)
        BY <2>3, <3>2 DEF ReleaseFails, GivenBack, Limits
      <4>2. QED
        BY <3>2, <4>1, DecrementCapped
    <3>3. QED
      BY <2>3, <3>1, <3>2 DEF ReleaseFails
  <2>4. CASE EndRelease(r)
    <3>1. Quiet
      BY <2>4 DEF EndRelease, Goto, Forget, HoldsAt
    <3>2. QED
      BY <3>1, <1>q
  <2>5. QED
    BY <1>3, <2>1, <2>2, <2>3, <2>4 DEF Release
<1>4. CASE Environment
  <2>1. ASSUME NEW r \in Requests, ProcessDies(r)
        PROVE  Counted(b)' /\ Capped(b)'
    <3>1. Quiet
      BY <2>1 DEF ProcessDies, Forget, HoldsAt
    <3>2. QED
      BY <3>1, <1>q
  <2>2. ASSUME NEW j \in Journeys, PurgeCooldown(j)
        PROVE  Counted(b)' /\ Capped(b)'
    <3>1. Quiet
      BY <2>2 DEF PurgeCooldown
    <3>2. QED
      BY <3>1, <1>q
  <2>3. ASSUME NEW c \in Buckets, PurgeCounter(c)
        PROVE  Counted(b)' /\ Capped(b)'
    <3>1. CASE c = b
      <4>1. Closed(b)
        <5>1. /\ WindowEnd(b[3]) <= clock
              /\ \/ PurgeOvertakes
                 \/ \A r \in Requests :
                      pc[r] \in {"claim", "count"} => Window(startedAt[r]) # b[3]
          BY <2>3, <3>1 DEF PurgeCounter
        <5>2. WindowEnd(b[3]) \in Int /\ clock \in Nat
          BY BucketLimit DEF Times
        <5>3. InTime => \A r \in Requests :
                pc[r] \in {"claim", "count"} => Window(startedAt[r]) # b[3]
          BY <5>1, <5>2 DEF InTime
        <5>4. QED
          BY <5>1, <5>3 DEF Closed
      <4>2. Closed(b)'
        BY <4>1, StaysClosed
      <4>3. Accepted(b)' = Accepted(b)
        BY <2>3 DEF PurgeCounter
      <4>4. QED
        BY <4>2, <4>3 DEF CapInv, Counted, Capped
    <3>2. CASE c # b
      <4>1. Quiet
        BY <2>3, <3>2 DEF PurgeCounter
      <4>2. QED
        BY <4>1, <1>q
    <3>3. QED
      BY <3>1, <3>2
  <2>4. CASE Tick
    <3>1. Quiet
      BY <2>4 DEF Tick
    <3>2. QED
      BY <3>1, <1>q
  <2>5. QED
    BY <1>4, <2>1, <2>2, <2>3, <2>4 DEF Environment
<1>5. CASE UNCHANGED vars
  <2>1. Quiet
    BY <1>5 DEF vars
  <2>2. QED
    BY <2>1, <1>q
<1>6. QED
  BY <1>1, <1>2, <1>3, <1>4, <1>5 DEF Next

LEMMA CappedMeansHolds == CapInv => CapHolds
<1> SUFFICES ASSUME CapInv, NEW b \in Buckets
             PROVE  Cardinality({r \in Granted : Bucket(r, b[1]) = b})
                      <= MaxSends[b[1]]
  BY DEF CapHolds
<1> DEFINE G == {r \in Granted : Bucket(r, b[1]) = b}
<1>1. G \subseteq Accepted(b) /\ Accepted(b) \subseteq Requests
  BY BucketLimit DEF CapInv, HoldsInv, HoldsAt, Granted, Accepted, Holders
<1>2. /\ Cardinality(G) <= Cardinality(Accepted(b))
      /\ Cardinality(G) \in Nat /\ Cardinality(Accepted(b)) \in Nat
  BY <1>1, SubsetOfRequests
<1>3. MaxSends[b[1]] \in Nat /\ Capped(b)
  BY BucketLimit, Constants DEF CapInv
<1>4. QED
  BY <1>2, <1>3 DEF Capped

\* No limit is ever overshot, by any number of concurrent requests, with any
\* failures and releases, as long as no counter is purged while a request
\* that captured its `now` in the counter's window has still to count.
THEOREM NeverOvershot == ASSUME ~PurgeOvertakes PROVE Spec => []CapHolds
<1>1. CapInv /\ [Next]_vars => CapInv'
  BY NextCap
<1>2. QED
  BY <1>1, InitCap, CappedMeansHolds, PTL DEF Spec

\* The same with purges that come as early as they may: what lets a limit be
\* overshot is a request that counts when its window is over, and nothing else.
\* The run cap_overshot has one that does.
THEOREM OvershotOnlyLate == Spec /\ []InTime => []CapHolds
<1>1. CapInv /\ InTime /\ [Next]_vars => CapInv'
  BY NextCap
<1>2. QED
  BY <1>1, InitCap, CappedMeansHolds, PTL DEF Spec

-----------------------------------------------------------------------------
(* RateLimiter implements SendQuota.                                       *)

\* The refinement mapping.
grantsBar == [r \in Requests |->
                IF outcome[r] = "allowed" THEN startedAt[r] ELSE NotGranted]

LEMMA SameCardinality == \A S : Quota!Cardinality(S) = Cardinality(S)
BY DEF Quota!Cardinality, Cardinality

LEMMA SameBuckets ==
  /\ Quota!Times = Times
  /\ Quota!Limits = Limits
  /\ \A r, l, t : Quota!BucketAt(r, l, t) = BucketAt(r, l, t)
BY DEF Quota!Times, Times, Quota!Limits, Limits, Quota!BucketAt, BucketAt,
       Quota!Key, Key, Quota!Window, Window, Quota!Everyone, Everyone

LEMMA GrantsBar ==
  ASSUME TypeOK
  PROVE  /\ \A r \in Requests : grantsBar[r] # NotGranted <=> r \in Granted
         /\ \A r \in Granted : grantsBar[r] = startedAt[r]
BY Constants DEF grantsBar, TypeOK, Times, Granted

\* An allowed request is the abstract grant: after it the caps hold and the
\* journey's requests are spaced, so before it there was room and nobody in
\* their cooldown.
LEMMA AllowGrants ==
  ASSUME CapInv, CapInv', CooldownInv', NEW r \in Requests, Allow(r)
  PROVE  Quota!Grant(r)
<1> DEFINE t == startedAt[r]
           In(b) == {s \in Requests : /\ grantsBar[s] # NotGranted
                                      /\ BucketAt(s, b[1], grantsBar[s]) = b}
<1>h. CapHolds' /\ CooldownSpacing'
  BY CappedMeansHolds, OwnMeansSpaced, PTL
<1>0. TypeOK /\ TypeOK' /\ HoldsAt(r) /\ CapHolds' /\ CooldownSpacing'
  BY <1>h DEF CapInv, HoldsInv
<1>1. /\ t \in Times /\ t <= clock
      /\ r \notin Granted /\ Granted' = Granted \cup {r}
      /\ UNCHANGED <<clock, startedAt>>
  BY <1>0 DEF Allow, Goto, TypeOK, HoldsAt, Granted
<1>2. ASSUME NEW l \in Limits
      PROVE  Cardinality(In(BucketAt(r, l, t))) < MaxSends[l]
  <2> DEFINE b == BucketAt(r, l, t)
             After == {s \in Granted' : BucketAt(s, b[1], startedAt'[s]) = b}
  <2>1. b \in Buckets /\ b[1] = l
    BY <1>1, BucketType
  <2>2. Cardinality(After) <= MaxSends[l]
    BY <1>0, <2>1 DEF CapHolds, Bucket
  <2>3. In(b) = {s \in Granted : BucketAt(s, b[1], startedAt[s]) = b}
    BY <1>0, GrantsBar DEF Granted
  <2>4. After = In(b) \cup {r} /\ r \notin In(b)
    BY <1>1, <2>1, <2>3
  <2>5. In(b) \subseteq Requests
    OBVIOUS
  <2>6. /\ Cardinality(After) = Cardinality(In(b)) + 1
        /\ Cardinality(In(b)) \in Nat
    BY <2>4, <2>5, SubsetOfRequests, FS_AddElement
  <2>7. MaxSends[l] \in Nat
    BY Constants
  <2>8. QED
    BY <2>2, <2>6, <2>7
<1>3. ASSUME t + Cooldown > clock, NEW s \in Requests,
             JourneyOf[s] = JourneyOf[r], grantsBar[s] # NotGranted
      PROVE  ~(grantsBar[s] + Cooldown > clock)
  <2>1. s \in Granted /\ grantsBar[s] = startedAt[s] /\ s # r
    BY <1>0, <1>1, <1>3, GrantsBar
  <2>2. r \in Holding' /\ s \in Holding'
    BY <1>1, <2>1 DEF Holding, Granted
  <2>3. startedAt[s] + Cooldown <= clock
    BY <1>0, <1>1, <1>3, <2>1, <2>2, Constants
       DEF CooldownSpacing, TypeOK, Times
  <2>4. QED
    BY <1>0, <2>1, <2>3, Constants DEF TypeOK, Times
<1>4. /\ grantsBar[r] = NotGranted
      /\ grantsBar' = [grantsBar EXCEPT ![r] = t]
  BY <1>0, <1>1 DEF grantsBar, Allow, Granted, TypeOK
<1>5. \A b : Quota!GrantedIn(b) = In(b)
  BY SameBuckets DEF Quota!GrantedIn, grantsBar
<1>6. \A l \in Quota!Limits :
        Quota!Cardinality(Quota!GrantedIn(Quota!BucketAt(r, l, t))) < MaxSends[l]
  BY <1>2, <1>5, SameBuckets, SameCardinality
<1>7. QED
  BY <1>1, <1>3, <1>4, <1>6, SameBuckets
     DEF Quota!Grant, Quota!CoolingDown, grantsBar

\* Steps that neither allow a request nor undo an allowed one leave the
\* abstract grants alone.
LEMMA QuietGrants ==
  ASSUME TypeOK, TypeOK', Granted' = Granted,
         \A r \in Granted : startedAt'[r] = startedAt[r]
  PROVE  UNCHANGED grantsBar
BY DEF grantsBar, Granted

LEMMA StepImplements ==
  CapInv /\ CapInv' /\ CooldownInv' /\ [Next]_vars => [Quota!Next]_(Quota!vars)
<1> SUFFICES ASSUME CapInv, CapInv', CooldownInv', [Next]_vars
             PROVE  Quota!Next \/ (UNCHANGED clock /\ UNCHANGED grantsBar)
  BY DEF Quota!vars, grantsBar
<1>0. TypeOK /\ TypeOK' /\ \A q \in Requests : HoldsAt(q)
  BY DEF CapInv, HoldsInv
<1> DEFINE Quiet == /\ UNCHANGED clock
                    /\ Granted' = Granted
                    /\ \A q \in Granted : startedAt'[q] = startedAt[q]
<1>q. Quiet => UNCHANGED clock /\ UNCHANGED grantsBar
  BY <1>0, QuietGrants
<1> USE <1>0 DEF TypeOK, Granted
<1>1. ASSUME NEW r \in Requests, Reserve(r)
      PROVE  Quota!Next \/ Quiet
  <2>1. CASE Allow(r)
    BY <2>1, AllowGrants DEF Quota!Next
  <2>2. CASE Start(r)
    BY <2>2 DEF Start, Goto, HoldsAt
  <2>3. CASE ClaimFails(r)
    BY <2>3 DEF ClaimFails, Goto, HoldsAt
  <2>4. CASE ReadRunning(r)
    BY <2>4 DEF ReadRunning, Goto, HoldsAt
  <2>5. CASE ClaimCooldown(r) \/ CooldownRefuses(r)
    BY <2>5 DEF ClaimCooldown, CooldownRefuses
  <2>6. CASE \E l \in Limits : Increment(r, l) \/ IncrementFails(r, l)
    BY <2>6 DEF Increment, IncrementFails
  <2>7. CASE AbandonFailed(r) \/ Refuse(r)
    BY <2>7 DEF AbandonFailed, Refuse, Goto, HoldsAt, Limits
  <2>8. QED
    BY <1>1, <2>1, <2>2, <2>3, <2>4, <2>5, <2>6, <2>7 DEF Reserve
<1>2. ASSUME NEW r \in Requests, Caller(r)
      PROVE  Quota!Next \/ Quiet
  <2>1. CASE SendSucceeds(r)
    BY <2>1 DEF SendSucceeds
  <2>2. CASE SendFails(r)
    <3>1. outcome[r] = "allowed" /\ startedAt[r] # NotGranted
      BY <2>2, Constants DEF SendFails, Goto, HoldsAt, Times
    <3>2. /\ grantsBar[r] # NotGranted
          /\ grantsBar' = [grantsBar EXCEPT ![r] = NotGranted]
      BY <2>2, <3>1 DEF SendFails, Goto, grantsBar
    <3>3. Quota!GiveBack(r)
      BY <2>2, <3>2 DEF Quota!GiveBack, grantsBar, SendFails
    <3>4. QED
      BY <3>3 DEF Quota!Next
  <2>3. QED
    BY <1>2, <2>1, <2>2 DEF Caller
<1>3. ASSUME NEW r \in Requests, Release(r)
      PROVE  Quiet
  <2>1. CASE \E x \in Releases : ReleaseFails(r, x)
    BY <2>1 DEF ReleaseFails, HoldsAt, Limits
  <2>2. CASE DeleteCooldown(r) \/ EndRelease(r)
    BY <2>2 DEF DeleteCooldown, EndRelease
  <2>3. CASE \E l \in Limits : Decrement(r, l)
    BY <2>3 DEF Decrement
  <2>4. QED
    BY <1>3, <2>1, <2>2, <2>3 DEF Release
<1>4. CASE Environment
  <2>1. CASE Tick
    <3>1. UNCHANGED grantsBar
      BY <2>1 DEF Tick, grantsBar
    <3>2. Quota!Tick
      BY <2>1, <3>1 DEF Tick, Quota!Tick, grantsBar
    <3>3. QED
      BY <3>2 DEF Quota!Next
  <2>2. CASE ~Tick
    <3>1. Quiet
      BY <1>4, <2>2 DEF Environment, ProcessDies, PurgeCooldown, PurgeCounter
    <3>2. QED
      BY <3>1, <1>q
  <2>3. QED
    BY <2>1, <2>2
<1>5. CASE UNCHANGED vars
  <2>1. Quiet
    BY <1>5 DEF vars
  <2>2. QED
    BY <2>1, <1>q
<1>6. QED
  BY <1>q, <1>1, <1>2, <1>3, <1>4, <1>5 DEF Next

\* The limiter implements SendQuota: its decisions, each taken over up to five
\* operations among those of other requests, are atomic decisions that respect
\* every cap and every cooldown, and only an undone send gives one back.
THEOREM QuotaImplemented == ASSUME ~PurgeOvertakes PROVE Spec => ImplementsQuota
<1>1. Init => Quota!Init
  BY DEF Init, Quota!Init
<1>2. CapInv /\ [Next]_vars => CapInv'
  BY NextCap
<1>3. Spec => []CooldownInv
  BY InitCooldown, NextCooldown, PTL DEF Spec
<1>4. QED
  BY <1>1, <1>2, <1>3, InitCap, StepImplements, PTL
     DEF Spec, ImplementsQuota, Quota!Spec

\* So it does with purges that come as early as they may, as long as requests
\* count in time.
THEOREM QuotaImplementedInTime == Spec /\ []InTime => ImplementsQuota
<1>1. Init => Quota!Init
  BY DEF Init, Quota!Init
<1>2. CapInv /\ InTime /\ [Next]_vars => CapInv'
  BY NextCap
<1>3. Spec => []CooldownInv
  BY InitCooldown, NextCooldown, PTL DEF Spec
<1>4. QED
  BY <1>1, <1>2, <1>3, InitCap, StepImplements, PTL
     DEF Spec, ImplementsQuota, Quota!Spec


-----------------------------------------------------------------------------
(* The quota is used up by the emails that went, and by nothing else.      *)

\* What a request can do when no operation fails and no process dies.
FaultlessStep(r) ==
  \/ Start(r) \/ ClaimCooldown(r) \/ CooldownRefuses(r) \/ ReadRunning(r)
  \/ \E l \in Limits : Increment(r, l) \/ Decrement(r, l)
  \/ AbandonFailed(r) \/ Refuse(r) \/ Allow(r)
  \/ SendSucceeds(r) \/ SendFails(r)
  \/ DeleteCooldown(r) \/ EndRelease(r)

FaultlessNext ==
  \/ \E r \in Requests : FaultlessStep(r)
  \/ \E j \in Journeys : PurgeCooldown(j)
  \/ \E b \in Buckets : PurgeCounter(b)
  \/ Tick
  \/ UNCHANGED vars

\* Faults are counted, so before a state without one there was none.
LEMMA NoFaultSoFar ==
  ASSUME TypeOK, [Next]_vars, faults' = 0
  PROVE  faults = 0 /\ FaultlessNext
<1>0. faults \in Nat
  BY DEF TypeOK
<1>1. ASSUME NEW r \in Requests, Reserve(r)
      PROVE  faults = 0 /\ FaultlessStep(r)
  <2>1. CASE ClaimFails(r) \/ \E l \in Limits : IncrementFails(r, l)
    BY <1>0, <2>1 DEF ClaimFails, IncrementFails, Fault
  <2>2. CASE ~(ClaimFails(r) \/ \E l \in Limits : IncrementFails(r, l))
    <3>1. FaultlessStep(r)
      BY <1>1, <2>2 DEF Reserve, FaultlessStep
    <3>2. faults' = faults
      BY <1>1, <2>2
         DEF Reserve, Start, ClaimCooldown, CooldownRefuses, ReadRunning,
             Increment, AbandonFailed, Refuse, Allow
    <3>3. QED
      BY <3>1, <3>2
  <2>3. QED
    BY <2>1, <2>2
<1>2. ASSUME NEW r \in Requests, Caller(r)
      PROVE  faults = 0 /\ FaultlessStep(r)
  BY <1>2 DEF Caller, SendSucceeds, SendFails, FaultlessStep
<1>3. ASSUME NEW r \in Requests, Release(r)
      PROVE  faults = 0 /\ FaultlessStep(r)
  <2>1. CASE \E x \in Releases : ReleaseFails(r, x)
    BY <1>0, <2>1 DEF ReleaseFails, Fault
  <2>2. CASE ~(\E x \in Releases : ReleaseFails(r, x))
    BY <1>3, <2>2
       DEF Release, DeleteCooldown, Decrement, EndRelease, FaultlessStep
  <2>3. QED
    BY <2>1, <2>2
<1>4. CASE Environment
  <2>1. CASE \E r \in Requests : ProcessDies(r)
    BY <1>0, <2>1 DEF ProcessDies, Fault
  <2>2. CASE ~(\E r \in Requests : ProcessDies(r))
    BY <1>4, <2>2
       DEF Environment, PurgeCooldown, PurgeCounter, Tick, FaultlessNext
  <2>3. QED
    BY <2>1, <2>2
<1>5. CASE UNCHANGED vars
  BY <1>5 DEF vars, FaultlessNext
<1>6. QED
  BY <1>1, <1>2, <1>3, <1>4, <1>5 DEF Next, FaultlessNext

\* A release gives back exactly what is held, and leaves nothing held.
Settles(r) ==
  /\ pc[r] # "dead"
  /\ pc[r] = "sent" => outcome[r] = "allowed"
  /\ pc[r] = "release" => held[r] = waiting[r] \cap Limits
  /\ pc[r] = "done" => held[r] = {}

\* A request that has claimed its cooldown and not deleted it.
KeepsCooldown(r) ==
  \/ pc[r] \in {"count", "reserved", "sent"}
  \/ pc[r] = "release" /\ "cooldown" \in waiting[r]

ClaimAccounted(j) ==
  LET claim == cooldowns[j].claim
  IN  claim # NoOne => JourneyOf[claim] = j /\ KeepsCooldown(claim)

\* While a bucket's window is open, its count is the number of its holders.
\* (Once it is over a purge may come between, and CapInv bounds it only.)
Exact(b) == WindowEnd(b[3]) > clock => counters[b] = Cardinality(Holders(b))

Accounted ==
  /\ \A r \in Requests : Settles(r)
  /\ \A j \in Journeys : ClaimAccounted(j)
  /\ \A b \in Buckets : Exact(b)

ExactInv == HoldsInv /\ (faults = 0 => Accounted)

LEMMA InitExact == Init => ExactInv
<1> SUFFICES ASSUME Init
             PROVE  Accounted
  BY InitHolds DEF ExactInv
<1>1. \A r \in Requests : Settles(r)
  BY DEF Init, Settles
<1>2. \A j \in Journeys : ClaimAccounted(j)
  BY DEF Init, ClaimAccounted, NoCooldown
<1>3. ASSUME NEW b \in Buckets
      PROVE  Exact(b)
  <2>1. Holders(b) = {}
    BY DEF Init, Holders
  <2>2. QED
    BY <2>1, FS_EmptySet DEF Init, Exact
<1>4. QED
  BY <1>1, <1>2, <1>3 DEF Accounted

LEMMA NextSettles ==
  ASSUME HoldsInv, Accounted, FaultlessNext, NEW q \in Requests
  PROVE  Settles(q)'
<1>0. TypeOK /\ HoldsAt(q) /\ Settles(q)
  BY DEF HoldsInv, Accounted
<1> USE <1>0 DEF TypeOK, HoldsAt, Settles
<1>1. ASSUME NEW r \in Requests,
             Start(r) \/ ClaimCooldown(r) \/ CooldownRefuses(r) \/ ReadRunning(r)
      PROVE  Settles(q)'
  BY <1>1 DEF Start, ClaimCooldown, CooldownRefuses, ReadRunning, Goto
<1>2. ASSUME NEW r \in Requests, NEW l \in Limits, Increment(r, l)
      PROVE  Settles(q)'
  BY <1>2 DEF Increment
<1>3. ASSUME NEW r \in Requests, NEW l \in Limits, Decrement(r, l)
      PROVE  Settles(q)'
  BY <1>3 DEF Decrement
<1>4. ASSUME NEW r \in Requests, AbandonFailed(r) \/ Refuse(r) \/ SendFails(r)
      PROVE  Settles(q)'
  <2>1. ReleaseSet(r) \cap Limits = held[r]
    BY Constants DEF ReleaseSet
  <2>2. QED
    BY <1>4, <2>1 DEF AbandonFailed, Refuse, SendFails, Goto
<1>5. ASSUME NEW r \in Requests,
             Allow(r) \/ SendSucceeds(r) \/ DeleteCooldown(r) \/ EndRelease(r)
      PROVE  Settles(q)'
  BY <1>5, Constants
     DEF Allow, SendSucceeds, DeleteCooldown, EndRelease, Forget, Goto
<1>6. ASSUME NEW j \in Journeys, PurgeCooldown(j)
      PROVE  Settles(q)'
  BY <1>6 DEF PurgeCooldown
<1>7. ASSUME NEW b \in Buckets, PurgeCounter(b)
      PROVE  Settles(q)'
  BY <1>7 DEF PurgeCounter
<1>8. CASE Tick \/ UNCHANGED vars
  BY <1>8 DEF Tick, vars
<1>9. QED
  BY <1>1, <1>2, <1>3, <1>4, <1>5, <1>6, <1>7, <1>8
     DEF FaultlessNext, FaultlessStep

\* A release ends only after it has deleted its own cooldown, so no document
\* is left behind that names a request which sent nothing.
LEMMA NextClaimAccounted ==
  ASSUME HoldsInv, Accounted, FaultlessNext, NEW j \in Journeys
  PROVE  ClaimAccounted(j)'
<1> DEFINE claim == cooldowns[j].claim
<1>0. /\ TypeOK /\ ClaimAccounted(j)
      /\ claim \in Requests \cup {NoOne}
  BY DEF HoldsInv, TypeOK, Accounted
<1>1. ASSUME cooldowns'[j] = cooldowns[j],
             claim # NoOne /\ KeepsCooldown(claim) => KeepsCooldown(claim)'
      PROVE  ClaimAccounted(j)'
  BY <1>0, <1>1 DEF ClaimAccounted, KeepsCooldown
<1>2. ASSUME cooldowns'[j] = NoCooldown
      PROVE  ClaimAccounted(j)'
  BY <1>2 DEF ClaimAccounted, NoCooldown
<1> USE <1>0 DEF TypeOK, KeepsCooldown
<1>3. ASSUME NEW r \in Requests, ClaimCooldown(r)
      PROVE  ClaimAccounted(j)'
  <2>1. CASE JourneyOf[r] = j
    <3>1. cooldowns'[j] = OwnCooldown(r) /\ pc'[r] = "count"
      BY <1>3, <2>1 DEF ClaimCooldown, Goto
    <3>2. QED
      BY <2>1, <3>1 DEF ClaimAccounted, OwnCooldown
  <2>2. CASE JourneyOf[r] # j
    <3>1. cooldowns'[j] = cooldowns[j]
      BY <1>3, <2>2 DEF ClaimCooldown
    <3>2. claim # NoOne /\ KeepsCooldown(claim) => KeepsCooldown(claim)'
      BY <1>3, <3>1 DEF ClaimCooldown, Goto
    <3>3. QED
      BY <1>1, <3>1, <3>2
  <2>3. QED
    BY <2>1, <2>2
<1>4. ASSUME NEW r \in Requests,
             Start(r) \/ CooldownRefuses(r) \/ ReadRunning(r) \/ Allow(r)
               \/ SendSucceeds(r)
      PROVE  ClaimAccounted(j)'
  <2>1. claim # NoOne /\ KeepsCooldown(claim) => KeepsCooldown(claim)'
    BY <1>4
       DEF Start, CooldownRefuses, ReadRunning, Allow, SendSucceeds, Goto
  <2>2. cooldowns' = cooldowns
    BY <1>4 DEF Start, CooldownRefuses, ReadRunning, Allow, SendSucceeds
  <2>3. QED
    BY <1>1, <2>1, <2>2
<1>5. ASSUME NEW r \in Requests, AbandonFailed(r) \/ Refuse(r) \/ SendFails(r)
      PROVE  ClaimAccounted(j)'
  <2>1. claim # NoOne /\ KeepsCooldown(claim) => KeepsCooldown(claim)'
    BY <1>5 DEF AbandonFailed, Refuse, SendFails, Goto, ReleaseSet
  <2>2. cooldowns' = cooldowns
    BY <1>5 DEF AbandonFailed, Refuse, SendFails
  <2>3. QED
    BY <1>1, <2>1, <2>2
<1>6. ASSUME NEW r \in Requests, NEW l \in Limits,
             Increment(r, l) \/ Decrement(r, l)
      PROVE  ClaimAccounted(j)'
  <2>1. claim # NoOne /\ KeepsCooldown(claim) => KeepsCooldown(claim)'
    BY <1>6, Constants DEF Increment, Decrement
  <2>2. cooldowns' = cooldowns
    BY <1>6 DEF Increment, Decrement
  <2>3. QED
    BY <1>1, <2>1, <2>2
<1>7. ASSUME NEW r \in Requests, DeleteCooldown(r)
      PROVE  ClaimAccounted(j)'
  <2>1. CASE claim = r
    <3>1. JourneyOf[r] = j
      BY <2>1, Constants DEF ClaimAccounted
    <3>2. cooldowns'[j] = NoCooldown
      BY <1>7, <2>1, <3>1 DEF DeleteCooldown, AfterDeletingCooldown
    <3>3. QED
      BY <1>2, <3>2
  <2>2. CASE claim # r
    <3>1. cooldowns'[j] = cooldowns[j]
      BY <1>7, <2>2 DEF DeleteCooldown, AfterDeletingCooldown
    <3>2. claim # NoOne /\ KeepsCooldown(claim) => KeepsCooldown(claim)'
      BY <1>7, <2>2, <3>1 DEF DeleteCooldown
    <3>3. QED
      BY <1>1, <3>1, <3>2
  <2>3. QED
    BY <2>1, <2>2
<1>8. ASSUME NEW r \in Requests, EndRelease(r)
      PROVE  ClaimAccounted(j)'
  <2>1. claim # NoOne /\ KeepsCooldown(claim) => KeepsCooldown(claim)'
    BY <1>8 DEF EndRelease, Goto, Forget
  <2>2. QED
    BY <1>1, <1>8, <2>1 DEF EndRelease
<1>9. ASSUME NEW i \in Journeys, PurgeCooldown(i)
      PROVE  ClaimAccounted(j)'
  <2>1. CASE i = j
    BY <1>2, <1>9, <2>1 DEF PurgeCooldown
  <2>2. CASE i # j
    BY <1>1, <1>9, <2>2 DEF PurgeCooldown
  <2>3. QED
    BY <2>1, <2>2
<1>10. ASSUME NEW b \in Buckets, PurgeCounter(b)
       PROVE  ClaimAccounted(j)'
  BY <1>1, <1>10 DEF PurgeCounter
<1>11. CASE Tick \/ UNCHANGED vars
  BY <1>1, <1>11 DEF Tick, vars
<1>12. QED
  BY <1>3, <1>4, <1>5, <1>6, <1>7, <1>8, <1>9, <1>10, <1>11
     DEF FaultlessNext, FaultlessStep

\* Time only goes forward: a window open after a step was open before it.
LEMMA StillOpen ==
  ASSUME TypeOK, FaultlessNext, NEW b \in Buckets, (WindowEnd(b[3]) > clock)'
  PROVE  WindowEnd(b[3]) > clock
<1>1. clock \in Nat /\ WindowEnd(b[3]) \in Int
  BY BucketLimit, Constants DEF TypeOK, Times
<1>2. CASE Tick
  BY <1>1, <1>2 DEF Tick
<1>3. CASE ~Tick
  <2>1. clock' = clock
    BY <1>3
       DEF FaultlessNext, FaultlessStep, Start, ClaimCooldown, CooldownRefuses,
           ReadRunning, Increment, Decrement, AbandonFailed, Refuse, Allow,
           SendSucceeds, SendFails, DeleteCooldown, EndRelease, PurgeCooldown,
           PurgeCounter, vars
  <2>2. QED
    BY <2>1
<1>4. QED
  BY <1>2, <1>3

\* How a count and the number of its holders move together.
CountUp(b) ==
  /\ counters'[b] = counters[b] + 1
  /\ Cardinality(Holders(b)') = Cardinality(Holders(b)) + 1

CountDown(b) ==
  /\ counters'[b] = IF counters[b] > 0 THEN counters[b] - 1 ELSE counters[b]
  /\ Cardinality(Holders(b)') = Cardinality(Holders(b)) - 1

CountStays(b) == counters'[b] = counters[b] /\ Holders(b)' = Holders(b)

CountPurged(b) ==
  /\ WindowEnd(b[3]) <= clock
  /\ counters'[b] = 0 /\ Holders(b)' = Holders(b)

LEMMA HoldersCounted ==
  \A b : Cardinality(Holders(b)) \in Nat /\ Cardinality(Holders(b)') \in Nat
BY SubsetOfRequests DEF Holders

LEMMA IncrementCounts ==
  ASSUME HoldsInv, NEW r \in Requests, NEW l \in Limits, Increment(r, l),
         NEW b \in Buckets
  PROVE  CountUp(b) \/ CountStays(b)
<1>0. TypeOK /\ HoldsAt(r)
  BY DEF HoldsInv
<1> USE <1>0 DEF TypeOK
<1>1. CASE b # Bucket(r, l)
  <2>1. Holders(b)' = Holders(b)
    BY <1>1 DEF Increment, Holders, Bucket
  <2>2. counters'[b] = counters[b]
    BY <1>1 DEF Increment
  <2>3. QED
    BY <2>1, <2>2 DEF CountStays
<1>2. CASE b = Bucket(r, l)
  <2>1. b[1] = l /\ l \notin held[r]
    BY <1>2, BucketType DEF Bucket, HoldsAt, Increment
  <2>2. Holders(b)' = Holders(b) \cup {r} /\ r \notin Holders(b)
    BY <1>2, <2>1 DEF Holders, Increment, Bucket
  <2>3. IsFiniteSet(Holders(b))
    BY SubsetOfRequests DEF Holders
  <2>4. Cardinality(Holders(b)') = Cardinality(Holders(b)) + 1
    BY <2>2, <2>3, FS_AddElement
  <2>5. counters'[b] = counters[b] + 1
    BY <1>2 DEF Increment
  <2>6. QED
    BY <2>4, <2>5 DEF CountUp
<1>3. QED
  BY <1>1, <1>2

\* The request that decrements is one of the holders.
LEMMA DecrementCounts ==
  ASSUME HoldsInv, NEW r \in Requests, NEW l \in Limits, Decrement(r, l),
         NEW b \in Buckets
  PROVE  CountDown(b) \/ CountStays(b)
<1>0. TypeOK /\ HoldsAt(r)
  BY DEF HoldsInv
<1> USE <1>0 DEF TypeOK
<1>1. CASE b # Bucket(r, l)
  <2>1. Holders(b)' = Holders(b)
    BY <1>1 DEF Decrement, Holders, Bucket
  <2>2. counters'[b] = counters[b]
    BY <1>1 DEF Decrement, AfterDecrement
  <2>3. QED
    BY <2>1, <2>2 DEF CountStays
<1>2. CASE b = Bucket(r, l)
  <2>1. b[1] = l /\ l \in held[r]
    BY <1>2, BucketType DEF Bucket, HoldsAt, Decrement
  <2>2. Holders(b)' = Holders(b) \ {r} /\ r \in Holders(b)
    BY <1>2, <2>1 DEF Holders, Decrement, Bucket
  <2>3. IsFiniteSet(Holders(b))
    BY SubsetOfRequests DEF Holders
  <2>4. Cardinality(Holders(b)') = Cardinality(Holders(b)) - 1
    BY <2>2, <2>3, FS_RemoveElement
  <2>5. counters'[b] = IF counters[b] > 0 THEN counters[b] - 1 ELSE counters[b]
    BY <1>2 DEF Decrement, AfterDecrement
  <2>6. QED
    BY <2>4, <2>5 DEF CountDown
<1>3. QED
  BY <1>1, <1>2

\* All that can happen to a count.
LEMMA CountMoves ==
  ASSUME HoldsInv, FaultlessNext, NEW b \in Buckets
  PROVE  CountUp(b) \/ CountDown(b) \/ CountStays(b) \/ CountPurged(b)
<1>0. TypeOK /\ \A q \in Requests : HoldsAt(q)
  BY DEF HoldsInv
<1>1. ASSUME NEW r \in Requests, NEW l \in Limits, Increment(r, l) \/ Decrement(r, l)
      PROVE  CountUp(b) \/ CountDown(b) \/ CountStays(b)
  BY <1>1, IncrementCounts, DecrementCounts
<1>2. ASSUME held' = held,
             \A q \in Requests : held[q] # {} => startedAt'[q] = startedAt[q]
      PROVE  Holders(b)' = Holders(b)
  BY <1>2 DEF Holders, Bucket
<1>3. ASSUME NEW r \in Requests, Start(r) PROVE CountStays(b)
  \* A request that starts now holds nothing yet.
  <2>1. \A q \in Requests : held[q] # {} => startedAt'[q] = startedAt[q]
    BY <1>0, <1>3 DEF Start, Goto, HoldsAt, TypeOK
  <2>2. QED
    BY <1>2, <1>3, <2>1 DEF Start, CountStays
<1>4. ASSUME NEW r \in Requests,
             \/ ClaimCooldown(r) \/ CooldownRefuses(r) \/ ReadRunning(r)
             \/ AbandonFailed(r) \/ Refuse(r) \/ Allow(r)
             \/ SendSucceeds(r) \/ SendFails(r)
             \/ DeleteCooldown(r) \/ EndRelease(r)
      PROVE  CountStays(b)
  <2>1. UNCHANGED <<counters, held, startedAt>>
    BY <1>4
       DEF ClaimCooldown, CooldownRefuses, ReadRunning, AbandonFailed, Refuse,
           Allow, SendSucceeds, SendFails, DeleteCooldown, EndRelease
  <2>2. QED
    BY <1>2, <2>1 DEF CountStays
<1>5. ASSUME NEW c \in Buckets, PurgeCounter(c)
      PROVE  CountStays(b) \/ CountPurged(b)
  <2>1. Holders(b)' = Holders(b)
    BY <1>2, <1>5 DEF PurgeCounter
  <2>2. CASE c = b
    BY <1>0, <1>5, <2>1, <2>2 DEF PurgeCounter, TypeOK, CountPurged
  <2>3. CASE c # b
    BY <1>0, <1>5, <2>1, <2>3 DEF PurgeCounter, TypeOK, CountStays
  <2>4. QED
    BY <2>2, <2>3
<1>6. CASE Tick \/ UNCHANGED vars \/ \E j \in Journeys : PurgeCooldown(j)
  <2>1. UNCHANGED <<counters, held, startedAt>>
    BY <1>6 DEF Tick, vars, PurgeCooldown
  <2>2. QED
    BY <1>2, <2>1 DEF CountStays
<1>7. QED
  BY <1>1, <1>3, <1>4, <1>5, <1>6 DEF FaultlessNext, FaultlessStep

LEMMA NextCountExact ==
  ASSUME HoldsInv, Accounted, FaultlessNext, NEW b \in Buckets
  PROVE  Exact(b)'
<1> SUFFICES ASSUME (WindowEnd(b[3]) > clock)'
             PROVE  counters'[b] = Cardinality(Holders(b)')
  BY DEF Exact
<1>1. /\ WindowEnd(b[3]) > clock /\ counters[b] = Cardinality(Holders(b))
      /\ clock \in Nat /\ WindowEnd(b[3]) \in Int
  BY StillOpen, BucketLimit, Constants DEF HoldsInv, TypeOK, Times, Accounted, Exact
<1>2. ~CountPurged(b)
  BY <1>1 DEF CountPurged
<1>3. CASE CountUp(b)
  BY <1>1, <1>3 DEF CountUp
<1>4. CASE CountDown(b)
  <2>1. Cardinality(Holders(b)) \in Nat /\ Cardinality(Holders(b)') \in Nat
    BY HoldersCounted
  \* So the guard count > 0 lets the decrement through.
  <2>2. counters[b] > 0
    BY <1>1, <1>4, <2>1 DEF CountDown
  <2>3. QED
    BY <1>1, <1>4, <2>2 DEF CountDown
<1>5. CASE CountStays(b)
  BY <1>1, <1>5 DEF CountStays
<1>6. QED
  BY <1>2, <1>3, <1>4, <1>5, CountMoves

LEMMA NextExact == ExactInv /\ [Next]_vars => ExactInv'
<1> SUFFICES ASSUME ExactInv, [Next]_vars, faults' = 0
             PROVE  Accounted'
  BY NextHolds DEF ExactInv
<1>1. HoldsInv /\ Accounted /\ FaultlessNext
  BY NoFaultSoFar DEF ExactInv, HoldsInv
<1>2. QED
  BY <1>1, NextSettles, NextClaimAccounted, NextCountExact DEF Accounted

LEMMA AccountedMeansExact == ExactInv => QuotaExact
<1> SUFFICES ASSUME ExactInv, AtRest, faults = 0
             PROVE  /\ \A b \in Buckets :
                         WindowEnd(b[3]) > clock =>
                           counters[b] = Cardinality({r \in Requests :
                                pc[r] = "sent" /\ Bucket(r, b[1]) = b})
                    /\ \A j \in Journeys :
                         cooldowns[j].claim # NoOne =>
                           pc[cooldowns[j].claim] = "sent"
  BY DEF QuotaExact
<1>1. /\ TypeOK /\ Accounted
      /\ \A r \in Requests : HoldsAt(r)
  BY DEF ExactInv, HoldsInv
<1>2. ASSUME NEW b \in Buckets, WindowEnd(b[3]) > clock
      PROVE  counters[b] = Cardinality({r \in Requests :
                             pc[r] = "sent" /\ Bucket(r, b[1]) = b})
  <2>1. \A r \in Requests : b[1] \in held[r] <=> pc[r] = "sent"
    BY <1>1, BucketLimit DEF AtRest, HoldsAt, Accounted, Settles
  <2>2. Holders(b) = {r \in Requests : pc[r] = "sent" /\ Bucket(r, b[1]) = b}
    BY <2>1 DEF Holders
  <2>3. QED
    BY <1>1, <1>2, <2>2 DEF Accounted, Exact
<1>3. ASSUME NEW j \in Journeys, cooldowns[j].claim # NoOne
      PROVE  pc[cooldowns[j].claim] = "sent"
  BY <1>1, <1>3 DEF AtRest, Accounted, ClaimAccounted, KeepsCooldown, TypeOK
<1>4. QED
  BY <1>2, <1>3

\* A refused request and one whose email did not go use up no quota and start
\* no cooldown: with every request at rest and no fault so far, an open
\* window's counter is the number of emails that went, and each cooldown is
\* that of one of them.
THEOREM NoQuotaLost == Spec => []QuotaExact
<1>1. Spec => []ExactInv
  BY InitExact, NextExact, PTL DEF Spec
<1>2. QED
  BY <1>1, AccountedMeansExact, PTL


-----------------------------------------------------------------------------
(* What refuses a request with room left (RefusedOnlyWhenCapReached) is    *)
(* another that is refused at the same time, and nothing else.             *)

\* A request whose increments count, although it may not be let through.
Undecided(r) == pc[r] = "count" \/ (pc[r] = "release" /\ outcome[r] \in Limits)

CountsApart == \A r, s \in Requests : Undecided(r) /\ Undecided(s) => r = s

\* The requests that a bucket's limit was there for.
LetThrough(b) ==
  {s \in Requests : outcome[s] \in {"allowed", "undone"} /\ Bucket(s, b[1]) = b}

Reached(b) == MaxSends[b[1]] <= Cardinality(LetThrough(b))

\* Where a request is while nothing fails.
Regular(r) ==
  /\ pc[r] = "count" => Limits \subseteq held[r] \cup waiting[r]
  /\ pc[r] = "release" => outcome[r] \in Limits \cup {"undone"}

\* A count never exceeds what its holders account for, not even when a slow
\* request counts in a window that is over.
Covered(b) == counters[b] <= Cardinality(Holders(b))

Deserved(r) ==
  \A l \in Limits : l \in over[r] \/ outcome[r] = l => Reached(Bucket(r, l))

Just ==
  /\ \A b \in Buckets : Covered(b)
  /\ \A r \in Requests : Regular(r) /\ Deserved(r)

JustInv == ExactInv /\ (faults = 0 => Just)

LEMMA CoveredKept ==
  ASSUME HoldsInv, FaultlessNext, NEW b \in Buckets, Covered(b)
  PROVE  Covered(b)'
<1>1. /\ Cardinality(Holders(b)) \in Nat /\ Cardinality(Holders(b)') \in Nat
      /\ counters[b] \in Nat /\ counters[b] <= Cardinality(Holders(b))
  BY HoldersCounted DEF HoldsInv, TypeOK, Covered
<1>2. SUFFICES counters'[b] <= Cardinality(Holders(b)')
  BY DEF Covered
<1>3. CASE CountUp(b)
  BY <1>1, <1>3 DEF CountUp
<1>4. CASE CountDown(b)
  BY <1>1, <1>4 DEF CountDown
<1>5. CASE CountStays(b) \/ CountPurged(b)
  BY <1>1, <1>5 DEF CountStays, CountPurged
<1>6. QED
  BY <1>3, <1>4, <1>5, CountMoves

LEMMA RegularKept ==
  ASSUME HoldsInv, FaultlessNext, NEW q \in Requests, Regular(q)
  PROVE  Regular(q)'
<1>0. TypeOK /\ HoldsAt(q)
  BY DEF HoldsInv
<1> USE <1>0 DEF TypeOK, HoldsAt, Regular
<1>1. ASSUME NEW r \in Requests,
             \/ Start(r) \/ ClaimCooldown(r) \/ CooldownRefuses(r) \/ ReadRunning(r)
             \/ Allow(r) \/ SendSucceeds(r)
      PROVE  Regular(q)'
  BY <1>1 DEF Start, ClaimCooldown, CooldownRefuses, ReadRunning, Allow,
              SendSucceeds, Goto
<1>2. ASSUME NEW r \in Requests, NEW l \in Limits, Increment(r, l) \/ Decrement(r, l)
      PROVE  Regular(q)'
  BY <1>2 DEF Increment, Decrement
<1>3. ASSUME NEW r \in Requests, AbandonFailed(r) PROVE Regular(q)'
  BY <1>3 DEF AbandonFailed, Goto
<1>4. ASSUME NEW r \in Requests, Refuse(r) \/ SendFails(r) PROVE Regular(q)'
  BY <1>4 DEF Refuse, SendFails, Goto
<1>5. ASSUME NEW r \in Requests, DeleteCooldown(r) \/ EndRelease(r)
      PROVE  Regular(q)'
  BY <1>5 DEF DeleteCooldown, EndRelease, Forget, Goto
<1>6. CASE \/ \E j \in Journeys : PurgeCooldown(j)
           \/ \E b \in Buckets : PurgeCounter(b)
           \/ Tick \/ UNCHANGED vars
  BY <1>6 DEF PurgeCooldown, PurgeCounter, Tick, vars
<1>7. QED
  BY <1>1, <1>2, <1>3, <1>4, <1>5, <1>6 DEF FaultlessNext, FaultlessStep

\* What a step makes of a request's outcome and of the limits it is over.
LEMMA OutcomeMoves ==
  ASSUME HoldsInv, Just, FaultlessNext, NEW q \in Requests
  PROVE  /\ \/ outcome'[q] = outcome[q]
            \/ outcome[q] \in {"none", "allowed"} /\ outcome'[q] = "undone"
            \/ outcome[q] = "none" /\ outcome'[q] \in {"allowed", "cooldown"}
            \/ outcome[q] = "none" /\ outcome'[q] \in over[q]
         /\ \/ startedAt'[q] = startedAt[q]
            \/ outcome[q] = "none" /\ over'[q] = {} /\ outcome'[q] = "none"
         /\ \/ over'[q] \subseteq over[q]
            \/ \E l \in Limits : /\ Increment(q, l) /\ over'[q] = over[q] \cup {l}
                                 /\ Exceeds(counters[Bucket(q, l)] + 1, l)
<1>0. TypeOK /\ HoldsAt(q) /\ Regular(q)
  BY DEF HoldsInv, Just
<1> USE <1>0 DEF TypeOK
<1>1. ASSUME NEW r \in Requests, Start(r)
      PROVE  /\ UNCHANGED <<outcome, over>>
             /\ \/ startedAt'[q] = startedAt[q]
                \/ outcome[q] = "none" /\ over[q] = {}
  BY <1>1 DEF Start, Goto, HoldsAt
<1>2. ASSUME NEW r \in Requests, ReadRunning(r) \/ Allow(r)
      PROVE  /\ UNCHANGED <<startedAt, over>>
             /\ \/ outcome'[q] = outcome[q]
                \/ outcome[q] = "none" /\ outcome'[q] \in {"allowed", "cooldown"}
  BY <1>2 DEF ReadRunning, Allow, Goto, HoldsAt
<1>3. ASSUME NEW r \in Requests, NEW l \in Limits, Increment(r, l)
      PROVE  /\ UNCHANGED <<startedAt, outcome>>
             /\ \/ over'[q] = over[q]
                \/ /\ r = q /\ over'[q] = over[q] \cup {l}
                   /\ Exceeds(counters[Bucket(q, l)] + 1, l)
  BY <1>3 DEF Increment
<1>4. ASSUME NEW r \in Requests, AbandonFailed(r), r = q PROVE FALSE
  BY <1>4 DEF AbandonFailed, Goto, Regular
<1>5. ASSUME NEW r \in Requests, AbandonFailed(r), r # q
      PROVE  UNCHANGED <<startedAt, over>> /\ outcome'[q] = outcome[q]
  BY <1>5 DEF AbandonFailed
<1>6. ASSUME NEW r \in Requests, Refuse(r)
      PROVE  /\ UNCHANGED <<startedAt, over>>
             /\ \/ outcome'[q] = outcome[q]
                \/ outcome[q] = "none" /\ outcome'[q] \in over[q]
  BY <1>6 DEF Refuse, Goto, FirstExceeded, HoldsAt
<1>7. ASSUME NEW r \in Requests, SendFails(r)
      PROVE  /\ UNCHANGED <<startedAt, over>>
             /\ \/ outcome'[q] = outcome[q]
                \/ outcome[q] = "allowed" /\ outcome'[q] = "undone"
  BY <1>7 DEF SendFails, Goto, HoldsAt
<1>8. ASSUME NEW r \in Requests, EndRelease(r)
      PROVE  UNCHANGED <<startedAt, outcome>> /\ over'[q] \subseteq over[q]
  BY <1>8 DEF EndRelease, Forget
<1>9. ASSUME NEW r \in Requests,
             \/ ClaimCooldown(r) \/ CooldownRefuses(r) \/ SendSucceeds(r)
             \/ DeleteCooldown(r) \/ \E l \in Limits : Decrement(r, l)
      PROVE  UNCHANGED <<startedAt, outcome, over>>
  BY <1>9 DEF ClaimCooldown, CooldownRefuses, SendSucceeds, DeleteCooldown,
              Decrement
<1>10. CASE \/ \E j \in Journeys : PurgeCooldown(j)
            \/ \E b \in Buckets : PurgeCounter(b)
            \/ Tick \/ UNCHANGED vars
  BY <1>10 DEF PurgeCooldown, PurgeCounter, Tick, vars
<1>11. QED
  BY <1>1, <1>2, <1>3, <1>4, <1>5, <1>6, <1>7, <1>8, <1>9, <1>10
     DEF FaultlessNext, FaultlessStep

\* Nobody is let through any less.
LEMMA ReachedStays ==
  ASSUME HoldsInv, Just, FaultlessNext, NEW b \in Buckets, Reached(b)
  PROVE  Reached(b)'
<1>1. LetThrough(b) \subseteq LetThrough(b)'
  <2>1. SUFFICES ASSUME NEW s \in Requests, outcome[s] \in {"allowed", "undone"},
                        Bucket(s, b[1]) = b
                 PROVE  outcome'[s] \in {"allowed", "undone"}
                        /\ startedAt'[s] = startedAt[s]
    BY DEF LetThrough, Bucket
  <2>2. QED
    BY <2>1, OutcomeMoves
<1>2. LetThrough(b)' \subseteq Requests
  BY DEF LetThrough
<1>3. /\ Cardinality(LetThrough(b)) <= Cardinality(LetThrough(b)')
      /\ Cardinality(LetThrough(b)) \in Nat /\ Cardinality(LetThrough(b)') \in Nat
  BY <1>1, <1>2, SubsetOfRequests
<1>4. MaxSends[b[1]] \in Nat
  BY BucketLimit, Constants
<1>5. QED
  BY <1>3, <1>4 DEF Reached

\* A count above the maximum is made of requests that were let through: of
\* those that may not be, there is none but the one that counts.
LEMMA ExceedsReached ==
  ASSUME HoldsInv, Accounted, Just, CountsApart, NEW r \in Requests,
         NEW l \in Limits, Increment(r, l), Exceeds(counters[Bucket(r, l)] + 1, l)
  PROVE  Reached(Bucket(r, l))
<1> DEFINE b == Bucket(r, l)
<1>1. TypeOK /\ b \in Buckets /\ b[1] = l
  <2>1. TypeOK /\ startedAt[r] \in Times
    BY DEF HoldsInv, TypeOK
  <2>2. QED
    BY <2>1, BucketType DEF Bucket
<1>2. l \in waiting[r] /\ pc[r] = "count" /\ l \notin held[r]
  BY DEF Increment, HoldsInv, HoldsAt
<1> HIDE DEF b
<1>3. ASSUME NEW s \in Holders(b) PROVE s \in LetThrough(b)
  <2>1. s \in Requests /\ l \in held[s] /\ Bucket(s, l) = b /\ s # r
    BY <1>1, <1>2 DEF Holders
  <2>2. HoldsAt(s) /\ Settles(s) /\ Regular(s) /\ pc[s] \in Steps
    BY <1>1, <2>1 DEF HoldsInv, Accounted, Just, TypeOK
  <2>3. ~Undecided(s)
    BY <1>2, <2>1 DEF CountsApart, Undecided
  <2>4. outcome[s] \in {"allowed", "undone"}
    BY <2>1, <2>2, <2>3 DEF HoldsAt, Settles, Regular, Undecided, Steps
  <2>5. QED
    BY <1>1, <2>1, <2>4 DEF LetThrough
<1>4. Holders(b) \subseteq LetThrough(b) /\ LetThrough(b) \subseteq Requests
  BY <1>3 DEF LetThrough
<1>5. /\ Cardinality(Holders(b)) <= Cardinality(LetThrough(b))
      /\ Cardinality(Holders(b)) \in Nat /\ Cardinality(LetThrough(b)) \in Nat
  BY <1>4, SubsetOfRequests
<1>6. counters[b] <= Cardinality(Holders(b)) /\ counters[b] \in Nat
  BY <1>1 DEF Just, Covered, TypeOK
<1>7. MaxSends[l] < counters[b] + 1 /\ MaxSends[l] \in Nat
  BY Constants, <1>6 DEF Exceeds, b
<1>8. MaxSends[l] <= Cardinality(LetThrough(b))
  BY <1>5, <1>6, <1>7
<1>9. QED
  BY <1>1, <1>8 DEF Reached, b

LEMMA DeservedKept ==
  ASSUME HoldsInv, Accounted, Just, CountsApart, FaultlessNext, NEW r \in Requests
  PROVE  Deserved(r)'
<1> SUFFICES ASSUME NEW l \in Limits, l \in over'[r] \/ outcome'[r] = l
             PROVE  Reached(Bucket(r, l))'
  BY DEF Deserved
<1>1. /\ l \notin {"none", "undone", "allowed", "cooldown"}
      /\ TypeOK /\ Deserved(r)
  BY Constants DEF Limits, HoldsInv, Just
<1>2. startedAt'[r] = startedAt[r]
  BY <1>1, OutcomeMoves
<1>3. Bucket(r, l)' = Bucket(r, l) /\ Bucket(r, l) \in Buckets
  <2>1. Bucket(r, l)' = Bucket(r, l)
    BY <1>2 DEF Bucket
  <2>2. startedAt[r] \in Times
    BY <1>1 DEF TypeOK
  <2>3. Bucket(r, l) \in Buckets
    BY <2>2, BucketType DEF Bucket
  <2>4. QED
    BY <2>1, <2>3
<1>4. SUFFICES Reached(Bucket(r, l))
  <2>1. \A b \in Buckets : Reached(b) => Reached(b)'
    BY ReachedStays
  <2>2. QED
    BY <1>3, <1>4, <2>1 DEF Reached, LetThrough
<1>5. CASE l \in over[r] \/ outcome[r] = l
  BY <1>1, <1>5 DEF Deserved
<1>6. CASE l \notin over[r] /\ outcome[r] # l
  <2>1. Increment(r, l) /\ Exceeds(counters[Bucket(r, l)] + 1, l)
    BY <1>1, <1>6, OutcomeMoves
  <2>2. QED
    BY <2>1, ExceedsReached
<1>7. QED
  BY <1>5, <1>6

\* "A cap was reached" is true of every refusal, as long as no request counts
\* while another that is not let through still holds what it has counted.  The
\* run refused_with_room breaks it by two that do.
THEOREM RefusedOnlyCrowded ==
  Spec /\ []CountsApart => []RefusedOnlyWhenCapReached
<1>1. Init => JustInv
  <2> SUFFICES ASSUME Init PROVE Just
    BY InitExact DEF JustInv
  <2>1. ASSUME NEW b \in Buckets PROVE Covered(b)
    BY HoldersCounted DEF Init, Covered
  <2>2. ASSUME NEW r \in Requests PROVE Regular(r) /\ Deserved(r)
    BY Constants DEF Init, Regular, Deserved, Limits
  <2>3. QED
    BY <2>1, <2>2 DEF Just
<1>2. JustInv /\ CountsApart /\ [Next]_vars => JustInv'
  <2> SUFFICES ASSUME JustInv, CountsApart, [Next]_vars, faults' = 0
               PROVE  Just'
    BY NextExact DEF JustInv
  <2>1. HoldsInv /\ Accounted /\ Just /\ FaultlessNext
    BY NoFaultSoFar DEF JustInv, ExactInv, HoldsInv
  <2>2. ASSUME NEW b \in Buckets PROVE Covered(b)'
    BY <2>1, CoveredKept DEF Just
  <2>3. ASSUME NEW r \in Requests PROVE Regular(r)' /\ Deserved(r)'
    BY <2>1, RegularKept, DeservedKept DEF Just
  <2>4. QED
    BY <2>2, <2>3 DEF Just
<1>3. JustInv => RefusedOnlyWhenCapReached
  <2> SUFFICES ASSUME Just, TypeOK, NEW r \in Requests, NEW l \in Limits,
                      outcome[r] = l
               PROVE  Cardinality({s \in Requests :
                                     /\ outcome[s] \in {"allowed", "undone"}
                                     /\ Bucket(s, l) = Bucket(r, l)})
                        >= MaxSends[l]
    BY DEF JustInv, ExactInv, HoldsInv, RefusedOnlyWhenCapReached
  <2>1. Reached(Bucket(r, l))
    BY DEF Just, Deserved
  <2>2. startedAt[r] \in Times
    BY DEF TypeOK
  <2>3. Bucket(r, l)[1] = l
    BY <2>2, BucketType DEF Bucket
  <2>4. QED
    BY <2>1, <2>3 DEF Reached, LetThrough
<1>4. QED
  BY <1>1, <1>2, <1>3, PTL DEF Spec

=============================================================================
