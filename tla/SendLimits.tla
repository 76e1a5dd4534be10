----------------------------- MODULE SendLimits -----------------------------
(***************************************************************************)
(* What the limits on verification emails are counted by: the part of      *)
(* rate-limiter.js that is only arithmetic.  SendQuota promises something  *)
(* about these limits, RateLimiter implements it.                          *)
(*                                                                         *)
(* Time is counted in ticks.  A request is one call of                     *)
(* requestVerificationLink; the journey and the address it is for never    *)
(* change, so they are functions of the request.                           *)
(***************************************************************************)
EXTENDS Integers, FiniteSets

CONSTANTS
  Requests,       \* calls of requestVerificationLink
  Journeys,       \* journey ids, from the signed journey token
  Emails,         \* normalised addresses (their hashes key the counters)
  JourneyOf,      \* the journey each request is for
  EmailOf,        \* the address each request is for
  MaxSends,       \* [Limits -> Nat]: the maxSends...PerHour settings
  Cooldown,       \* resendCooldownSeconds, in ticks
  WindowLength,   \* WINDOW_MS, in ticks
  MaxClock        \* bound: the clock stops here

\* The three counted limits.  The cooldown is the fourth and has no counter.
Limits == {"email", "journey", "global"}

Everyone == "everyone"

ASSUME RequestsAssumption ==
  /\ IsFiniteSet(Requests)
  /\ JourneyOf \in [Requests -> Journeys]
  /\ EmailOf \in [Requests -> Emails]

\* Every setting is a positive integer (POSITIVE_INT in config.js).
ASSUME SettingsAssumption ==
  /\ MaxSends \in [Limits -> Nat \ {0}]
  /\ Cooldown \in Nat \ {0}
  /\ WindowLength \in Nat \ {0}
  /\ MaxClock \in Nat

Times == 0..MaxClock

\* The fixed window a time falls in: windowStart, in units of WindowLength.
Window(t) == t \div WindowLength

WindowEnd(w) == (w + 1) * WindowLength

Windows == {Window(t) : t \in Times}

\* What a limit counts by: the address, the journey, or nothing at all.
Key(r, l) == CASE l = "email"   -> EmailOf[r]
               [] l = "journey" -> JourneyOf[r]
               [] l = "global"  -> Everyone

\* A counter document's _id, '<limit>:<key>:<windowStart>'.
Buckets == {<<l, Key(r, l), w>> : r \in Requests, l \in Limits, w \in Windows}

BucketAt(r, l, t) == <<l, Key(r, l), Window(t)>>

=============================================================================
