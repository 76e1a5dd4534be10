------------------------------ MODULE SendQuota ------------------------------
(***************************************************************************)
(* What the rate limiter promises its caller, as one atomic decision.      *)
(*                                                                         *)
(* A request is granted a send only while every limit it counts towards    *)
(* has room left in its window, and never so that two granted requests of  *)
(* one journey are within their cooldowns at the same time.  A grant can   *)
(* be given back, by the request whose email then could not be sent.       *)
(***************************************************************************)
EXTENDS SendLimits

CONSTANT NotGranted

VARIABLES
  clock,
  grants   \* the time each granted request was made at

vars == <<clock, grants>>

GrantedIn(b) ==
  {r \in Requests : grants[r] # NotGranted /\ BucketAt(r, b[1], grants[r]) = b}

CoolingDown(t) == t + Cooldown > clock

Init ==
  /\ clock = 0
  /\ grants = [r \in Requests |-> NotGranted]

Grant(r) ==
  \E t \in Times :
    /\ grants[r] = NotGranted
    /\ t <= clock
    /\ \A l \in Limits :
         Cardinality(GrantedIn(BucketAt(r, l, t))) < MaxSends[l]
    /\ CoolingDown(t) =>
         \A s \in Requests :
           JourneyOf[s] = JourneyOf[r] /\ grants[s] # NotGranted
             => ~CoolingDown(grants[s])
    /\ grants' = [grants EXCEPT ![r] = t]
    /\ UNCHANGED clock

GiveBack(r) ==
  /\ grants[r] # NotGranted
  /\ grants' = [grants EXCEPT ![r] = NotGranted]
  /\ UNCHANGED clock

Tick ==
  /\ clock < MaxClock
  /\ clock' = clock + 1
  /\ UNCHANGED grants

Next == Tick \/ \E r \in Requests : Grant(r) \/ GiveBack(r)

Spec == Init /\ [][Next]_vars

=============================================================================
