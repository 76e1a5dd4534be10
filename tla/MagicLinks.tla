----------------------------- MODULE MagicLinks -----------------------------
(***************************************************************************)
(* What email verification promises of its links, each changing in one     *)
(* atomic step.                                                            *)
(*                                                                         *)
(* A link waits until its email has gone, is live until it is used,        *)
(* overtaken by another of its journey or out of date, and is used at most *)
(* once, while it is live.  That it was used is remembered for VerifiedTtl *)
(* at least.  What is over never comes back.                               *)
(***************************************************************************)
EXTENDS SendLimits

CONSTANTS
  LinkTtl,       \* how long a link can be used
  VerifiedTtl    \* how long a verification counts

VARIABLES
  clock,
  mailed,   \* the requests whose links have gone out
  link      \* each request's link: its phase, and the time that goes with it

vars == <<clock, mailed, link>>

Waiting == [phase |-> "waiting", time |-> 0]
Live(expiresAt) == [phase |-> "live", time |-> expiresAt]
Verified(verifiedAt) == [phase |-> "verified", time |-> verifiedAt]
Over == [phase |-> "over", time |-> 0]

Init ==
  /\ clock = 0
  /\ mailed = {}
  /\ link = [x \in Requests |-> Waiting]

Becomes(x, state) ==
  /\ link' = [link EXCEPT ![x] = state]
  /\ UNCHANGED <<clock, mailed>>

Mail(x) ==
  /\ link[x] = Waiting
  /\ mailed' = mailed \cup {x}
  /\ UNCHANGED <<clock, link>>

\* The journey's other live link is over in the same step, and not before.
GoLive(x) ==
  /\ link[x] = Waiting /\ x \in mailed
  /\ \E expiresAt \in 0..(clock + LinkTtl) :
       link' = [y \in Requests |->
                  IF y = x THEN Live(expiresAt)
                  ELSE IF JourneyOf[y] = JourneyOf[x] /\ link[y].phase = "live"
                         THEN Over
                         ELSE link[y]]
  /\ UNCHANGED <<clock, mailed>>

GiveUp(x) == link[x] = Waiting /\ Becomes(x, Over)

\* Somebody who has the link confirms, at some time before it expires.
Use(x) ==
  /\ link[x].phase = "live"
  /\ \E now \in 0..clock : now < link[x].time /\ Becomes(x, Verified(now))

Lapse(x) ==
  /\ link[x].phase = "live" /\ link[x].time <= clock
  /\ Becomes(x, Over)

Forget(x) ==
  /\ link[x].phase = "verified" /\ link[x].time + VerifiedTtl <= clock
  /\ Becomes(x, Over)

Tick ==
  /\ clock < MaxClock
  /\ clock' = clock + 1
  /\ UNCHANGED <<mailed, link>>

Next ==
  \/ Tick
  \/ \E x \in Requests :
       Mail(x) \/ GoLive(x) \/ GiveUp(x) \/ Use(x) \/ Lapse(x) \/ Forget(x)

Spec == Init /\ [][Next]_vars

=============================================================================
