-------------------------- MODULE EmailVerification --------------------------
(***************************************************************************)
(* The email verification service: the requests of LinkRequests together   *)
(* with the attempts to use a link (verify-link.js), the registrations     *)
(* that the gate lets through or refuses (registration-gate.js) and the    *)
(* browsers asking for the journey's state (current-status.js).            *)
(*                                                                         *)
(* Each takes its `now` before its first await and goes on using it.       *)
(***************************************************************************)
EXTENDS LinkRequests

CONSTANTS
  Attempts,       \* POSTs of a link's token
  Registrations,  \* POSTs of a registration, on a tier with the gate on
  Polls           \* GETs of the current verification

\* There is a link to be used, and so a journey and an address.
ASSUME UseAssumption == Requests # {}

VARIABLES
  attempt,        \* what each attempt is doing, and its answer
  registration,
  poll

useVars == <<attempt, registration, poll>>

vars == <<clock, records, secondary, requestVars, verifiedOn, useVars>>

Codes == {"TOKEN_INVALID", "TOKEN_EXPIRED", "TOKEN_SUPERSEDED",
          "TOKEN_ALREADY_USED"}

\* TLC and the prover both want a value of the right kind before there is one.
SomeRequest == CHOOSE r \in Requests : TRUE
SomeJourney == CHOOSE j \in Journeys : TRUE
SomeEmail == CHOOSE e \in Emails : TRUE

AttemptStates ==
  [step : {"idle", "mark", "explain", "done"}, link : Requests, now : Times,
   answer : Codes \cup {"none", "VERIFIED", "VERIFICATION_FAILED"}]

RegistrationStates ==
  [step : {"idle", "check", "done"}, journey : Journeys, email : Emails,
   now : Times, answer : {"none", "accepted", "EMAIL_NOT_VERIFIED"}]

PollStates ==
  [step : {"idle", "latest", "verification", "done"}, journey : Journeys,
   now : Times, link : Requests, was : Docs,
   answer : {"unknown", "none", "pending", "expired", "verified"}]

\* The one type invariant.
TypeOK ==
  /\ clock \in Times
  /\ records \in [Requests -> Docs]
  /\ secondary \in [Requests -> Docs]
  /\ grants \in [Requests -> Times \cup {NotGranted}]
  /\ pc \in [Requests -> Steps]
  /\ undoing \in [Requests -> SUBSET {"record", "quota"}]
  /\ snapshot \in [Requests -> [Requests -> Docs]]
  /\ mailed \in Seq(Requests)
  /\ verifiedOn \in [Requests -> Times \cup {Never}]
  /\ faults \in Nat
  /\ attempt \in [Attempts -> AttemptStates]
  /\ registration \in [Registrations -> RegistrationStates]
  /\ poll \in [Polls -> PollStates]

Init ==
  /\ InitRequests
  /\ attempt = [a \in Attempts |->
       [step |-> "idle", link |-> SomeRequest, now |-> 0, answer |-> "none"]]
  /\ registration = [g \in Registrations |->
       [step |-> "idle", journey |-> SomeJourney, email |-> SomeEmail,
        now |-> 0, answer |-> "none"]]
  /\ poll = [p \in Polls |->
       [step |-> "idle", journey |-> SomeJourney, now |-> 0,
        link |-> SomeRequest, was |-> NoDoc, answer |-> "unknown"]]

-----------------------------------------------------------------------------
(* verify-link.js                                                          *)

\* The applicant presses Confirm on the page a link opens.
OpenLink(a) ==
  /\ attempt[a].step = "idle"
  /\ \E i \in 1..Len(mailed) :
       attempt' = [attempt EXCEPT ![a].step = "mark", ![a].link = mailed[i],
                                  ![a].now = clock]
  /\ UNCHANGED <<clock, records, secondary, requestVars, verifiedOn,
                 registration, poll>>

\* markVerified's atomic update.  It waits for a transaction that has written
\* the record to end.
Verify(x, now) ==
  /\ ~Locked(x)
  /\ Change(x, VerifiedDoc(records[x], now))
  /\ verifiedOn' = [verifiedOn EXCEPT ![x] = now]

Answer(a, step, code) ==
  attempt' = [attempt EXCEPT ![a].step = step, ![a].answer = code]

MarkVerified(a) ==
  LET x == attempt[a].link
      now == attempt[a].now
  IN  /\ attempt[a].step = "mark"
      /\ \/ /\ CanVerify(records[x], now)
            /\ Verify(x, now)
            /\ Answer(a, "done", "VERIFIED")
         \/ /\ ~CanVerify(records[x], now)
            /\ Answer(a, "explain", "none")
            /\ UNCHANGED <<records, verifiedOn>>
      /\ UNCHANGED <<clock, secondary, requestVars, registration, poll>>

\* The update is rejected, perhaps after it was applied.
MarkFails(a) ==
  LET x == attempt[a].link
      now == attempt[a].now
  IN  /\ attempt[a].step = "mark"
      /\ Fault
      /\ \/ UNCHANGED <<records, verifiedOn>>
         \/ CanVerify(records[x], now) /\ Verify(x, now)
      /\ Answer(a, "done", "VERIFICATION_FAILED")
      /\ UNCHANGED <<clock, secondary, grants, pc, undoing, snapshot, mailed,
                     registration, poll>>

\* Mutant: a pending record is taken to have expired.
RejectionOfPending(doc, now) ==
  CASE doc.status = "verified"   -> "TOKEN_ALREADY_USED"
    [] doc.status = "superseded" -> "TOKEN_SUPERSEDED"
    [] doc.status = "pending"    -> "TOKEN_EXPIRED"
    [] OTHER -> "TOKEN_INVALID"

\* rejection: why a link that did not verify cannot be used.
Rejection(doc, now) ==
  CASE doc.status = "verified"   -> "TOKEN_ALREADY_USED"
    [] doc.status = "superseded" -> "TOKEN_SUPERSEDED"
    [] doc.status = "pending" /\ ExpiresAt(doc) <= now -> "TOKEN_EXPIRED"
    [] OTHER -> "TOKEN_INVALID"

Explain(a) ==
  /\ attempt[a].step = "explain"
  /\ \E copy \in Copies :
       Answer(a, "done", Rejection(copy[attempt[a].link], attempt[a].now))
  /\ UNCHANGED <<clock, records, secondary, requestVars, verifiedOn,
                 registration, poll>>

-----------------------------------------------------------------------------
(* registration-gate.js                                                    *)

Submit(g) ==
  /\ registration[g].step = "idle"
  /\ \E j \in Journeys, e \in Emails :
       registration' = [registration EXCEPT
         ![g].step = "check", ![g].journey = j, ![g].email = e,
         ![g].now = clock]
  /\ UNCHANGED <<clock, records, secondary, requestVars, verifiedOn, attempt,
                 poll>>

GateOpens(copy, j, e, now) ==
  RecentVerifications(copy, j, e, now - VerifiedTtl) # {}

Check(g) ==
  LET it == registration[g]
  IN  /\ it.step = "check"
      /\ \E copy \in Copies :
           registration' = [registration EXCEPT
             ![g].step = "done",
             ![g].answer = IF GateOpens(copy, it.journey, it.email, it.now)
                           THEN "accepted" ELSE "EMAIL_NOT_VERIFIED"]
      /\ UNCHANGED <<clock, records, secondary, requestVars, verifiedOn,
                     attempt, poll>>

-----------------------------------------------------------------------------
(* current-status.js                                                       *)

Ask(p) ==
  /\ poll[p].step = "idle"
  /\ \E j \in Journeys :
       poll' = [poll EXCEPT ![p].step = "latest", ![p].journey = j,
                            ![p].now = clock]
  /\ UNCHANGED <<clock, records, secondary, requestVars, verifiedOn, attempt,
                 registration>>

\* The first read: the journey's latest link.
ReadLatest(p) ==
  LET it == poll[p]
  IN  /\ it.step = "latest"
      /\ \E copy \in Copies :
           \/ /\ LatestRecords(copy, it.journey) = {}
              /\ poll' = [poll EXCEPT ![p].step = "done", ![p].answer = "none"]
           \/ \E x \in LatestRecords(copy, it.journey) :
                poll' = [poll EXCEPT ![p].step = "verification",
                                     ![p].link = x, ![p].was = copy[x]]
      /\ UNCHANGED <<clock, records, secondary, requestVars, verifiedOn,
                     attempt, registration>>

\* What the second read and the first, together, are answered with.
StatusOf(verification, latest, now) ==
  IF verification # {} THEN "verified"
  ELSE IF latest.status = "pending" /\ ExpiresAt(latest) > now THEN "pending"
  ELSE "expired"

\* The second: a recent verification of the address that link went to.
ReadVerification(p) ==
  LET it == poll[p]
  IN  /\ it.step = "verification"
      /\ \E copy \in Copies :
           LET found == RecentVerifications(copy, it.journey, EmailOf[it.link],
                                            it.now - VerifiedTtl)
           IN  poll' = [poll EXCEPT
                 ![p].step = "done",
                 ![p].answer = StatusOf(found, it.was, it.now)]
      /\ UNCHANGED <<clock, records, secondary, requestVars, verifiedOn,
                     attempt, registration>>

-----------------------------------------------------------------------------

Request(r) == Send(r) \/ Undo(r) \/ Activate(r) \/ Faulty(r)

Use ==
  \/ \E a \in Attempts :
       OpenLink(a) \/ MarkVerified(a) \/ MarkFails(a) \/ Explain(a)
  \/ \E g \in Registrations : Submit(g) \/ Check(g)
  \/ \E p \in Polls : Ask(p) \/ ReadLatest(p) \/ ReadVerification(p)

Next ==
  \/ \E r \in Requests : Request(r) /\ UNCHANGED useVars
  \/ Background /\ UNCHANGED useVars
  \/ Use

\* Once the email has gone the code goes on by itself: each operation of the
\* transaction is answered, and the driver retries one that conflicts.
Fairness ==
  \A r \in Requests : WF_vars(Activate(r) /\ UNCHANGED useVars)

Spec == Init /\ [][Next]_vars /\ Fairness

-----------------------------------------------------------------------------
(* MagicLinks, of which this is an implementation.                         *)

\* A request that will not activate its link any more.
Ended == {"done", "undone", "failed", "dead"}

\* What is stored of a link, and whether its request is still at it.
LinkState(x) ==
  CASE records[x].status = "pending" ->
         [phase |-> "live", time |-> ExpiresAt(records[x])]
    [] records[x].status = "verified" ->
         [phase |-> "verified", time |-> records[x].verifiedAt]
    [] records[x].status \notin {"pending", "verified"} /\ pc[x] \notin Ended ->
         [phase |-> "waiting", time |-> 0]
    [] OTHER -> [phase |-> "over", time |-> 0]

linkBar == [x \in Requests |-> LinkState(x)]

Links == INSTANCE MagicLinks WITH mailed <- ToSet(mailed), link <- linkBar

-----------------------------------------------------------------------------
(* Properties.                                                             *)

Pending(j) ==
  {x \in Requests : JourneyOf[x] = j /\ records[x].status = "pending"}

\* "At most one link is ever live": however activations of one journey
\* interleave, conflict and retry.
AtMostOneLive ==
  \A j \in Journeys : \A x, y \in Pending(j) : x = y

\* Until a new link can be used the old one stays usable: a link is superseded
\* only in the step that makes another link of the journey, one whose email
\* has gone, pending.  An activation that fails half way supersedes nothing.
SupersededByAnother ==
  [][\A x \in Requests :
       records[x].status = "pending" /\ records'[x].status = "superseded" =>
         \E y \in Requests \ {x} :
           /\ JourneyOf[y] = JourneyOf[x]
           /\ records[y].status = "sending"
           /\ records'[y].status = "pending"
           /\ Contains(mailed, y)]_vars

\* "Of any number of concurrent attempts, exactly one succeeds", of which this
\* is the half that is about safety: no two are told that they verified the
\* same link.  (None may, if it expires or is superseded first.)
OneSuccess ==
  \A a, b \in Attempts :
    /\ attempt[a].answer = "VERIFIED"
    /\ attempt[b].answer = "VERIFIED"
    /\ attempt[a].link = attempt[b].link
    => a = b

\* A verification is never lost while it counts: until its VerifiedTtl is over
\* the record is there and still says verified, whatever is superseded, purged
\* or undone meanwhile.
VerificationKept ==
  \A x \in Requests :
    verifiedOn[x] # Never /\ clock < verifiedOn[x] + VerifiedTtl =>
      records[x].status = "verified" /\ records[x].verifiedAt = verifiedOn[x]

\* A code that is final tells the truth for good, even read from a copy that
\* lags: a used link was verified, a superseded one never has been and never
\* will be, an expired one had expired when the attempt was made.
RejectionIsTrue ==
  \A a \in Attempts :
    LET x == attempt[a].link
        code == attempt[a].answer
    IN  /\ code = "TOKEN_ALREADY_USED" => verifiedOn[x] # Never
        /\ code = "TOKEN_SUPERSEDED" =>
             /\ verifiedOn[x] = Never
             /\ records[x].status \in {"superseded", "none"}
        /\ code = "TOKEN_EXPIRED" /\ records[x].status # "none" =>
             ExpiresAt(records[x]) <= attempt[a].now

\* README.md, of EMAIL_SEND_FAILED: "Nothing is stored and no quota is used".
\* A request that Notify failed leaves neither record nor quota when its undo
\* ran without a fault, though its email may have gone.
NothingLeftBehind ==
  \A r \in Requests :
    pc[r] = "undone" /\ faults = 0 =>
      records[r] = NoDoc /\ grants[r] = NotGranted

\* A registration is accepted only on a verification of its own address, made
\* on its own journey, within VerifiedTtl of when it was submitted.
GateNeedsVerification ==
  \A g \in Registrations :
    registration[g].answer = "accepted" =>
      \E x \in Requests :
        /\ JourneyOf[x] = registration[g].journey
        /\ EmailOf[x] = registration[g].email
        /\ verifiedOn[x] # Never
        /\ verifiedOn[x] + VerifiedTtl > registration[g].now

\* README.md, of EMAIL_NOT_VERIFIED: "The contact email has no verification for
\* this journey".  The step that refuses a registration finds none that counts
\* at that moment.
RefusedOnlyUnverified ==
  [][\A g \in Registrations :
       LET it == registration'[g]
       IN  registration[g].step = "check" /\ it.answer = "EMAIL_NOT_VERIFIED" =>
             \A x \in Requests :
               /\ JourneyOf[x] = it.journey /\ EmailOf[x] = it.email
               /\ verifiedOn[x] # Never
               => verifiedOn[x] + VerifiedTtl <= clock]_vars

\* A browser is told `verified` only for an address that was verified on its
\* journey, and `pending` only of a link whose email has gone, although the
\* answer is put together from two reads.
PollTellsTruth ==
  \A p \in Polls :
    /\ poll[p].answer = "verified" =>
         \E x \in Requests :
           /\ JourneyOf[x] = poll[p].journey
           /\ EmailOf[x] = EmailOf[poll[p].link]
           /\ verifiedOn[x] # Never
           /\ verifiedOn[x] + VerifiedTtl > poll[p].now
    /\ poll[p].answer = "pending" =>
         Contains(mailed, poll[p].link) /\ poll[p].was.createdAt + LinkTtl > poll[p].now

\* All of verification is an implementation of MagicLinks: every step of a
\* request, its undo, its transaction, an attempt or the TTL index is, for the
\* link, one atomic step of its life or none, so that a link is used once, while
\* it is live, at most one of a journey is, and none comes back to life.
ImplementsLinks == Links!Spec

\* An activation ends: two of one journey conflict, wait and retry, and none
\* does so for ever.
ActivationEnds ==
  \A r \in Requests :
    pc[r] = "activate" ~> pc[r] \in {"done", "failed", "dead"}

\* README.md: "A new link supersedes the journey's earlier ones, so only the
\* latest works".  A link that is superseded was mailed before the one of its
\* journey that is live.
LatestLinkWorks ==
  \A x, y \in Requests :
    /\ JourneyOf[x] = JourneyOf[y]
    /\ records[x].status = "superseded" /\ records[y].status = "pending"
    => \E i, k \in 1..Len(mailed) : i < k /\ mailed[i] = x /\ mailed[k] = y

=============================================================================
