----------------------- MODULE EmailVerification_proofs -----------------------
(***************************************************************************)
(* Theorems about EmailVerification, for any finite set of requests, any   *)
(* journeys, addresses, lifetimes and readers, and either read preference. *)
(***************************************************************************)
EXTENDS EmailVerification, TLAPS

-----------------------------------------------------------------------------
(* Facts about the constants and the values a read starts from.            *)

LEMMA Constants ==
  /\ \A r \in Requests : JourneyOf[r] \in Journeys /\ EmailOf[r] \in Emails
  /\ LinkTtl \in Nat \ {0} /\ VerifiedTtl \in Nat \ {0} /\ Retention \in Nat
  /\ Retention >= LinkTtl + VerifiedTtl
  /\ MaxClock \in Nat /\ MaxFaults \in Nat
  /\ NotGranted \notin Nat /\ Never \notin Nat
BY RequestsAssumption, SettingsAssumption, RecordsAssumption,
   RequestsFaultsAssumption

LEMMA SomeExist ==
  SomeRequest \in Requests /\ SomeJourney \in Journeys /\ SomeEmail \in Emails
<1>1. SomeRequest \in Requests
  BY UseAssumption DEF SomeRequest
<1>2. JourneyOf[SomeRequest] \in Journeys /\ EmailOf[SomeRequest] \in Emails
  BY <1>1, Constants
<1>3. QED
  BY <1>1, <1>2 DEF SomeJourney, SomeEmail

LEMMA DocTypes ==
  /\ NoDoc \in Docs /\ NoDoc.status = "none"
  /\ NoDocs \in [Requests -> Docs]
  /\ \A now \in Times : SendingDoc(now) \in Docs
  /\ \A doc \in Docs, now \in Times : VerifiedDoc(doc, now) \in Docs
<1>1. 0 \in Times
  BY Constants DEF Times
<1>2. NoDoc \in Docs /\ NoDoc.status = "none"
  BY <1>1 DEF NoDoc, Docs
<1>3. \A now \in Times : SendingDoc(now) \in Docs
  BY <1>1 DEF SendingDoc, Docs, Statuses
<1>4. ASSUME NEW doc \in Docs, NEW now \in Times PROVE VerifiedDoc(doc, now) \in Docs
  <2>1. [doc EXCEPT !.status = "verified"] \in Docs
    BY DEF Docs, Statuses
  <2>2. QED
    BY <2>1 DEF VerifiedDoc, Docs, Statuses
<1>5. QED
  BY <1>2, <1>3, <1>4 DEF NoDocs

\* A read outside a transaction returns a collection.
LEMMA CopyTypes ==
  ASSUME TypeOK, NEW copy \in Copies
  PROVE  copy \in [Requests -> Docs] /\ copy \in {records, secondary}
BY DEF Copies, TypeOK

-----------------------------------------------------------------------------
(* Types.  A record can be inserted because its request holds a grant.     *)

QuotaHeld == \A r \in Requests : pc[r] = "insert" => grants[r] # NotGranted

Typed == TypeOK /\ QuotaHeld

LEMMA InitTyped == Init => Typed
<1>1. <<>> \in Seq(Requests)
  OBVIOUS
<1>2. 0 \in Times
  BY Constants DEF Times
<1>3. NoDoc \in Docs /\ NoDocs \in [Requests -> Docs]
  BY DocTypes
<1>4. QED
  BY <1>1, <1>2, <1>3, SomeExist
     DEF Init, InitRequests, Quota!Init, Typed, TypeOK, QuotaHeld, Steps,
         AttemptStates, RegistrationStates, PollStates

\* What the end of a transaction changes, whatever it ends with.
LEMMA EndTyped ==
  ASSUME Typed, NEW r \in Requests, NEW step \in Steps \ {"insert"},
         EndTransaction(r, step), UNCHANGED grants
  PROVE  /\ pc' \in [Requests -> Steps]
         /\ snapshot' \in [Requests -> [Requests -> Docs]]
         /\ QuotaHeld'
<1>1. pc' \in [Requests -> Steps]
  BY DEF EndTransaction, Typed, TypeOK
<1>2. snapshot' \in [Requests -> [Requests -> Docs]]
  BY DocTypes DEF EndTransaction, Typed, TypeOK
<1>3. QuotaHeld'
  BY DEF EndTransaction, Typed, TypeOK, QuotaHeld
<1>4. QED
  BY <1>1, <1>2, <1>3

\* A request for a link.
LEMMA RequestTyped ==
  ASSUME Typed, NEW r \in Requests, Request(r), UNCHANGED useVars
  PROVE  Typed'
<1> USE DEF Typed, TypeOK, QuotaHeld, Steps, Goto, Fault, useVars
<1>1. CASE Reserve(r)
  <2>1. PICK t \in Times : grants' = [grants EXCEPT ![r] = t]
    BY <1>1 DEF Reserve, Quota!Grant, Quota!Times, Times
  <2>2. t # NotGranted
    BY Constants DEF Times
  <2>3. QED
    BY <1>1, <2>1, <2>2 DEF Reserve
<1>2. CASE InsertSendingRecord(r)
  <2>1. grants[r] \in Times
    BY <1>2 DEF InsertSendingRecord
  <2>2. QED
    BY <1>2, <2>1, DocTypes DEF InsertSendingRecord, Change
<1>3. CASE InsertFails(r)
  <2>1. grants[r] \in Times
    BY <1>3 DEF InsertFails
  <2>2. QED
    BY <1>3, <2>1, DocTypes DEF InsertFails, Change
<1>4. CASE SendEmail(r)
  BY <1>4 DEF SendEmail
<1>5. CASE SendFails(r)
  <2>1. Append(mailed, r) \in Seq(Requests)
    OBVIOUS
  <2>2. QED
    BY <1>5, <2>1 DEF SendFails
<1>6. CASE DeleteSendingRecord(r)
  BY <1>6, DocTypes DEF DeleteSendingRecord, Change, AfterDelete
<1>7. CASE ReleaseQuota(r)
  BY <1>7 DEF ReleaseQuota, Quota!GiveBack
<1>8. CASE UndoFails(r)
  BY <1>8 DEF UndoFails
<1>9. CASE EndUndo(r)
  BY <1>9 DEF EndUndo
<1>10. CASE WriteMarker(r)
  BY <1>10 DEF WriteMarker
<1>11. CASE Sweep(r)
  BY <1>11 DEF Sweep
<1>12. CASE MakePending(r)
  BY <1>12 DEF MakePending
<1>13. CASE Retry(r)
  <2>1. EndTransaction(r, "activate") /\ UNCHANGED grants
    BY <1>13 DEF Retry
  <2>2. /\ pc' \in [Requests -> Steps] /\ QuotaHeld'
        /\ snapshot' \in [Requests -> [Requests -> Docs]]
    BY <2>1, EndTyped
  <2>3. UNCHANGED <<clock, records, secondary, grants, undoing, mailed,
                    verifiedOn, faults>>
    BY <1>13 DEF Retry
  <2>4. QED
    BY <2>2, <2>3
<1>14. CASE NoLongerSending(r)
  <2>1. EndTransaction(r, "failed") /\ UNCHANGED grants
    BY <1>14 DEF NoLongerSending
  <2>2. /\ pc' \in [Requests -> Steps] /\ QuotaHeld'
        /\ snapshot' \in [Requests -> [Requests -> Docs]]
    BY <2>1, EndTyped
  <2>3. UNCHANGED <<clock, records, secondary, grants, undoing, mailed,
                    verifiedOn, faults>>
    BY <1>14 DEF NoLongerSending
  <2>4. QED
    BY <2>2, <2>3
<1>15. CASE Commit(r)
  <2>1. Activated(r) \in [Requests -> Docs]
    <3>1. ASSUME NEW doc \in Docs, NEW status \in Statuses
          PROVE  [doc EXCEPT !.status = status] \in Docs
      BY <3>1 DEF Docs
    <3>2. "pending" \in Statuses /\ "superseded" \in Statuses
      BY DEF Statuses
    <3>3. ASSUME NEW x \in Requests
          PROVE  /\ records[x] \in Docs
                 /\ [records[x] EXCEPT !.status = "pending"] \in Docs
                 /\ [records[x] EXCEPT !.status = "superseded"] \in Docs
      BY <3>1, <3>2
    <3>4. QED
      BY <3>3 DEF Activated
  <2>2. faults' \in Nat
    BY <1>15 DEF Commit
  <2>3. NoDocs \in [Requests -> Docs]
    BY DocTypes
  <2>4. \E step \in {"done", "failed"} : EndTransaction(r, step)
    BY <1>15 DEF Commit
  <2>5. pc' \in [Requests -> Steps] /\ pc'[r] # "insert"
        /\ \A s \in Requests \ {r} : pc'[s] = pc[s]
    BY <2>4 DEF EndTransaction
  <2>6. snapshot' \in [Requests -> [Requests -> Docs]]
    BY <2>3, <2>4 DEF EndTransaction
  <2>7. QED
    BY <1>15, <2>1, <2>2, <2>5, <2>6 DEF Commit
<1>16. CASE TransactionFails(r)
  <2>1. faults' \in Nat
    BY <1>16 DEF TransactionFails
  <2>2. NoDocs \in [Requests -> Docs]
    BY DocTypes
  <2>3. QED
    BY <1>16, <2>1, <2>2 DEF TransactionFails, EndTransaction
<1>17. CASE ProcessDies(r)
  <2>1. faults' \in Nat
    BY <1>17 DEF ProcessDies
  <2>2. NoDocs \in [Requests -> Docs]
    BY DocTypes
  <2>3. QED
    BY <1>17, <2>1, <2>2 DEF ProcessDies, EndTransaction
<1>18. QED
  BY <1>1, <1>2, <1>3, <1>4, <1>5, <1>6, <1>7, <1>8, <1>9, <1>10, <1>11,
     <1>12, <1>13, <1>14, <1>15, <1>16, <1>17
     DEF Request, Send, Undo, Activate, Faulty

LEMMA BackgroundTyped ==
  ASSUME Typed, Background, UNCHANGED useVars
  PROVE  Typed'
<1> USE DEF Typed, TypeOK, QuotaHeld, useVars, requestVars
<1>1. CASE Tick
  BY <1>1, Constants DEF Tick, Times
<1>2. CASE CatchUp
  BY <1>2 DEF CatchUp, Replicate
<1>3. ASSUME NEW x \in Requests, PurgeRecord(x) PROVE Typed'
  BY <1>3, DocTypes DEF PurgeRecord, Change
<1>4. QED
  BY <1>1, <1>2, <1>3 DEF Background

\* An attempt's next step, its answer, and the effect of marking a link.
LEMMA AnswerTyped ==
  ASSUME TypeOK, NEW a \in Attempts,
         NEW step \in {"explain", "done"},
         NEW code \in Codes \cup {"none", "VERIFIED", "VERIFICATION_FAILED"},
         Answer(a, step, code)
  PROVE  attempt' \in [Attempts -> AttemptStates]
<1>1. attempt \in [Attempts -> AttemptStates]
  BY DEF TypeOK
<1>2. attempt' = [attempt EXCEPT ![a].step = step, ![a].answer = code]
  BY DEF Answer
<1>3. QED
  BY <1>1, <1>2 DEF AttemptStates

LEMMA MarkTyped ==
  ASSUME TypeOK, NEW a \in Attempts
  PROVE  /\ attempt[a].link \in Requests /\ attempt[a].now \in Times
         /\ Verify(attempt[a].link, attempt[a].now) =>
              /\ records' \in [Requests -> Docs]
              /\ verifiedOn' \in [Requests -> Times \cup {Never}]
<1>1. attempt[a].link \in Requests /\ attempt[a].now \in Times
  BY DEF TypeOK, AttemptStates
<1>2. records \in [Requests -> Docs] /\ verifiedOn \in [Requests -> Times \cup {Never}]
  BY DEF TypeOK
<1>3. VerifiedDoc(records[attempt[a].link], attempt[a].now) \in Docs
  BY <1>1, <1>2, DocTypes
<1>4. QED
  BY <1>1, <1>2, <1>3 DEF Verify, Change

\* Whoever uses a link.
LEMMA AttemptTyped ==
  ASSUME Typed, NEW a \in Attempts,
         OpenLink(a) \/ MarkVerified(a) \/ MarkFails(a) \/ Explain(a)
  PROVE  Typed'
<1>1. TypeOK
  BY DEF Typed
<1>2. CASE OpenLink(a)
  <2>1. attempt \in [Attempts -> AttemptStates] /\ clock \in Times /\ mailed \in Seq(Requests)
    BY <1>1 DEF TypeOK
  <2>2. PICK i \in 1..Len(mailed) :
          attempt' = [attempt EXCEPT ![a].step = "mark", ![a].link = mailed[i],
                                     ![a].now = clock]
    BY <1>2 DEF OpenLink
  <2>3. mailed[i] \in Requests
    BY <2>1
  <2>4. attempt' \in [Attempts -> AttemptStates]
    BY <2>1, <2>2, <2>3 DEF AttemptStates
  <2>5. QED
    BY <1>2, <2>4 DEF OpenLink, Typed, TypeOK, QuotaHeld, requestVars
<1>3. CASE MarkVerified(a)
  <2>1. attempt' \in [Attempts -> AttemptStates]
    BY <1>1, <1>3, AnswerTyped DEF MarkVerified
  <2>2. records' \in [Requests -> Docs] /\ verifiedOn' \in [Requests -> Times \cup {Never}]
    BY <1>1, <1>3, MarkTyped DEF MarkVerified, TypeOK
  <2>3. QED
    BY <1>3, <2>1, <2>2 DEF MarkVerified, Typed, TypeOK, QuotaHeld, requestVars
<1>4. CASE MarkFails(a)
  <2>1. attempt' \in [Attempts -> AttemptStates]
    BY <1>1, <1>4, AnswerTyped DEF MarkFails
  <2>2. records' \in [Requests -> Docs] /\ verifiedOn' \in [Requests -> Times \cup {Never}]
    BY <1>1, <1>4, MarkTyped DEF MarkFails, TypeOK
  <2>3. faults' \in Nat
    BY <1>1, <1>4 DEF MarkFails, Fault, TypeOK
  <2>4. QED
    BY <1>4, <2>1, <2>2, <2>3 DEF MarkFails, Typed, TypeOK, QuotaHeld
<1>5. CASE Explain(a)
  <2>1. PICK copy \in Copies :
          Answer(a, "done", Rejection(copy[attempt[a].link], attempt[a].now))
    BY <1>5 DEF Explain
  <2>2. Rejection(copy[attempt[a].link], attempt[a].now) \in Codes
    BY DEF Rejection, Codes
  <2>3. attempt' \in [Attempts -> AttemptStates]
    BY <1>1, <2>1, <2>2, AnswerTyped
  <2>4. QED
    BY <1>5, <2>3 DEF Explain, Typed, TypeOK, QuotaHeld, requestVars
<1>6. QED
  BY <1>2, <1>3, <1>4, <1>5

\* Whoever registers.
LEMMA RegistrationTyped ==
  ASSUME Typed, NEW g \in Registrations, Submit(g) \/ Check(g)
  PROVE  Typed'
<1>1. registration \in [Registrations -> RegistrationStates] /\ clock \in Times
  BY DEF Typed, TypeOK
<1>2. CASE Submit(g)
  <2>1. PICK j \in Journeys, e \in Emails :
          registration' = [registration EXCEPT
            ![g].step = "check", ![g].journey = j, ![g].email = e,
            ![g].now = clock]
    BY <1>2 DEF Submit
  <2>2. [registration[g] EXCEPT !.step = "check", !.journey = j, !.email = e,
                               !.now = clock] \in RegistrationStates
    BY <1>1 DEF RegistrationStates
  <2>3. registration' \in [Registrations -> RegistrationStates]
    BY <1>1, <2>1, <2>2
  <2>4. QED
    BY <1>2, <2>3 DEF Submit, Typed, TypeOK, QuotaHeld, requestVars
<1>3. CASE Check(g)
  <2>1. PICK code \in {"accepted", "EMAIL_NOT_VERIFIED"} :
          registration' = [registration EXCEPT ![g].step = "done",
                                               ![g].answer = code]
    BY <1>3 DEF Check
  <2>2. registration' \in [Registrations -> RegistrationStates]
    BY <1>1, <2>1 DEF RegistrationStates
  <2>3. QED
    BY <1>3, <2>2 DEF Check, Typed, TypeOK, QuotaHeld, requestVars
<1>4. QED
  BY <1>2, <1>3

\* Whoever asks for the status.
LEMMA PollTyped ==
  ASSUME Typed, NEW p \in Polls, Ask(p) \/ ReadLatest(p) \/ ReadVerification(p)
  PROVE  Typed'
<1>1. poll \in [Polls -> PollStates] /\ clock \in Times /\ TypeOK
  BY DEF Typed, TypeOK
<1>2. CASE Ask(p)
  <2>1. PICK j \in Journeys :
          poll' = [poll EXCEPT ![p].step = "latest", ![p].journey = j,
                               ![p].now = clock]
    BY <1>2 DEF Ask
  <2>2. [poll[p] EXCEPT !.step = "latest", !.journey = j, !.now = clock]
          \in PollStates
    BY <1>1 DEF PollStates
  <2>3. poll' \in [Polls -> PollStates]
    BY <1>1, <2>1, <2>2
  <2>4. QED
    BY <1>2, <2>3 DEF Ask, Typed, TypeOK, QuotaHeld, requestVars
<1>3. CASE ReadLatest(p)
  <2>1. PICK copy \in Copies :
          \/ poll' = [poll EXCEPT ![p].step = "done", ![p].answer = "none"]
          \/ \E x \in LatestRecords(copy, poll[p].journey) :
               poll' = [poll EXCEPT ![p].step = "verification",
                                    ![p].link = x, ![p].was = copy[x]]
    BY <1>3 DEF ReadLatest
  <2>2. \A x \in LatestRecords(copy, poll[p].journey) :
          x \in Requests /\ copy[x] \in Docs
    BY <1>1, CopyTypes DEF LatestRecords
  <2>3. CASE poll' = [poll EXCEPT ![p].step = "done", ![p].answer = "none"]
    <3>1. [poll[p] EXCEPT !.step = "done", !.answer = "none"] \in PollStates
      BY <1>1 DEF PollStates
    <3>2. poll' \in [Polls -> PollStates]
      BY <1>1, <2>3, <3>1
    <3>3. QED
      BY <1>3, <3>2 DEF ReadLatest, Typed, TypeOK, QuotaHeld, requestVars
  <2>4. ASSUME NEW x \in LatestRecords(copy, poll[p].journey),
               poll' = [poll EXCEPT ![p].step = "verification",
                                    ![p].link = x, ![p].was = copy[x]]
        PROVE  Typed'
    <3>1. [poll[p] EXCEPT !.step = "verification", !.link = x, !.was = copy[x]]
            \in PollStates
      BY <1>1, <2>2 DEF PollStates
    <3>2. poll' \in [Polls -> PollStates]
      BY <1>1, <2>4, <3>1
    <3>3. QED
      BY <1>3, <3>2 DEF ReadLatest, Typed, TypeOK, QuotaHeld, requestVars
  <2>5. QED
    BY <2>1, <2>3, <2>4
<1>4. CASE ReadVerification(p)
  <2>1. PICK code \in {"verified", "pending", "expired"} :
          poll' = [poll EXCEPT ![p].step = "done", ![p].answer = code]
    BY <1>4 DEF ReadVerification, StatusOf
  <2>2. poll' \in [Polls -> PollStates]
    BY <1>1, <2>1 DEF PollStates
  <2>3. QED
    BY <1>4, <2>2 DEF ReadVerification, Typed, TypeOK, QuotaHeld, requestVars
<1>5. QED
  BY <1>2, <1>3, <1>4

LEMMA StepTyped == Typed /\ [Next]_vars => Typed'
<1>1. CASE UNCHANGED vars
  BY <1>1 DEF vars, requestVars, useVars, Typed, TypeOK, QuotaHeld
<1>2. QED
  BY <1>1, RequestTyped, BackgroundTyped, AttemptTyped, RegistrationTyped,
     PollTyped
     DEF Next, Use

LEMMA TypedInvariant == Spec => []Typed
BY InitTyped, StepTyped, PTL DEF Spec

\* The state keeps its shape, whatever is requested, used, read, purged, lost
\* and retried.
THEOREM TypeCorrect == Spec => []TypeOK
<1>1. Typed => TypeOK
  BY DEF Typed
<1>2. QED
  BY <1>1, TypedInvariant, PTL

-----------------------------------------------------------------------------
(* The collection and the transactions over it.                            *)

\* Nothing is stored of a request before its insert.
Unstored == {"idle", "insert"}

NotStoredYet ==
  \A x \in Requests : pc[x] \in Unstored =>
    records[x] = NoDoc /\ secondary[x] = NoDoc /\ verifiedOn[x] = Never

NoneIsNoDoc ==
  \A x \in Requests : records[x].status = "none" => records[x] = NoDoc

\* The marker: one open transaction a journey.
OneTransaction ==
  \A r, s \in Requests :
    /\ pc[r] \in InTransaction /\ pc[s] \in InTransaction
    /\ JourneyOf[r] = JourneyOf[s]
    => r = s

\* While it is open no link of the journey becomes pending behind its back.
SnapshotCovers ==
  \A r \in Requests : pc[r] \in InTransaction =>
    \A x \in Requests \ {r} :
      JourneyOf[x] = JourneyOf[r] /\ records[x].status = "pending" =>
        snapshot[r][x].status = "pending"

\* What it has written nobody else has changed or written.
WrittenAsSeen ==
  \A r \in Requests : \A x \in Written(r) : records[x] = snapshot[r][x]

WrittenOnce ==
  \A r, s \in Requests : r # s => Written(r) \cap Written(s) = {}

MovedWasSending ==
  \A r \in Requests : pc[r] = "moved" => StillSending(r)

\* A verification is in its record as long as it counts, and made before the
\* link expired.
VerificationRecorded ==
  \A x \in Requests : verifiedOn[x] # Never =>
    \/ /\ records[x].status = "verified"
       /\ records[x].verifiedAt = verifiedOn[x]
       /\ verifiedOn[x] < ExpiresAt(records[x])
    \/ /\ records[x].status = "none"
       /\ verifiedOn[x] + VerifiedTtl <= clock

Transactional ==
  /\ OneTransaction /\ SnapshotCovers /\ WrittenAsSeen /\ WrittenOnce
  /\ MovedWasSending

RecordInv ==
  /\ Typed /\ NotStoredYet /\ NoneIsNoDoc /\ Transactional
  /\ VerificationRecorded /\ AtMostOneLive

\* What a transaction has written, before and after a step.
LEMMA WrittenMembers ==
  ASSUME NEW r \in Requests, NEW x \in Requests
  PROVE  /\ x \in Written(r) <=>
              \/ /\ pc[r] \in {"swept", "moved"}
                 /\ x \in OtherPending(snapshot[r], r)
              \/ pc[r] = "moved" /\ x = r
         /\ x \in Written(r)' <=>
              \/ /\ pc'[r] \in {"swept", "moved"}
                 /\ x \in OtherPending(snapshot'[r], r)
              \/ pc'[r] = "moved" /\ x = r
BY DEF Written, OtherPending

\* The kinds of steps the collection and its transactions know.
OthersStay(r) ==
  \A s \in Requests \ {r} : pc'[s] = pc[s] /\ snapshot'[s] = snapshot[s]

Inserts(r) ==
  /\ pc[r] = "insert" /\ pc'[r] \in {"send", "undo"} /\ OthersStay(r)
  /\ \E now \in Times : now = grants[r] /\ Change(r, SendingDoc(now))
  /\ UNCHANGED <<secondary, verifiedOn>>

Deletes(r) ==
  /\ pc[r] = "undo" /\ Change(r, AfterDelete(r))
  /\ UNCHANGED <<pc, snapshot, secondary, verifiedOn>>

Verifies(x, now) ==
  /\ CanVerify(records[x], now) /\ Verify(x, now)
  /\ UNCHANGED <<pc, snapshot, secondary>>

\* A request goes on, or out of its transaction, without writing anything.
GoesOn(r) ==
  /\ OthersStay(r) /\ UNCHANGED <<records, secondary, verifiedOn>>
  /\ pc'[r] \notin InTransaction /\ pc[r] \notin {"undone", "done", "failed", "dead"}
  /\ pc'[r] \in Unstored => pc[r] = "idle"

Stays == UNCHANGED <<records, secondary, pc, snapshot, verifiedOn>>

LEMMA StepKinds ==
  ASSUME Typed, [Next]_vars
  PROVE  \/ \E r \in Requests :
              \/ Inserts(r) \/ Deletes(r) \/ PurgeRecord(r) \/ GoesOn(r)
              \/ WriteMarker(r) \/ Sweep(r) \/ MakePending(r) \/ Commit(r)
         \/ \E x \in Requests, now \in Times : Verifies(x, now)
         \/ CatchUp
         \/ Stays
<1>1. ASSUME NEW r \in Requests, Request(r)
      PROVE  \/ Inserts(r) \/ Deletes(r) \/ GoesOn(r) \/ Stays
             \/ WriteMarker(r) \/ Sweep(r) \/ MakePending(r) \/ Commit(r)
  <2>1. pc \in [Requests -> Steps] /\ snapshot \in [Requests -> [Requests -> Docs]]
        /\ grants \in [Requests -> Times \cup {NotGranted}]
    BY DEF Typed, TypeOK
  <2>2. CASE Reserve(r)
    BY <2>1, <2>2 DEF Reserve, Goto, GoesOn, OthersStay, InTransaction, Unstored
  <2>3. grants[r] \in Times \/ pc[r] # "insert"
    BY <2>1 DEF Typed, QuotaHeld
  <2>4. CASE InsertSendingRecord(r)
    BY <2>1, <2>3, <2>4 DEF InsertSendingRecord, Goto, Inserts, OthersStay
  <2>5. CASE InsertFails(r)
    BY <2>1, <2>3, <2>5
       DEF InsertFails, Goto, Inserts, GoesOn, OthersStay, InTransaction, Unstored
  <2>6. CASE SendEmail(r) \/ SendFails(r) \/ EndUndo(r)
    BY <2>1, <2>6 DEF SendEmail, SendFails, EndUndo, Goto, GoesOn, OthersStay,
                      InTransaction, Unstored
  <2>7. CASE DeleteSendingRecord(r)
    BY <2>7 DEF DeleteSendingRecord, Deletes
  <2>8. CASE ReleaseQuota(r) \/ UndoFails(r)
    BY <2>8 DEF ReleaseQuota, UndoFails, Stays
  <2>9. CASE Retry(r) \/ NoLongerSending(r) \/ TransactionFails(r)
    BY <2>1, <2>9 DEF Retry, NoLongerSending, TransactionFails, EndTransaction,
                      GoesOn, OthersStay, InTransaction, Unstored
  <2>10. CASE ProcessDies(r)
    BY <2>1, <2>10 DEF ProcessDies, EndTransaction, GoesOn, OthersStay,
                       InTransaction, Unstored
  <2>11. QED
    BY <1>1, <2>2, <2>4, <2>5, <2>6, <2>7, <2>8, <2>9, <2>10
       DEF Request, Send, Undo, Activate, Faulty
<1>2. CASE Background
  BY <1>2 DEF Background, Tick, Stays, requestVars
<1>3. ASSUME NEW a \in Attempts, OpenLink(a) \/ Explain(a) PROVE Stays
  BY <1>3 DEF OpenLink, Explain, Stays, requestVars
<1>4. ASSUME NEW a \in Attempts, MarkVerified(a) \/ MarkFails(a)
      PROVE  Stays \/ Verifies(attempt[a].link, attempt[a].now)
  BY <1>4 DEF MarkVerified, MarkFails, Stays, Verifies, requestVars
<1>5. \A a \in Attempts : attempt[a].link \in Requests /\ attempt[a].now \in Times
  BY MarkTyped DEF Typed
<1>6. ASSUME NEW g \in Registrations, Submit(g) \/ Check(g) PROVE Stays
  BY <1>6 DEF Submit, Check, Stays, requestVars
<1>7. ASSUME NEW p \in Polls, Ask(p) \/ ReadLatest(p) \/ ReadVerification(p)
      PROVE  Stays
  BY <1>7 DEF Ask, ReadLatest, ReadVerification, Stays, requestVars
<1>8. CASE UNCHANGED vars
  BY <1>8 DEF vars, requestVars, Stays
<1>9. QED
  BY <1>1, <1>2, <1>3, <1>4, <1>5, <1>6, <1>7, <1>8 DEF Next, Use

LEMMA ClockOnward ==
  ASSUME Typed, [Next]_vars
  PROVE  clock \in Nat /\ clock' \in Nat /\ clock <= clock'
<1>1. clock \in Nat /\ clock' \in Nat
  BY StepTyped, Constants DEF Typed, TypeOK, Times
<1>2. CASE UNCHANGED clock
  BY <1>1, <1>2
<1>3. CASE Tick
  BY <1>1, <1>3 DEF Tick
<1>4. ASSUME NEW r \in Requests, Request(r) PROVE UNCHANGED clock
  BY <1>4 DEF Request, Send, Undo, Activate, Faulty, Reserve, Quota!Grant,
     InsertSendingRecord, InsertFails, SendEmail, SendFails,
     DeleteSendingRecord, ReleaseQuota, Quota!GiveBack, UndoFails, EndUndo,
     WriteMarker, Sweep, MakePending, Retry, NoLongerSending, Commit,
     TransactionFails, ProcessDies
<1>5. ASSUME Background, ~Tick PROVE UNCHANGED clock
  BY <1>5 DEF Background, CatchUp, PurgeRecord
<1>6. ASSUME Use PROVE UNCHANGED clock
  BY <1>6 DEF Use, OpenLink, MarkVerified, MarkFails, Explain, Submit, Check,
     Ask, ReadLatest, ReadVerification
<1>7. QED
  BY <1>2, <1>3, <1>4, <1>5, <1>6 DEF Next, vars

\* Steps a request takes after its email has gone.
AfterEmail == InTransaction \cup {"activate", "done", "failed"}

\* A step that is not a request's moves none of them and sends no email.
LEMMA WhoMoves ==
  ASSUME [Next]_vars
  PROVE  (\E r \in Requests : Request(r)) \/ UNCHANGED <<pc, mailed, undoing, grants>>
<1>1. CASE Background
  BY <1>1 DEF Background, Tick, CatchUp, PurgeRecord, requestVars
<1>2. CASE Use
  BY <1>2 DEF Use, OpenLink, MarkVerified, MarkFails, Explain, Submit, Check,
              Ask, ReadLatest, ReadVerification, requestVars
<1>3. CASE UNCHANGED vars
  BY <1>3 DEF vars, requestVars
<1>4. QED
  BY <1>1, <1>2, <1>3 DEF Next

\* A request never goes back past its insert, nor on from an activation that
\* is over, and gets to its activation by an email.
LEMMA PathOnward ==
  ASSUME Typed, [Next]_vars, NEW x \in Requests
  PROVE  /\ pc'[x] \in Unstored => pc[x] \in Unstored
         /\ pc[x] \in {"done", "failed"} => pc'[x] = pc[x]
         /\ pc'[x] \in AfterEmail => pc[x] \in AfterEmail \/ SendEmail(x)
<1>1. pc \in [Requests -> Steps]
  BY DEF Typed, TypeOK
<1>2. CASE UNCHANGED pc
  BY <1>2
<1>3. ASSUME NEW r \in Requests, Request(r)
      PROVE  /\ \A s \in Requests \ {r} : pc'[s] = pc[s]
             /\ pc'[r] \in Unstored => pc[r] \in Unstored
             /\ pc[r] \in {"done", "failed"} => pc'[r] = pc[r]
             /\ pc'[r] \in AfterEmail => pc[r] \in AfterEmail \/ SendEmail(r)
  <2> USE <1>1 DEF Goto, Unstored, AfterEmail, InTransaction
  <2>1. CASE Send(r)
    BY <2>1 DEF Send, Reserve, InsertSendingRecord, SendEmail, SendFails
  <2>2. CASE Undo(r)
    BY <2>2 DEF Undo, DeleteSendingRecord, ReleaseQuota, EndUndo
  <2>3. CASE WriteMarker(r) \/ Sweep(r) \/ MakePending(r)
    BY <2>3 DEF WriteMarker, Sweep, MakePending
  <2>4. CASE Retry(r) \/ NoLongerSending(r) \/ TransactionFails(r)
    BY <2>4 DEF Retry, NoLongerSending, TransactionFails, EndTransaction
  <2>5. CASE Commit(r)
    BY <2>5 DEF Commit, EndTransaction
  <2>6. CASE InsertFails(r) \/ UndoFails(r)
    BY <2>6 DEF InsertFails, UndoFails
  <2>7. CASE ProcessDies(r)
    BY <2>7 DEF ProcessDies, EndTransaction
  <2>8. QED
    BY <1>3, <2>1, <2>2, <2>3, <2>4, <2>5, <2>6, <2>7
       DEF Request, Activate, Faulty
<1>4. QED
  BY <1>2, <1>3, WhoMoves

LEMMA MailedOnward ==
  ASSUME [Next]_vars
  PROVE  UNCHANGED mailed \/ \E r \in Requests : mailed' = Append(mailed, r)
<1>1. ASSUME NEW r \in Requests, Request(r)
      PROVE  mailed' \in {mailed, Append(mailed, r)}
  BY <1>1 DEF Request, Send, Undo, Activate, Faulty, Reserve,
     InsertSendingRecord, SendEmail, SendFails, DeleteSendingRecord,
     ReleaseQuota, EndUndo, WriteMarker, Sweep, MakePending, Retry,
     NoLongerSending, Commit, InsertFails, UndoFails, TransactionFails,
     ProcessDies
<1>2. QED
  BY <1>1, WhoMoves

LEMMA MailedGrows ==
  ASSUME Typed, [Next]_vars, NEW x \in Requests, Contains(mailed, x)
  PROVE  Contains(mailed', x)
<1>1. mailed \in Seq(Requests)
  BY DEF Typed, TypeOK
<1>2. ASSUME NEW r \in Requests PROVE Contains(Append(mailed, r), x)
  <2>1. PICK i \in 1..Len(mailed) : mailed[i] = x
    BY DEF Contains
  <2>2. i \in 1..Len(Append(mailed, r)) /\ Append(mailed, r)[i] = x
    BY <1>1, <2>1
  <2>3. QED
    BY <2>2 DEF Contains
<1>3. QED
  BY <1>2, MailedOnward

LEMMA FaultsOnward ==
  ASSUME Typed, [Next]_vars
  PROVE  UNCHANGED faults \/ Fault
<1>1. ASSUME NEW r \in Requests, Request(r) PROVE UNCHANGED faults \/ Fault
  BY <1>1 DEF Request, Send, Undo, Activate, Faulty, Reserve,
     InsertSendingRecord, SendEmail, SendFails, DeleteSendingRecord,
     ReleaseQuota, EndUndo, WriteMarker, Sweep, MakePending, Retry,
     NoLongerSending, Commit, InsertFails, UndoFails, TransactionFails,
     ProcessDies
<1>2. CASE Background
  BY <1>2 DEF Background, Tick, CatchUp, PurgeRecord, requestVars
<1>3. CASE Use
  BY <1>3 DEF Use, OpenLink, MarkVerified, MarkFails, Explain, Submit, Check,
              Ask, ReadLatest, ReadVerification, requestVars
<1>4. CASE UNCHANGED vars
  BY <1>4 DEF vars, requestVars
<1>5. QED
  BY <1>1, <1>2, <1>3, <1>4 DEF Next

\* A commit makes its own link pending and supersedes what it has written of
\* others, all of which were as it saw them.
LEMMA CommitEffect ==
  ASSUME RecordInv, NEW r \in Requests, Commit(r)
  PROVE  /\ pc[r] = "moved" /\ pc'[r] \in {"done", "failed"} /\ OthersStay(r)
         /\ UNCHANGED <<secondary, verifiedOn>>
         /\ records[r].status = "sending"
         /\ records'[r] = [records[r] EXCEPT !.status = "pending"]
         /\ \A x \in Written(r) \ {r} :
              /\ JourneyOf[x] = JourneyOf[r]
              /\ records[x].status = "pending"
              /\ records'[x] = [records[x] EXCEPT !.status = "superseded"]
         /\ \A x \in Requests \ Written(r) : records'[x] = records[x]
<1>1. pc \in [Requests -> Steps] /\ snapshot \in [Requests -> [Requests -> Docs]]
  BY DEF RecordInv, Typed, TypeOK
<1>2. pc[r] = "moved"
  BY DEF Commit
<1>3. pc'[r] \in {"done", "failed"} /\ OthersStay(r)
  BY <1>1 DEF Commit, EndTransaction, OthersStay
<1>4. records' = Activated(r) /\ UNCHANGED <<secondary, verifiedOn>>
  BY DEF Commit
<1>5. r \in Written(r) /\ Written(r) \subseteq Requests
  BY <1>2 DEF Written, OtherPending
<1>6. records[r].status = "sending"
  BY <1>2, <1>5 DEF RecordInv, Transactional, WrittenAsSeen, MovedWasSending,
                    StillSending
<1>7. ASSUME NEW x \in Written(r) \ {r}
      PROVE  JourneyOf[x] = JourneyOf[r] /\ records[x].status = "pending"
  <2>1. x \in OtherPending(snapshot[r], r)
    BY <1>2, <1>5, WrittenMembers
  <2>2. QED
    BY <2>1 DEF OtherPending, RecordInv, Transactional, WrittenAsSeen
<1>8. records'[r] = [records[r] EXCEPT !.status = "pending"]
  BY <1>4 DEF Activated
<1>9. \A x \in Written(r) \ {r} :
        records'[x] = [records[x] EXCEPT !.status = "superseded"]
  BY <1>4, <1>5 DEF Activated
<1>10. \A x \in Requests \ Written(r) : records'[x] = records[x]
  BY <1>4, <1>5 DEF Activated
<1>11. QED
  BY <1>2, <1>3, <1>4, <1>6, <1>7, <1>8, <1>9, <1>10

\* All that can happen to a record.
Becomes(x, status) == records'[x] = [records[x] EXCEPT !.status = status]

LEMMA RecordChange ==
  ASSUME RecordInv, [Next]_vars, NEW x \in Requests
  PROVE  \/ UNCHANGED <<records[x], verifiedOn[x]>>
         \/ /\ pc[x] = "insert" /\ pc'[x] \in {"send", "undo"}
            /\ \E now \in Times : now = grants[x] /\ records'[x] = SendingDoc(now)
            /\ UNCHANGED verifiedOn[x]
         \/ /\ \/ records[x].status = "sending" /\ pc[x] = "undo"
               \/ records[x].status # "none" /\ PurgeAt(records[x]) <= clock
            /\ records'[x] = NoDoc
            /\ UNCHANGED verifiedOn[x]
         \/ /\ \/ /\ records[x].status = "sending" /\ Becomes(x, "pending")
                  /\ pc[x] = "moved"
               \/ records[x].status = "pending" /\ Becomes(x, "superseded")
            /\ UNCHANGED verifiedOn[x]
         \/ /\ \E now \in Times : /\ CanVerify(records[x], now)
                                  /\ records'[x] = VerifiedDoc(records[x], now)
                                  /\ verifiedOn'[x] = now
            /\ pc[x] = pc'[x]
<1>1. records \in [Requests -> Docs] /\ verifiedOn \in [Requests -> Times \cup {Never}]
  BY DEF RecordInv, Typed, TypeOK
<1>2. ASSUME NEW r \in Requests, Commit(r)
      PROVE  /\ UNCHANGED verifiedOn[x]
             /\ \/ UNCHANGED records[x]
                \/ /\ records[x].status = "sending" /\ Becomes(x, "pending")
                   /\ pc[x] = "moved"
                \/ records[x].status = "pending" /\ Becomes(x, "superseded")
  BY <1>2, CommitEffect DEF Becomes
<1>3. ASSUME NEW r \in Requests, Inserts(r)
      PROVE  /\ UNCHANGED verifiedOn[x]
             /\ \/ UNCHANGED records[x]
                \/ /\ pc[x] = "insert" /\ pc'[x] \in {"send", "undo"}
                   /\ \E now \in Times :
                        now = grants[x] /\ records'[x] = SendingDoc(now)
  BY <1>1, <1>3 DEF Inserts, Change
<1>4. ASSUME NEW r \in Requests, Deletes(r)
      PROVE  /\ UNCHANGED verifiedOn[x]
             /\ \/ UNCHANGED records[x]
                \/ /\ records[x].status = "sending" /\ pc[x] = "undo"
                   /\ records'[x] = NoDoc
  BY <1>1, <1>4 DEF Deletes, Change, AfterDelete
<1>5. ASSUME NEW r \in Requests, PurgeRecord(r)
      PROVE  /\ UNCHANGED verifiedOn[x]
             /\ \/ UNCHANGED records[x]
                \/ /\ records[x].status # "none" /\ PurgeAt(records[x]) <= clock
                   /\ records'[x] = NoDoc
  BY <1>1, <1>5 DEF PurgeRecord, Change
<1>6. ASSUME NEW y \in Requests, NEW now \in Times, Verifies(y, now)
      PROVE  \/ UNCHANGED <<records[x], verifiedOn[x]>>
             \/ /\ CanVerify(records[x], now)
                /\ records'[x] = VerifiedDoc(records[x], now)
                /\ verifiedOn'[x] = now /\ pc[x] = pc'[x]
  BY <1>1, <1>6 DEF Verifies, Verify, Change
<1>7. ASSUME NEW r \in Requests,
             GoesOn(r) \/ WriteMarker(r) \/ Sweep(r) \/ MakePending(r)
      PROVE  UNCHANGED <<records[x], verifiedOn[x]>>
  BY <1>7 DEF GoesOn, WriteMarker, Sweep, MakePending
<1>8. CASE CatchUp \/ Stays
  BY <1>8 DEF CatchUp, Stays
<1>9. QED
  BY <1>2, <1>3, <1>4, <1>5, <1>6, <1>7, <1>8, StepKinds DEF RecordInv

\* Where a status comes from.
LEMMA StatusFrom ==
  ASSUME RecordInv, [Next]_vars, NEW x \in Requests
  PROVE  /\ records'[x].status = "pending" =>
              \/ records[x] = records'[x]
              \/ pc[x] = "moved" /\ records[x].status = "sending"
         /\ records'[x].status = "superseded" =>
              \/ records[x] = records'[x]
              \/ records[x].status = "pending"
         /\ records'[x].status = "sending" =>
              records[x] = records'[x] \/ pc[x] = "insert"
         /\ records'[x].status = "none" => records[x] = records'[x] \/ records'[x] = NoDoc
<1>1. records[x] \in Docs
  BY DEF RecordInv, Typed, TypeOK
<1>2. CASE UNCHANGED records[x]
  BY <1>2
<1>3. ASSUME NEW now \in Times, records'[x] = SendingDoc(now)
      PROVE  records'[x].status = "sending"
  BY <1>3 DEF SendingDoc
<1>4. ASSUME NEW now \in Times, records'[x] = VerifiedDoc(records[x], now)
      PROVE  records'[x].status = "verified"
  BY <1>1, <1>4 DEF VerifiedDoc, Docs
<1>5. ASSUME NEW status \in Statuses, Becomes(x, status)
      PROVE  records'[x].status = status
  BY <1>1, <1>5 DEF Becomes, Docs
<1>6. NoDoc.status = "none"
  BY DocTypes
<1>7. CASE pc[x] = "insert" /\ \E now \in Times : records'[x] = SendingDoc(now)
  BY <1>3, <1>7
<1>8. CASE records'[x] = NoDoc
  BY <1>6, <1>8
<1>9. CASE /\ records[x].status = "sending" /\ Becomes(x, "pending")
           /\ pc[x] = "moved"
  BY <1>5, <1>9 DEF Statuses
<1>10. CASE records[x].status = "pending" /\ Becomes(x, "superseded")
  BY <1>5, <1>10 DEF Statuses
<1>11. CASE \E now \in Times : records'[x] = VerifiedDoc(records[x], now)
  BY <1>4, <1>11
<1>12. QED
  BY <1>2, <1>7, <1>8, <1>9, <1>10, <1>11, RecordChange

\* A link becomes pending by its own commit.
LEMMA BecomesPending ==
  ASSUME RecordInv, [Next]_vars, NEW x \in Requests,
         records[x].status # "pending", records'[x].status = "pending"
  PROVE  Commit(x)
<1>1. records \in [Requests -> Docs]
  BY DEF RecordInv, Typed, TypeOK
<1>2. ASSUME NEW r \in Requests, Commit(r), r # x PROVE FALSE
  <2>1. \/ records'[x] = records[x]
        \/ records'[x] = [records[x] EXCEPT !.status = "superseded"]
    <3>1. /\ \A y \in Written(r) \ {r} :
                records'[y] = [records[y] EXCEPT !.status = "superseded"]
          /\ \A y \in Requests \ Written(r) : records'[y] = records[y]
      BY <1>2, CommitEffect
    <3>2. QED
      BY <1>2, <3>1
  <2>2. records[x] \in Docs
    BY <1>1
  <2>3. [records[x] EXCEPT !.status = "superseded"].status = "superseded"
    BY <2>2 DEF Docs
  <2>4. QED
    BY <2>1, <2>3
<1>3. ASSUME NEW r \in Requests, Inserts(r) PROVE FALSE
  BY <1>1, <1>3 DEF Inserts, Change, SendingDoc
<1>4. ASSUME NEW r \in Requests, Deletes(r) \/ PurgeRecord(r) PROVE FALSE
  BY <1>1, <1>4, DocTypes DEF Deletes, PurgeRecord, Change, AfterDelete
<1>5. ASSUME NEW y \in Requests, NEW now \in Times, Verifies(y, now) PROVE FALSE
  BY <1>1, <1>5 DEF Verifies, Verify, Change, VerifiedDoc, Docs
<1>6. ASSUME NEW r \in Requests,
             GoesOn(r) \/ WriteMarker(r) \/ Sweep(r) \/ MakePending(r)
      PROVE  FALSE
  BY <1>6 DEF GoesOn, WriteMarker, Sweep, MakePending
<1>7. CASE CatchUp \/ Stays
  BY <1>7 DEF CatchUp, Stays
<1>8. QED
  BY <1>2, <1>3, <1>4, <1>5, <1>6, <1>7, StepKinds DEF RecordInv

\* A link is superseded by a commit.
LEMMA BecomesSuperseded ==
  ASSUME RecordInv, [Next]_vars, NEW x \in Requests,
         records[x].status # "superseded", records'[x].status = "superseded"
  PROVE  \E r \in Requests : Commit(r)
<1>1. records \in [Requests -> Docs]
  BY DEF RecordInv, Typed, TypeOK
<1>2. ASSUME NEW r \in Requests, Inserts(r) PROVE FALSE
  BY <1>1, <1>2 DEF Inserts, Change, SendingDoc
<1>3. ASSUME NEW r \in Requests, Deletes(r) \/ PurgeRecord(r) PROVE FALSE
  BY <1>1, <1>3, DocTypes DEF Deletes, PurgeRecord, Change, AfterDelete
<1>4. ASSUME NEW y \in Requests, NEW now \in Times, Verifies(y, now) PROVE FALSE
  BY <1>1, <1>4 DEF Verifies, Verify, Change, VerifiedDoc, Docs
<1>5. ASSUME NEW r \in Requests,
             GoesOn(r) \/ WriteMarker(r) \/ Sweep(r) \/ MakePending(r)
      PROVE  FALSE
  BY <1>5 DEF GoesOn, WriteMarker, Sweep, MakePending
<1>6. CASE CatchUp \/ Stays
  BY <1>6 DEF CatchUp, Stays
<1>7. QED
  BY <1>2, <1>3, <1>4, <1>5, <1>6, StepKinds DEF RecordInv

\* The secondary is as it was, or what the primary is.
LEMMA SecondaryChange ==
  ASSUME RecordInv, [Next]_vars
  PROVE  UNCHANGED secondary \/ (secondary' = records /\ CatchUp)
<1>1. ASSUME NEW r \in Requests, Commit(r) PROVE UNCHANGED secondary
  BY <1>1 DEF Commit
<1>2. ASSUME NEW r \in Requests,
             \/ Inserts(r) \/ Deletes(r) \/ PurgeRecord(r) \/ GoesOn(r)
             \/ WriteMarker(r) \/ Sweep(r) \/ MakePending(r)
      PROVE  UNCHANGED secondary
  BY <1>2 DEF Inserts, Deletes, PurgeRecord, GoesOn, WriteMarker, Sweep,
              MakePending
<1>3. ASSUME NEW y \in Requests, NEW now \in Times, Verifies(y, now)
      PROVE  UNCHANGED secondary
  BY <1>3 DEF Verifies
<1>4. CASE CatchUp
  BY <1>4 DEF CatchUp, Replicate
<1>5. CASE Stays
  BY <1>5 DEF Stays
<1>6. QED
  BY <1>1, <1>2, <1>3, <1>4, <1>5, StepKinds DEF RecordInv

\* How a request gets into its transaction, and on in it.
LEMMA TransactionSteps ==
  ASSUME Typed, [Next]_vars, NEW r \in Requests, pc'[r] \in InTransaction
  PROVE  \/ WriteMarker(r)
         \/ /\ pc[r] \in InTransaction /\ snapshot'[r] = snapshot[r]
            /\ pc'[r] = pc[r] \/ Sweep(r) \/ MakePending(r)
<1>1. pc \in [Requests -> Steps] /\ snapshot \in [Requests -> [Requests -> Docs]]
  BY DEF Typed, TypeOK
<1>2. ASSUME NEW s \in Requests, Inserts(s) \/ GoesOn(s)
      PROVE  s # r /\ pc'[r] = pc[r] /\ snapshot'[r] = snapshot[r]
  BY <1>2 DEF Inserts, GoesOn, OthersStay, InTransaction
<1>3. ASSUME NEW s \in Requests, Commit(s)
      PROVE  s # r /\ pc'[r] = pc[r] /\ snapshot'[r] = snapshot[r]
  BY <1>1, <1>3 DEF Commit, EndTransaction, InTransaction
<1>4. ASSUME NEW s \in Requests, Deletes(s) \/ PurgeRecord(s)
      PROVE  pc'[r] = pc[r] /\ snapshot'[r] = snapshot[r]
  BY <1>4 DEF Deletes, PurgeRecord, requestVars
<1>5. ASSUME NEW s \in Requests, WriteMarker(s), s # r
      PROVE  pc'[r] = pc[r] /\ snapshot'[r] = snapshot[r]
  BY <1>1, <1>5 DEF WriteMarker, Goto
<1>6. ASSUME NEW s \in Requests, Sweep(s) \/ MakePending(s)
      PROVE  /\ snapshot'[r] = snapshot[r]
             /\ s # r => pc'[r] = pc[r]
             /\ pc[s] \in InTransaction
  BY <1>1, <1>6 DEF Sweep, MakePending, Goto, InTransaction
<1>7. ASSUME NEW x \in Requests, NEW now \in Times, Verifies(x, now)
      PROVE  pc'[r] = pc[r] /\ snapshot'[r] = snapshot[r]
  BY <1>7 DEF Verifies
<1>8. CASE CatchUp \/ Stays
  BY <1>8 DEF CatchUp, Stays, requestVars
<1>9. QED
  BY <1>2, <1>3, <1>4, <1>5, <1>6, <1>7, <1>8, StepKinds

\* What a transaction has written nobody changes before it ends.
LEMMA WrittenStays ==
  ASSUME RecordInv, [Next]_vars, NEW r \in Requests, NEW x \in Written(r),
         pc'[r] \in InTransaction
  PROVE  records'[x] = records[x]
<1>1. /\ records \in [Requests -> Docs] /\ pc \in [Requests -> Steps]
      /\ x \in Requests
  BY DEF RecordInv, Typed, TypeOK, Written, OtherPending
<1>2. \/ x # r /\ records[x].status = "pending"
      \/ x = r /\ pc[r] = "moved"
  BY <1>1, WrittenMembers
     DEF OtherPending, RecordInv, Transactional, WrittenAsSeen
<1>3. ASSUME NEW s \in Requests, Inserts(s) PROVE UNCHANGED records[x]
  <2>1. pc[s] = "insert" /\ records[s].status = "none"
    BY <1>3, DocTypes DEF Inserts, RecordInv, NotStoredYet, Unstored
  <2>2. x # s
    BY <1>2, <2>1
  <2>3. QED
    BY <1>1, <1>3, <2>2 DEF Inserts, Change
<1>4. ASSUME NEW s \in Requests, Deletes(s) PROVE UNCHANGED records[x]
  BY <1>1, <1>2, <1>4 DEF Deletes, Change, AfterDelete
<1>5. ASSUME NEW s \in Requests, PurgeRecord(s) PROVE UNCHANGED records[x]
  BY <1>1, <1>5 DEF PurgeRecord, Change, Locked
<1>6. ASSUME NEW s \in Requests, Commit(s) PROVE UNCHANGED records[x]
  <2>1. s # r
    BY <1>6, CommitEffect DEF InTransaction
  <2>2. x \notin Written(s)
    BY <2>1 DEF RecordInv, Transactional, WrittenOnce
  <2>3. QED
    BY <1>1, <1>6, <2>2, CommitEffect
<1>7. ASSUME NEW y \in Requests, NEW now \in Times, Verifies(y, now)
      PROVE  UNCHANGED records[x]
  BY <1>1, <1>7 DEF Verifies, Verify, Change, Locked
<1>8. ASSUME NEW s \in Requests,
             GoesOn(s) \/ WriteMarker(s) \/ Sweep(s) \/ MakePending(s)
      PROVE  UNCHANGED records[x]
  BY <1>8 DEF GoesOn, WriteMarker, Sweep, MakePending
<1>9. CASE CatchUp \/ Stays
  BY <1>9 DEF CatchUp, Stays
<1>10. QED
  BY <1>3, <1>4, <1>5, <1>6, <1>7, <1>8, <1>9, StepKinds DEF RecordInv

\* What it newly writes conflicts with nothing, and changes nothing yet.
LEMMA WrittenGrows ==
  ASSUME RecordInv, [Next]_vars, NEW r \in Requests, NEW x \in Written(r)'
  PROVE  /\ x \in Requests
         /\ pc[r] \in InTransaction /\ pc'[r] \in InTransaction
         /\ snapshot'[r] = snapshot[r]
         /\ \/ x \in Written(r)
            \/ /\ ~Conflicts(r, x) /\ UNCHANGED records
               /\ pc'[r] # pc[r] /\ \A s \in Requests \ {r} : pc'[s] = pc[s]
<1>1. x \in Requests
  BY DEF Written, OtherPending
<1>2. pc'[r] \in {"swept", "moved"}
  BY <1>1, WrittenMembers
<1>3. \/ WriteMarker(r)
      \/ /\ pc[r] \in InTransaction /\ snapshot'[r] = snapshot[r]
         /\ pc'[r] = pc[r] \/ Sweep(r) \/ MakePending(r)
  BY <1>2, TransactionSteps DEF InTransaction, RecordInv
<1>4. pc \in [Requests -> Steps]
  BY DEF RecordInv, Typed, TypeOK
<1>5. ~WriteMarker(r)
  BY <1>2, <1>4 DEF WriteMarker, Goto
<1>6. CASE pc'[r] = pc[r]
  BY <1>1, <1>2, <1>3, <1>5, <1>6, WrittenMembers DEF InTransaction
<1>7. CASE Sweep(r)
  <2>1. pc'[r] = "swept" /\ x \in OtherPending(snapshot[r], r)
    BY <1>1, <1>4, <1>7, WrittenMembers DEF Sweep, Goto
  <2>2. QED
    BY <1>1, <1>3, <1>4, <1>5, <1>7, <2>1 DEF Sweep, Goto, InTransaction
<1>8. CASE MakePending(r)
  <2>1. x \in Written(r) \/ x = r
    BY <1>1, <1>4, <1>8, WrittenMembers DEF MakePending, Goto
  <2>2. QED
    BY <1>1, <1>3, <1>4, <1>5, <1>8, <2>1 DEF MakePending, Goto, InTransaction
<1>9. QED
  BY <1>3, <1>5, <1>6, <1>7, <1>8

LEMMA WrittenAsSeenKept == RecordInv /\ [Next]_vars => WrittenAsSeen'
<1> SUFFICES ASSUME RecordInv, [Next]_vars,
                    NEW r \in Requests, NEW x \in Written(r)'
             PROVE  records'[x] = snapshot'[r][x]
  BY DEF WrittenAsSeen
<1>1. CASE x \in Written(r)
  BY <1>1, WrittenGrows, WrittenStays
     DEF RecordInv, Transactional, WrittenAsSeen
<1>2. CASE x \notin Written(r)
  BY <1>2, WrittenGrows DEF Conflicts
<1>3. QED
  BY <1>1, <1>2

LEMMA WrittenOnceKept == RecordInv /\ [Next]_vars => WrittenOnce'
<1> SUFFICES ASSUME RecordInv, [Next]_vars,
                    NEW r \in Requests, NEW s \in Requests, r # s,
                    NEW x \in Written(r)', x \in Written(s)'
             PROVE  FALSE
  BY DEF WrittenOnce
<1>1. ~(x \in Written(r) /\ x \in Written(s))
  BY DEF RecordInv, Transactional, WrittenOnce
<1>2. CASE x \notin Written(r)
  BY <1>2, WrittenGrows DEF Conflicts
<1>3. CASE x \notin Written(s)
  BY <1>3, WrittenGrows DEF Conflicts
<1>4. QED
  BY <1>1, <1>2, <1>3

LEMMA MovedWasSendingKept == RecordInv /\ [Next]_vars => MovedWasSending'
<1> SUFFICES ASSUME RecordInv, [Next]_vars, NEW r \in Requests, pc'[r] = "moved"
             PROVE  StillSending(r)'
  BY DEF MovedWasSending
<1>1. pc \in [Requests -> Steps]
  BY DEF RecordInv, Typed, TypeOK
<1>2. pc[r] = "moved" \/ MakePending(r)
  BY <1>1, TransactionSteps DEF InTransaction, RecordInv, WriteMarker, Sweep, Goto
<1>3. snapshot'[r] = snapshot[r]
  BY <1>1, TransactionSteps DEF InTransaction, RecordInv, WriteMarker, Goto
<1>4. StillSending(r)
  BY <1>2 DEF MakePending, RecordInv, Transactional, MovedWasSending
<1>5. QED
  BY <1>3, <1>4 DEF StillSending

LEMMA OneTransactionKept == RecordInv /\ [Next]_vars => OneTransaction'
<1> SUFFICES ASSUME RecordInv, [Next]_vars, NEW r \in Requests, NEW s \in Requests,
                    pc'[r] \in InTransaction, pc'[s] \in InTransaction,
                    JourneyOf[r] = JourneyOf[s]
             PROVE  r = s
  BY DEF OneTransaction
<1>1. pc \in [Requests -> Steps]
  BY DEF RecordInv, Typed, TypeOK
<1>2. \/ WriteMarker(r)
      \/ pc[r] \in InTransaction
  BY TransactionSteps DEF RecordInv
<1>3. \/ WriteMarker(s)
      \/ pc[s] \in InTransaction
  BY TransactionSteps DEF RecordInv
<1>4. CASE pc[r] \in InTransaction /\ pc[s] \in InTransaction
  BY <1>4 DEF RecordInv, Transactional, OneTransaction
<1>5. CASE WriteMarker(r)
  BY <1>1, <1>3, <1>5 DEF WriteMarker, MarkerHeld, Goto, InTransaction
<1>6. CASE WriteMarker(s)
  BY <1>1, <1>2, <1>6 DEF WriteMarker, MarkerHeld, Goto, InTransaction
<1>7. QED
  BY <1>2, <1>3, <1>4, <1>5, <1>6

LEMMA SnapshotCoversKept == RecordInv /\ [Next]_vars => SnapshotCovers'
<1> SUFFICES ASSUME RecordInv, [Next]_vars,
                    NEW r \in Requests, pc'[r] \in InTransaction,
                    NEW x \in Requests \ {r},
                    JourneyOf[x] = JourneyOf[r], records'[x].status = "pending"
             PROVE  snapshot'[r][x].status = "pending"
  BY DEF SnapshotCovers
<1>1. /\ records \in [Requests -> Docs] /\ pc \in [Requests -> Steps]
      /\ snapshot \in [Requests -> [Requests -> Docs]]
  BY DEF RecordInv, Typed, TypeOK
<1>2. CASE WriteMarker(r)
  BY <1>1, <1>2 DEF WriteMarker
<1>3. CASE pc[r] \in InTransaction /\ snapshot'[r] = snapshot[r]
  <2>1. pc[x] # "moved"
    BY <1>3 DEF RecordInv, Transactional, OneTransaction, InTransaction
  <2>2. records[x].status = "pending"
    BY <2>1, StatusFrom
  <2>3. QED
    BY <1>3, <2>2 DEF RecordInv, Transactional, SnapshotCovers
<1>4. QED
  BY <1>2, <1>3, TransactionSteps DEF RecordInv

-----------------------------------------------------------------------------
(* The records themselves.                                                 *)

LEMMA NotStoredYetKept == RecordInv /\ [Next]_vars => NotStoredYet'
<1> SUFFICES ASSUME RecordInv, [Next]_vars, NEW x \in Requests,
                    pc'[x] \in Unstored
             PROVE  /\ records'[x] = NoDoc /\ secondary'[x] = NoDoc
                    /\ verifiedOn'[x] = Never
  BY DEF NotStoredYet
<1>2. pc[x] \in Unstored
  BY PathOnward DEF RecordInv
<1>3. records[x] = NoDoc /\ secondary[x] = NoDoc /\ verifiedOn[x] = Never
  BY <1>2 DEF RecordInv, NotStoredYet
<1>4. records'[x] = NoDoc /\ verifiedOn'[x] = Never
  BY <1>2, <1>3, RecordChange, DocTypes DEF Unstored, CanVerify
<1>5. secondary'[x] = NoDoc
  BY <1>3, SecondaryChange
<1>6. QED
  BY <1>4, <1>5

LEMMA NoneIsNoDocKept == RecordInv /\ [Next]_vars => NoneIsNoDoc'
BY StatusFrom DEF NoneIsNoDoc, RecordInv

LEMMA VerificationRecordedKept ==
  RecordInv /\ [Next]_vars => VerificationRecorded'
<1> SUFFICES ASSUME RecordInv, [Next]_vars, NEW x \in Requests,
                    verifiedOn'[x] # Never
             PROVE  \/ /\ records'[x].status = "verified"
                       /\ records'[x].verifiedAt = verifiedOn'[x]
                       /\ verifiedOn'[x] < ExpiresAt(records'[x])
                    \/ /\ records'[x].status = "none"
                       /\ verifiedOn'[x] + VerifiedTtl <= clock'
  BY DEF VerificationRecorded
<1>1. /\ records[x] \in Docs /\ verifiedOn[x] \in Times \cup {Never}
      /\ verifiedOn'[x] \in Times \cup {Never}
  BY StepTyped DEF RecordInv, Typed, TypeOK
<1>2. clock \in Nat /\ clock' \in Nat /\ clock <= clock'
  BY ClockOnward DEF RecordInv
<1>3. records[x].createdAt \in Nat /\ verifiedOn'[x] \in Nat
  BY <1>1, Constants DEF Docs, Times
<1>4. \/ /\ records[x].status = "verified" /\ records[x].verifiedAt = verifiedOn[x]
         /\ verifiedOn[x] < ExpiresAt(records[x])
      \/ /\ records[x].status = "none" /\ verifiedOn[x] + VerifiedTtl <= clock
      \/ verifiedOn[x] = Never
  BY DEF RecordInv, VerificationRecorded
<1>5. CASE UNCHANGED <<records[x], verifiedOn[x]>>
  BY <1>2, <1>3, <1>4, <1>5, Constants DEF ExpiresAt
<1>6. CASE /\ records[x].status # "none" /\ PurgeAt(records[x]) <= clock
           /\ records'[x] = NoDoc /\ UNCHANGED verifiedOn[x]
  <2>1. verifiedOn[x] < records[x].createdAt + LinkTtl
    BY <1>4, <1>6 DEF ExpiresAt
  <2>2. records[x].createdAt + Retention <= clock
    BY <1>6 DEF PurgeAt
  <2>3. verifiedOn[x] + VerifiedTtl <= clock'
    BY <1>2, <1>3, <1>6, <2>1, <2>2, Constants
  <2>4. QED
    BY <1>6, <2>3, DocTypes
<1>7. ASSUME NEW now \in Times, CanVerify(records[x], now),
             records'[x] = VerifiedDoc(records[x], now), verifiedOn'[x] = now
      PROVE  /\ records'[x].status = "verified"
             /\ records'[x].verifiedAt = verifiedOn'[x]
             /\ verifiedOn'[x] < ExpiresAt(records'[x])
  <2>1. /\ records'[x].status = "verified" /\ records'[x].verifiedAt = now
        /\ records'[x].createdAt = records[x].createdAt
    BY <1>1, <1>7 DEF VerifiedDoc, Docs
  <2>2. QED
    BY <1>3, <1>7, <2>1, Constants DEF CanVerify, ExpiresAt
<1>8. CASE records[x].status \in {"sending", "pending"} /\ UNCHANGED verifiedOn[x]
  BY <1>4, <1>8
<1>9. CASE pc[x] = "insert" /\ UNCHANGED verifiedOn[x]
  BY <1>9 DEF RecordInv, NotStoredYet, Unstored
<1>10. QED
  BY <1>5, <1>6, <1>7, <1>8, <1>9, RecordChange

\* Of two live links one, x, would have become so in this step.
LEMMA AtMostOneLiveKept == RecordInv /\ [Next]_vars => AtMostOneLive'
<1> SUFFICES ASSUME RecordInv, [Next]_vars, NEW x \in Requests, NEW y \in Requests,
                    JourneyOf[x] = JourneyOf[y], x # y,
                    records'[x].status = "pending",
                    records'[y].status = "pending",
                    records[x].status = "pending" => records[y].status = "pending"
             PROVE  FALSE
  BY DEF AtMostOneLive, Pending
<1>1. ~(records[x].status = "pending" /\ records[y].status = "pending")
  BY Constants DEF RecordInv, AtMostOneLive, Pending
<1>2. records[x].status # "pending"
  BY <1>1
<1>3. pc[x] = "moved" /\ records'[x] # records[x]
  BY <1>2, StatusFrom
<1>4. Commit(x)
  BY <1>2, <1>3, BecomesPending
<1>5. pc[y] # "moved"
  BY <1>3 DEF RecordInv, Transactional, OneTransaction, InTransaction
<1>6. records[y].status = "pending"
  BY <1>5, StatusFrom
<1>7. y \in Written(x)
  BY <1>3, <1>6, WrittenMembers
     DEF RecordInv, Transactional, SnapshotCovers, InTransaction, OtherPending
<1>8. records[y] \in Docs
  BY DEF RecordInv, Typed, TypeOK
<1>9. records'[y].status = "superseded"
  BY <1>4, <1>7, <1>8, CommitEffect DEF Docs
<1>10. QED
  BY <1>9

LEMMA RecordInvariant == Spec => []RecordInv
<1>1. Init => RecordInv
  <2> SUFFICES ASSUME Init PROVE RecordInv
    OBVIOUS
  <2>1. Typed
    BY InitTyped
  <2>2. /\ records = NoDocs /\ secondary = NoDocs
        /\ pc = [r \in Requests |-> "idle"]
        /\ verifiedOn = [r \in Requests |-> Never]
    BY DEF Init, InitRequests
  <2>3. \A x \in Requests :
          /\ records[x] = NoDoc /\ secondary[x] = NoDoc
          /\ records[x].status = "none"
          /\ pc[x] = "idle" /\ verifiedOn[x] = Never /\ Written(x) = {}
    BY <2>2, DocTypes DEF NoDocs, Written
  <2>4. QED
    BY <2>1, <2>3
       DEF RecordInv, NotStoredYet, NoneIsNoDoc, Transactional, OneTransaction,
           SnapshotCovers, WrittenAsSeen, WrittenOnce, MovedWasSending,
           VerificationRecorded, AtMostOneLive, Pending, InTransaction
<1>2. RecordInv /\ [Next]_vars => RecordInv'
  BY StepTyped, OneTransactionKept, SnapshotCoversKept, WrittenAsSeenKept,
     WrittenOnceKept, MovedWasSendingKept, NotStoredYetKept, NoneIsNoDocKept,
     VerificationRecordedKept, AtMostOneLiveKept
     DEF RecordInv, Transactional
<1>3. QED
  BY <1>1, <1>2, PTL DEF Spec

\* "At most one link is ever live": for any number of requests of a journey,
\* however their activations interleave, conflict, fail and are run again.
THEOREM OneLiveLink == Spec => []AtMostOneLive
<1>1. RecordInv => AtMostOneLive
  BY DEF RecordInv
<1>2. QED
  BY <1>1, RecordInvariant, PTL

\* A verification is in its record for all of its lifetime: neither another
\* link's activation, nor an undo, nor the TTL index takes it away.
THEOREM VerificationLasts == Spec => []VerificationKept
<1>1. RecordInv => VerificationKept
  <2> SUFFICES ASSUME RecordInv, NEW x \in Requests, verifiedOn[x] # Never,
                      clock < verifiedOn[x] + VerifiedTtl
               PROVE  /\ records[x].status = "verified"
                      /\ records[x].verifiedAt = verifiedOn[x]
    BY DEF VerificationKept
  <2>1. clock \in Nat /\ verifiedOn[x] \in Nat
    BY Constants DEF RecordInv, Typed, TypeOK, Times
  <2>2. ~(verifiedOn[x] + VerifiedTtl <= clock)
    BY <2>1, Constants
  <2>3. QED
    BY <2>2 DEF RecordInv, VerificationRecorded
<1>2. QED
  BY <1>1, RecordInvariant, PTL

-----------------------------------------------------------------------------
(* What the readers go by.                                                 *)

\* Statuses of a link whose email has gone and whose transaction is over.
Activations == {"pending", "superseded", "verified"}

ActivatedInTheEnd ==
  \A x \in Requests :
    records[x].status \in Activations \/ secondary[x].status \in Activations =>
      pc[x] \in {"done", "failed"}

MailedFirst ==
  \A x \in Requests :
    pc[x] \in InTransaction \cup {"activate", "done", "failed"} =>
      Contains(mailed, x)

\* A link that can never be used any more, and never has been.
Over(x) ==
  /\ records[x].status \in {"superseded", "none"} /\ verifiedOn[x] = Never
  /\ pc[x] \notin Unstored

\* However far the secondary lags, it agrees on what does not change.
CopiesAgree ==
  \A x \in Requests :
    /\ records[x].status # "none" /\ secondary[x].status # "none" =>
         records[x].createdAt = secondary[x].createdAt
    /\ \A doc \in {records[x], secondary[x]} :
         doc.status = "verified" => verifiedOn[x] = doc.verifiedAt
    /\ secondary[x].status = "superseded" => Over(x)

CopyInv == RecordInv /\ ActivatedInTheEnd /\ MailedFirst /\ CopiesAgree

\* An undo without a fault has done what it no longer has to do.
UndoneSoFar ==
  faults = 0 =>
    \A r \in Requests : pc[r] \in {"undo", "undone"} =>
      /\ pc[r] = "undone" \/ "record" \notin undoing[r] => records[r] = NoDoc
      /\ pc[r] = "undone" \/ "quota" \notin undoing[r] => grants[r] = NotGranted

\* What each answer has been given for.
AttemptTrue(a) ==
  LET x == attempt[a].link
      code == attempt[a].answer
  IN  /\ code # "none" => attempt[a].step = "done"
      /\ code \in {"VERIFIED", "TOKEN_ALREADY_USED"} => verifiedOn[x] # Never
      /\ code = "TOKEN_SUPERSEDED" => Over(x)
      /\ code = "TOKEN_EXPIRED" =>
           /\ pc[x] \notin Unstored
           /\ \/ records[x].status = "none"
              \/ ExpiresAt(records[x]) <= attempt[a].now

AttemptsTrue == \A a \in Attempts : AttemptTrue(a)

RegistrationsTrue ==
  /\ GateNeedsVerification
  /\ \A g \in Registrations :
       registration[g].answer # "none" => registration[g].step = "done"

PollsTrue ==
  /\ PollTellsTruth
  /\ \A p \in Polls :
       /\ poll[p].answer # "unknown" => poll[p].step = "done"
       /\ poll[p].was.status = "pending" => Contains(mailed, poll[p].link)

-----------------------------------------------------------------------------
(* Both copies, step by step.                                              *)

LEMMA VerifiedStays ==
  ASSUME RecordInv, [Next]_vars, NEW x \in Requests
  PROVE  /\ verifiedOn[x] # Never => verifiedOn'[x] = verifiedOn[x]
         /\ records'[x].status = "verified" /\ records'[x] # records[x] =>
              /\ records[x].status = "pending"
              /\ verifiedOn'[x] = records'[x].verifiedAt
         /\ verifiedOn'[x] # verifiedOn[x] =>
              records[x].status = "pending" /\ pc[x] = pc'[x]
<1>1. records[x] \in Docs
  BY DEF RecordInv, Typed, TypeOK
<1>2. CASE UNCHANGED <<records[x], verifiedOn[x]>>
  BY <1>2
<1>3. ASSUME NEW now \in Times, CanVerify(records[x], now),
             records'[x] = VerifiedDoc(records[x], now), verifiedOn'[x] = now
      PROVE  /\ records[x].status = "pending" /\ verifiedOn[x] = Never
             /\ records'[x].verifiedAt = verifiedOn'[x]
  BY <1>1, <1>3 DEF CanVerify, VerifiedDoc, Docs, RecordInv, VerificationRecorded
<1>4. CASE UNCHANGED verifiedOn[x]
  <2>1. ASSUME NEW now \in Times, records'[x] = SendingDoc(now)
        PROVE  records'[x].status = "sending"
    BY <2>1 DEF SendingDoc
  <2>2. ASSUME NEW status \in {"pending", "superseded"}, Becomes(x, status)
        PROVE  records'[x].status # "verified"
    BY <1>1, <2>2 DEF Becomes, Docs
  <2>3. \/ UNCHANGED records[x] \/ records'[x].status # "verified"
        \/ \E now \in Times : /\ CanVerify(records[x], now)
                              /\ records'[x] = VerifiedDoc(records[x], now)
                              /\ verifiedOn'[x] = now
    BY <2>1, <2>2, RecordChange, DocTypes
  <2>4. QED
    BY <1>3, <1>4, <2>3
<1>5. QED
  BY <1>3, <1>4, RecordChange

LEMMA CreatedOnce ==
  ASSUME RecordInv, [Next]_vars, NEW x \in Requests,
         pc[x] \notin Unstored, records'[x].status # "none"
  PROVE  /\ records[x].status # "none"
         /\ records'[x].createdAt = records[x].createdAt
<1>1. records[x] \in Docs
  BY DEF RecordInv, Typed, TypeOK
<1>2. ASSUME NEW now \in Times, CanVerify(records[x], now),
             records'[x] = VerifiedDoc(records[x], now)
      PROVE  /\ records[x].status # "none"
             /\ records'[x].createdAt = records[x].createdAt
  BY <1>1, <1>2 DEF VerifiedDoc, Docs, CanVerify
<1>3. ASSUME NEW status \in Statuses, Becomes(x, status)
      PROVE  records'[x].createdAt = records[x].createdAt
  BY <1>1, <1>3 DEF Becomes, Docs
<1>4. CASE records[x].status \in {"sending", "pending"}
           /\ (Becomes(x, "pending") \/ Becomes(x, "superseded"))
  BY <1>3, <1>4 DEF Statuses
<1>5. pc[x] # "insert" /\ records'[x] # NoDoc
  BY DocTypes DEF Unstored
<1>6. QED
  BY <1>2, <1>4, <1>5, RecordChange

LEMMA ActivatedInTheEndKept == CopyInv /\ [Next]_vars => ActivatedInTheEnd'
<1> SUFFICES ASSUME CopyInv, [Next]_vars, NEW x \in Requests
             PROVE  \/ records'[x].status \in Activations
                    \/ secondary'[x].status \in Activations
                    => pc'[x] \in {"done", "failed"}
  BY DEF ActivatedInTheEnd
<1>1. \/ records[x].status \in Activations \/ secondary[x].status \in Activations
      => pc'[x] \in {"done", "failed"}
  BY PathOnward DEF CopyInv, ActivatedInTheEnd, RecordInv
<1>2. secondary'[x].status \in Activations => pc'[x] \in {"done", "failed"}
  BY <1>1, SecondaryChange DEF CopyInv
<1>3. ASSUME records'[x].status \in Activations, records[x].status \notin Activations
      PROVE  Commit(x)
  <2>1. records'[x].status = "pending"
    BY <1>3, StatusFrom, VerifiedStays DEF Activations, CopyInv
  <2>2. QED
    BY <1>3, <2>1, BecomesPending DEF Activations, CopyInv
<1>4. QED
  BY <1>1, <1>2, <1>3, CommitEffect DEF CopyInv

LEMMA MailedFirstKept == CopyInv /\ [Next]_vars => MailedFirst'
<1> SUFFICES ASSUME CopyInv, [Next]_vars, NEW x \in Requests, pc'[x] \in AfterEmail
             PROVE  Contains(mailed', x)
  BY DEF MailedFirst, AfterEmail
<1>1. CASE pc[x] \in AfterEmail
  BY <1>1, MailedGrows DEF CopyInv, RecordInv, MailedFirst, AfterEmail
<1>2. CASE SendEmail(x)
  <2>1. mailed \in Seq(Requests) /\ mailed' = Append(mailed, x)
    BY <1>2 DEF SendEmail, CopyInv, RecordInv, Typed, TypeOK
  <2>2. Len(mailed') \in 1..Len(mailed') /\ mailed'[Len(mailed')] = x
    BY <2>1
  <2>3. QED
    BY <2>2 DEF Contains
<1>3. QED
  BY <1>1, <1>2, PathOnward DEF CopyInv, RecordInv

\* What is over stays over.
LEMMA OverStays ==
  ASSUME CopyInv, [Next]_vars, NEW x \in Requests, Over(x)
  PROVE  Over(x)'
<1>1. pc'[x] \notin Unstored
  BY PathOnward DEF Over, CopyInv, RecordInv
<1>2. verifiedOn'[x] = Never
  BY VerifiedStays DEF Over, CopyInv
<1>3. records[x] \in Docs /\ records'[x] \in Docs
  BY StepTyped DEF CopyInv, RecordInv, Typed, TypeOK
<1>4. records'[x].status \in {"superseded", "none"}
  <2>1. records'[x] = records[x] \/ records'[x] = NoDoc
    BY RecordChange DEF Over, CopyInv, CanVerify, Unstored
  <2>2. QED
    BY <2>1, DocTypes DEF Over
<1>5. QED
  BY <1>1, <1>2, <1>4 DEF Over

LEMMA CopiesAgreeKept == CopyInv /\ [Next]_vars => CopiesAgree'
<1> SUFFICES ASSUME CopyInv, [Next]_vars, NEW x \in Requests
             PROVE  /\ records'[x].status # "none" /\ secondary'[x].status # "none" =>
                         records'[x].createdAt = secondary'[x].createdAt
                    /\ \A doc \in {records'[x], secondary'[x]} :
                         doc.status = "verified" => verifiedOn'[x] = doc.verifiedAt
                    /\ secondary'[x].status = "superseded" => Over(x)'
  BY DEF CopiesAgree
<1>1. RecordInv /\ Typed
  BY DEF CopyInv, RecordInv
<1>2. records[x] \in Docs /\ secondary[x] \in Docs /\ records'[x] \in Docs
  BY <1>1, StepTyped DEF Typed, TypeOK
<1>3. \A doc \in {records[x], secondary[x]} :
        doc.status = "verified" => verifiedOn'[x] = doc.verifiedAt
  <2>1. ASSUME NEW doc \in {records[x], secondary[x]}, doc.status = "verified"
        PROVE  verifiedOn[x] # Never /\ verifiedOn[x] = doc.verifiedAt
    BY <1>2, <2>1, Constants DEF CopyInv, CopiesAgree, Docs, Times
  <2>2. QED
    BY <1>1, <2>1, VerifiedStays
<1>4. CASE secondary' = records /\ CatchUp
  <2>1. records' = records /\ verifiedOn' = verifiedOn /\ pc' = pc
    BY <1>4 DEF CatchUp, requestVars
  <2>2. records[x].status = "superseded" => Over(x)
    BY DEF CopyInv, RecordInv, VerificationRecorded, ActivatedInTheEnd,
           Activations, Over, Unstored
  <2>3. Over(x) => Over(x)'
    BY OverStays
  <2>4. QED
    BY <1>3, <1>4, <2>1, <2>2, <2>3
<1>5. CASE UNCHANGED secondary
  <2>1. secondary[x].status = "superseded" => Over(x)'
    BY OverStays DEF CopyInv, CopiesAgree
  <2>2. records'[x].status = "verified" => verifiedOn'[x] = records'[x].verifiedAt
    BY <1>1, <1>3, VerifiedStays
  <2>3. ASSUME records'[x].status # "none", secondary[x].status # "none"
        PROVE  records'[x].createdAt = secondary[x].createdAt
    <3>1. pc[x] \notin Unstored
      BY <1>1, <2>3, DocTypes DEF RecordInv, NotStoredYet
    <3>2. QED
      BY <1>1, <2>3, <3>1, CreatedOnce DEF CopyInv, CopiesAgree
  <2>4. QED
    BY <1>3, <1>5, <2>1, <2>2, <2>3
<1>6. QED
  BY <1>1, <1>4, <1>5, SecondaryChange

LEMMA CopyInvariant == Spec => []CopyInv
<1>1. Init => ActivatedInTheEnd /\ MailedFirst /\ CopiesAgree
  <2> SUFFICES ASSUME Init, NEW x \in Requests
               PROVE  /\ records[x] = NoDoc /\ secondary[x] = NoDoc
                      /\ pc[x] = "idle"
    BY DocTypes DEF ActivatedInTheEnd, MailedFirst, CopiesAgree, Activations,
                    InTransaction
  <2>1. QED
    BY DEF Init, InitRequests, NoDocs
<1>2. CopyInv /\ [Next]_vars =>
        ActivatedInTheEnd' /\ MailedFirst' /\ CopiesAgree'
  BY ActivatedInTheEndKept, MailedFirstKept, CopiesAgreeKept
<1>3. Spec => [](ActivatedInTheEnd /\ MailedFirst /\ CopiesAgree)
  BY <1>1, <1>2, RecordInvariant, PTL DEF Spec, CopyInv
<1>4. QED
  BY <1>3, RecordInvariant, PTL DEF CopyInv

\* A link is superseded only by the commit that makes another link of its
\* journey live, one whose email has gone: an activation that fails, at
\* whatever point, takes no working link away.
THEOREM SupersededOnlyByAnother == Spec => SupersededByAnother
<1>1. ASSUME CopyInv, [Next]_vars, NEW x \in Requests,
             records[x].status = "pending", records'[x].status = "superseded"
      PROVE  \E y \in Requests \ {x} :
               /\ JourneyOf[y] = JourneyOf[x]
               /\ records[y].status = "sending"
               /\ records'[y].status = "pending"
               /\ Contains(mailed, y)
  <2>1. RecordInv /\ records \in [Requests -> Docs]
    BY <1>1 DEF CopyInv, RecordInv, Typed, TypeOK
  <2>2. PICK r \in Requests : Commit(r)
    BY <1>1, <2>1, BecomesSuperseded
  <2>3. /\ pc[r] = "moved" /\ records[r].status = "sending"
        /\ records'[r].status = "pending"
    <3>1. /\ pc[r] = "moved" /\ records[r].status = "sending"
          /\ records'[r] = [records[r] EXCEPT !.status = "pending"]
      BY <2>1, <2>2, CommitEffect
    <3>2. records[r] \in Docs
      BY <2>1
    <3>3. QED
      BY <3>1, <3>2 DEF Docs
  <2>4. x # r
    BY <1>1, <2>3
  <2>5. x \in Written(r)
    BY <1>1, <2>1, <2>2, CommitEffect
  <2>6. JourneyOf[r] = JourneyOf[x]
    BY <2>1, <2>2, <2>4, <2>5, CommitEffect
  <2>7. Contains(mailed, r)
    BY <1>1, <2>3 DEF CopyInv, MailedFirst, InTransaction
  <2>8. QED
    BY <2>3, <2>4, <2>6, <2>7
<1>2. CopyInv /\ [Next]_vars =>
        [\A x \in Requests :
           records[x].status = "pending" /\ records'[x].status = "superseded" =>
             \E y \in Requests \ {x} :
               /\ JourneyOf[y] = JourneyOf[x]
               /\ records[y].status = "sending"
               /\ records'[y].status = "pending"
               /\ Contains(mailed, y)]_vars
  BY <1>1
<1>3. QED
  BY <1>2, CopyInvariant, PTL DEF Spec, SupersededByAnother

-----------------------------------------------------------------------------
(* Undoing a send.                                                         *)

LEMMA UndoneSoFarKept == CopyInv /\ UndoneSoFar /\ [Next]_vars => UndoneSoFar'
<1> SUFFICES ASSUME CopyInv, UndoneSoFar, [Next]_vars, faults' = 0,
                    NEW x \in Requests, pc'[x] \in {"undo", "undone"}
             PROVE  /\ pc'[x] = "undone" \/ "record" \notin undoing'[x] =>
                         records'[x] = NoDoc
                    /\ pc'[x] = "undone" \/ "quota" \notin undoing'[x] =>
                         grants'[x] = NotGranted
  BY DEF UndoneSoFar
<1>1. /\ RecordInv /\ Typed
      /\ pc \in [Requests -> Steps] /\ faults \in Nat
      /\ records \in [Requests -> Docs]
      /\ undoing \in [Requests -> SUBSET {"record", "quota"}]
      /\ grants \in [Requests -> Times \cup {NotGranted}]
  BY DEF CopyInv, RecordInv, Typed, TypeOK
<1>2. ~Fault
  BY <1>1 DEF Fault
<1>3. faults = 0
  BY <1>1, <1>2, FaultsOnward
<1>4. pc[x] \in {"undo", "undone"} =>
        /\ pc[x] = "undone" \/ "record" \notin undoing[x] => records[x] = NoDoc
        /\ pc[x] = "undone" \/ "quota" \notin undoing[x] => grants[x] = NotGranted
  BY <1>3 DEF UndoneSoFar
<1>5. records[x] = NoDoc /\ pc[x] \in {"undo", "undone"} => records'[x] = NoDoc
  BY <1>1, RecordChange, DocTypes DEF CanVerify
<1>6. CASE UNCHANGED <<pc, undoing, grants>>
  BY <1>4, <1>5, <1>6
<1>7. ASSUME NEW r \in Requests, Request(r), r # x
      PROVE  pc'[x] = pc[x] /\ undoing'[x] = undoing[x] /\ grants'[x] = grants[x]
  <2> USE <1>1, <1>7 DEF Goto
  <2>1. CASE Send(r)
    BY <2>1 DEF Send, Reserve, Quota!Grant, InsertSendingRecord, SendEmail, SendFails
  <2>2. CASE Undo(r)
    BY <2>2 DEF Undo, DeleteSendingRecord, ReleaseQuota, EndUndo, Quota!GiveBack
  <2>3. CASE Activate(r)
    BY <2>3 DEF Activate, WriteMarker, Sweep, MakePending, Retry,
                NoLongerSending, Commit, EndTransaction
  <2>4. CASE Faulty(r)
    BY <1>2, <2>4 DEF Faulty, InsertFails, UndoFails, TransactionFails, ProcessDies
  <2>5. QED
    BY <2>1, <2>2, <2>3, <2>4 DEF Request
<1>8. CASE Request(x)
  <2> USE <1>1, <1>8 DEF Goto
  <2>1. CASE SendFails(x)
    BY <2>1 DEF SendFails
  <2>2. CASE Reserve(x) \/ InsertSendingRecord(x) \/ SendEmail(x)
    BY <2>2 DEF Reserve, InsertSendingRecord, SendEmail
  <2>3. CASE DeleteSendingRecord(x)
    <3>1. records[x].status \in {"sending", "none"}
      BY <2>3 DEF DeleteSendingRecord, CopyInv, ActivatedInTheEnd, Activations,
                  Docs, Statuses
    <3>2. records'[x] = NoDoc
      BY <2>3, <3>1 DEF DeleteSendingRecord, Change, AfterDelete, RecordInv,
                        NoneIsNoDoc
    <3>3. QED
      BY <1>4, <2>3, <3>2 DEF DeleteSendingRecord
  <2>4. CASE ReleaseQuota(x)
    BY <1>4, <1>5, <2>4 DEF ReleaseQuota, Quota!GiveBack
  <2>5. CASE EndUndo(x)
    BY <1>4, <1>5, <2>5 DEF EndUndo
  <2>6. CASE Activate(x)
    BY <2>6 DEF Activate, WriteMarker, Sweep, MakePending, Retry,
                NoLongerSending, Commit, EndTransaction
  <2>7. CASE Faulty(x)
    BY <1>2, <2>7 DEF Faulty, InsertFails, UndoFails, TransactionFails, ProcessDies
  <2>8. QED
    BY <2>1, <2>2, <2>3, <2>4, <2>5, <2>6, <2>7 DEF Request, Send, Undo
<1>9. QED
  BY <1>4, <1>5, <1>6, <1>7, <1>8, WhoMoves

\* "Nothing is stored and no quota is used": true of any request whose undo
\* met no fault, whoever else requests, activates and reads meanwhile.
THEOREM UndoLeavesNothing == Spec => []NothingLeftBehind
<1>1. Init => UndoneSoFar
  BY DEF Init, InitRequests, UndoneSoFar
<1>2. UndoneSoFar => NothingLeftBehind
  BY DEF UndoneSoFar, NothingLeftBehind
<1>3. QED
  BY <1>1, <1>2, UndoneSoFarKept, CopyInvariant, PTL DEF Spec

-----------------------------------------------------------------------------
(* Attempts to use a link.                                                 *)

\* Who of the readers goes on.
LEMMA WhoReads ==
  ASSUME [Next]_vars
  PROVE  /\ \/ UNCHANGED attempt
            \/ \E a \in Attempts :
                 OpenLink(a) \/ MarkVerified(a) \/ MarkFails(a) \/ Explain(a)
         /\ UNCHANGED registration \/ \E g \in Registrations : Submit(g) \/ Check(g)
         /\ \/ UNCHANGED poll
            \/ \E p \in Polls : Ask(p) \/ ReadLatest(p) \/ ReadVerification(p)
<1>1. CASE UNCHANGED useVars
  BY <1>1 DEF useVars
<1>2. ASSUME NEW a \in Attempts,
             OpenLink(a) \/ MarkVerified(a) \/ MarkFails(a) \/ Explain(a)
      PROVE  UNCHANGED <<registration, poll>>
  BY <1>2 DEF OpenLink, MarkVerified, MarkFails, Explain
<1>3. ASSUME NEW g \in Registrations, Submit(g) \/ Check(g)
      PROVE  UNCHANGED <<attempt, poll>>
  BY <1>3 DEF Submit, Check
<1>4. ASSUME NEW p \in Polls, Ask(p) \/ ReadLatest(p) \/ ReadVerification(p)
      PROVE  UNCHANGED <<attempt, registration>>
  BY <1>4 DEF Ask, ReadLatest, ReadVerification
<1>5. QED
  BY <1>1, <1>2, <1>3, <1>4 DEF Next, Use, vars, useVars

\* What an attempt has been told it was told truly, and that stays true.
LEMMA AnswerStays ==
  ASSUME CopyInv, [Next]_vars, NEW a \in Attempts, AttemptTrue(a),
         attempt'[a] = attempt[a]
  PROVE  AttemptTrue(a)'
<1>1. RecordInv /\ Typed /\ attempt[a].link \in Requests
  BY DEF CopyInv, RecordInv, Typed, TypeOK, AttemptStates
<1>2. ASSUME NEW x \in Requests, pc[x] \notin Unstored,
             \/ records[x].status = "none"
             \/ ExpiresAt(records[x]) <= attempt[a].now
      PROVE  /\ pc'[x] \notin Unstored
             /\ \/ records'[x].status = "none"
                \/ ExpiresAt(records'[x]) <= attempt[a].now
  <2>1. pc'[x] \notin Unstored
    BY <1>1, <1>2, PathOnward
  <2>2. QED
    BY <1>1, <1>2, <2>1, CreatedOnce DEF ExpiresAt
<1>3. QED
  BY <1>1, <1>2, VerifiedStays, OverStays DEF AttemptTrue

\* A refusal is read off either copy.
LEMMA ExplainTrue ==
  ASSUME CopyInv, [Next]_vars, NEW a \in Attempts, Explain(a)
  PROVE  AttemptTrue(a)'
<1>1. RecordInv /\ TypeOK /\ attempt \in [Attempts -> AttemptStates]
  BY DEF CopyInv, RecordInv, Typed, TypeOK
<1>2. PICK copy \in Copies :
        Answer(a, "done", Rejection(copy[attempt[a].link], attempt[a].now))
  BY DEF Explain
<1> DEFINE x == attempt[a].link
           code == Rejection(copy[x], attempt[a].now)
<1>3. x \in Requests /\ attempt[a].now \in Times
  BY <1>1 DEF AttemptStates
<1>4. copy[x] \in Docs /\ copy[x] \in {records[x], secondary[x]}
  BY <1>1, <1>3, CopyTypes
<1>5. /\ attempt'[a].link = x /\ attempt'[a].now = attempt[a].now
      /\ attempt'[a].answer = code /\ attempt'[a].step = "done"
  BY <1>1, <1>2 DEF Answer, AttemptStates
<1>6. UNCHANGED <<records, verifiedOn, pc>>
  BY DEF Explain, requestVars
<1>7. code = "TOKEN_ALREADY_USED" => verifiedOn[x] # Never
  <2>1. SUFFICES ASSUME code = "TOKEN_ALREADY_USED" PROVE verifiedOn[x] # Never
    OBVIOUS
  <2>2. copy[x].status = "verified"
    BY <2>1 DEF Rejection
  <2>3. verifiedOn[x] = copy[x].verifiedAt
    BY <1>3, <1>4, <2>2 DEF CopyInv, CopiesAgree
  <2>4. QED
    BY <1>4, <2>3, Constants DEF Docs, Times
<1>8. code = "TOKEN_SUPERSEDED" => Over(x)
  <2>1. SUFFICES ASSUME code = "TOKEN_SUPERSEDED" PROVE Over(x)
    OBVIOUS
  <2>2. copy[x].status = "superseded"
    BY <2>1 DEF Rejection
  <2>3. QED
    BY <1>1, <1>3, <1>4, <2>2
       DEF CopyInv, CopiesAgree, RecordInv, VerificationRecorded,
           ActivatedInTheEnd, Activations, Over, Unstored
<1>9. code = "TOKEN_EXPIRED" =>
        /\ pc[x] \notin Unstored
        /\ records[x].status = "none" \/ ExpiresAt(records[x]) <= attempt[a].now
  <2>1. SUFFICES ASSUME code = "TOKEN_EXPIRED"
                 PROVE  /\ pc[x] \notin Unstored
                        /\ \/ records[x].status = "none"
                           \/ ExpiresAt(records[x]) <= attempt[a].now
    OBVIOUS
  <2>2. copy[x].status = "pending" /\ ExpiresAt(copy[x]) <= attempt[a].now
    BY <2>1 DEF Rejection
  <2>3. pc[x] \notin Unstored
    BY <1>3, <1>4, <2>2 DEF CopyInv, ActivatedInTheEnd, Activations, Unstored
  <2>4. records[x].status # "none" => records[x].createdAt = copy[x].createdAt
    BY <1>3, <1>4, <2>2 DEF CopyInv, CopiesAgree
  <2>5. QED
    BY <2>2, <2>3, <2>4 DEF ExpiresAt
<1>10. code \in Codes
  BY DEF Rejection, Codes
<1>11. QED
  BY <1>5, <1>6, <1>7, <1>8, <1>9, <1>10 DEF AttemptTrue, Codes, Over

\* Of the attempts, one step changes one.
LEMMA AttemptStep ==
  ASSUME CopyInv, [Next]_vars, \A a \in Attempts : AttemptTrue(a), OneSuccess
  PROVE  (\A a \in Attempts : AttemptTrue(a)') /\ OneSuccess'
<1>1. attempt \in [Attempts -> AttemptStates] /\ RecordInv /\ Typed
  BY DEF CopyInv, RecordInv, Typed, TypeOK
<1>2. ASSUME NEW a \in Attempts, NEW b \in Attempts, a # b,
             OpenLink(a) \/ MarkVerified(a) \/ MarkFails(a) \/ Explain(a)
      PROVE  attempt'[b] = attempt[b]
  BY <1>1, <1>2 DEF OpenLink, MarkVerified, MarkFails, Explain, Answer
<1>3. CASE UNCHANGED attempt
  BY <1>3, AnswerStays DEF OneSuccess
<1>4. ASSUME NEW a \in Attempts,
             \/ OpenLink(a) \/ MarkFails(a) \/ Explain(a)
             \/ MarkVerified(a) /\ attempt'[a].answer # "VERIFIED"
      PROVE  AttemptTrue(a)' /\ attempt'[a].answer # "VERIFIED"
  <2>1. CASE OpenLink(a)
    <3>1. attempt[a].answer = "none"
      BY <2>1 DEF OpenLink, AttemptTrue
    <3>2. attempt'[a].answer = "none"
      BY <1>1, <2>1, <3>1 DEF OpenLink, AttemptStates
    <3>3. QED
      BY <3>2 DEF AttemptTrue
  <2>2. CASE MarkFails(a)
    <3>1. attempt'[a].answer = "VERIFICATION_FAILED" /\ attempt'[a].step = "done"
      BY <1>1, <2>2 DEF MarkFails, Answer, AttemptStates
    <3>2. QED
      BY <3>1 DEF AttemptTrue
  <2>3. CASE Explain(a)
    <3>1. attempt'[a].answer \in Codes
      BY <1>1, <2>3 DEF Explain, Answer, AttemptStates, Rejection, Codes
    <3>2. QED
      BY <2>3, <3>1, ExplainTrue DEF Codes
  <2>4. CASE MarkVerified(a) /\ attempt'[a].answer # "VERIFIED"
    <3>1. attempt'[a].answer = "none"
      BY <1>1, <2>4 DEF MarkVerified, Answer, AttemptStates
    <3>2. QED
      BY <3>1 DEF AttemptTrue
  <2>5. QED
    BY <1>4, <2>1, <2>2, <2>3, <2>4
<1>5. ASSUME NEW a \in Attempts,
             OpenLink(a) \/ MarkVerified(a) \/ MarkFails(a) \/ Explain(a),
             attempt'[a].answer # "VERIFIED"
      PROVE  (\A b \in Attempts : AttemptTrue(b)') /\ OneSuccess'
  BY <1>2, <1>4, <1>5, AnswerStays DEF OneSuccess
<1>6. ASSUME NEW a \in Attempts, MarkVerified(a), attempt'[a].answer = "VERIFIED"
      PROVE  (\A b \in Attempts : AttemptTrue(b)') /\ OneSuccess'
  <2> DEFINE x == attempt[a].link
  <2>1. CanVerify(records[x], attempt[a].now)
    BY <1>1, <1>6 DEF MarkVerified, Answer, AttemptStates
  <2>2. x \in Requests /\ attempt[a].now \in Times
    BY <1>1 DEF AttemptStates
  <2>3. /\ attempt'[a].link = x /\ attempt'[a].step = "done"
        /\ verifiedOn'[x] = attempt[a].now
    BY <1>1, <1>6, <2>1, <2>2
       DEF MarkVerified, Answer, AttemptStates, Verify, Typed, TypeOK
  <2>4. AttemptTrue(a)'
    BY <1>6, <2>2, <2>3, Constants DEF AttemptTrue, Times
  <2>5. \A b \in Attempts : AttemptTrue(b)'
    BY <1>2, <1>6, <2>4, AnswerStays
  <2>6. verifiedOn[x] = Never
    BY <1>1, <2>1, <2>2 DEF CanVerify, RecordInv, VerificationRecorded
  <2>7. \A b \in Attempts \ {a} :
          ~(attempt'[b].answer = "VERIFIED" /\ attempt'[b].link = x)
    BY <1>2, <1>6, <2>6 DEF AttemptTrue
  <2>8. OneSuccess'
    BY <1>2, <1>6, <2>3, <2>7 DEF OneSuccess
  <2>9. QED
    BY <2>5, <2>8
<1>7. QED
  BY <1>3, <1>4, <1>5, <1>6, WhoReads

LEMMA AttemptsInvariant == Spec => [](AttemptsTrue /\ OneSuccess)
<1>1. Init => AttemptsTrue /\ OneSuccess
  BY DEF Init, AttemptsTrue, AttemptTrue, OneSuccess
<1>2. CopyInv /\ AttemptsTrue /\ OneSuccess /\ [Next]_vars =>
        AttemptsTrue' /\ OneSuccess'
  BY AttemptStep DEF AttemptsTrue
<1>3. QED
  BY <1>1, <1>2, CopyInvariant, PTL DEF Spec

\* Of any number of concurrent attempts to use a link at most one is told that
\* it verified it.
THEOREM OneAttemptSucceeds == Spec => []OneSuccess
BY AttemptsInvariant, PTL

\* A link's final refusal is true for good, from whichever copy it was read.
THEOREM RejectionsAreTrue == Spec => []RejectionIsTrue
<1>1. AttemptsTrue => RejectionIsTrue
  BY DEF AttemptsTrue, AttemptTrue, RejectionIsTrue, Over
<1>2. QED
  BY <1>1, AttemptsInvariant, PTL

-----------------------------------------------------------------------------
(* The gate and the browsers.                                              *)

\* What either copy says was verified recently was.
LEMMA RecentWasVerified ==
  ASSUME CopyInv, NEW copy \in Copies, NEW j, NEW e, NEW now \in Times,
         RecentVerifications(copy, j, e, now - VerifiedTtl) # {}
  PROVE  \E x \in Requests :
           /\ JourneyOf[x] = j /\ EmailOf[x] = e
           /\ verifiedOn[x] # Never /\ verifiedOn[x] + VerifiedTtl > now
<1>1. PICK x \in Requests :
        /\ JourneyOf[x] = j /\ EmailOf[x] = e
        /\ copy[x].status = "verified"
        /\ copy[x].verifiedAt > now - VerifiedTtl
  BY DEF RecentVerifications
<1>2. copy[x] \in {records[x], secondary[x]} /\ copy[x] \in Docs
  BY CopyTypes DEF CopyInv, RecordInv, Typed
<1>3. verifiedOn[x] = copy[x].verifiedAt
  BY <1>1, <1>2 DEF CopyInv, CopiesAgree
<1>4. copy[x].verifiedAt \in Nat /\ now \in Nat
  BY <1>2, Constants DEF Docs, Times
<1>5. verifiedOn[x] + VerifiedTtl > now
  BY <1>1, <1>3, <1>4, Constants
<1>6. QED
  BY <1>1, <1>3, <1>4, <1>5, Constants

LEMMA RegistrationsTrueKept ==
  CopyInv /\ RegistrationsTrue /\ [Next]_vars => RegistrationsTrue'
<1> DEFINE Witness(g) ==
      \E x \in Requests :
        /\ JourneyOf[x] = registration[g].journey
        /\ EmailOf[x] = registration[g].email
        /\ verifiedOn[x] # Never
        /\ verifiedOn[x] + VerifiedTtl > registration[g].now
<1> SUFFICES ASSUME CopyInv, RegistrationsTrue, [Next]_vars, NEW g \in Registrations
             PROVE  /\ registration'[g].answer = "accepted" => Witness(g)'
                    /\ registration'[g].answer # "none" =>
                         registration'[g].step = "done"
  BY DEF RegistrationsTrue, GateNeedsVerification
<1>1. registration \in [Registrations -> RegistrationStates] /\ RecordInv
  BY DEF CopyInv, RecordInv, Typed, TypeOK
<1>2. /\ registration[g].answer = "accepted" => Witness(g)
      /\ registration[g].answer # "none" => registration[g].step = "done"
  BY DEF RegistrationsTrue, GateNeedsVerification
<1>3. CASE registration'[g] = registration[g]
  <2>1. Witness(g) => Witness(g)'
    BY <1>1, <1>3, VerifiedStays
  <2>2. QED
    BY <1>2, <1>3, <2>1
<1>4. CASE Submit(g)
  <2>1. registration[g].answer = "none"
    BY <1>2, <1>4 DEF Submit
  <2>2. registration'[g].answer = "none"
    BY <1>1, <1>4, <2>1 DEF Submit, RegistrationStates
  <2>3. QED
    BY <2>2
<1>5. CASE Check(g)
  <2> DEFINE it == registration[g]
  <2>1. PICK copy \in Copies :
          registration' = [registration EXCEPT
            ![g].step = "done",
            ![g].answer = IF GateOpens(copy, it.journey, it.email, it.now)
                          THEN "accepted" ELSE "EMAIL_NOT_VERIFIED"]
    BY <1>5 DEF Check
  <2>2. /\ registration'[g].step = "done" /\ registration'[g].journey = it.journey
        /\ registration'[g].email = it.email /\ registration'[g].now = it.now
        /\ registration'[g].answer = "accepted" =>
             GateOpens(copy, it.journey, it.email, it.now)
    BY <1>1, <2>1 DEF RegistrationStates
  <2>3. it.now \in Times
    BY <1>1 DEF RegistrationStates
  <2>4. GateOpens(copy, it.journey, it.email, it.now) => Witness(g)
    BY <2>3, RecentWasVerified DEF GateOpens
  <2>5. UNCHANGED verifiedOn
    BY <1>5 DEF Check
  <2>6. QED
    BY <2>2, <2>4, <2>5
<1>6. ASSUME NEW h \in Registrations \ {g}, Submit(h) \/ Check(h)
      PROVE  registration'[g] = registration[g]
  BY <1>1, <1>6 DEF Submit, Check
<1>7. QED
  BY <1>3, <1>4, <1>5, <1>6, WhoReads

\* No registration passes the gate without a verification of its address on
\* its journey that counted when it was submitted, from whichever copy the
\* gate reads.
THEOREM AcceptedNeedsVerification == Spec => []GateNeedsVerification
<1>1. Init => RegistrationsTrue
  BY DEF Init, RegistrationsTrue, GateNeedsVerification
<1>2. RegistrationsTrue => GateNeedsVerification
  BY DEF RegistrationsTrue
<1>3. QED
  BY <1>1, <1>2, RegistrationsTrueKept, CopyInvariant, PTL DEF Spec

LEMMA PollsTrueKept == CopyInv /\ PollsTrue /\ [Next]_vars => PollsTrue'
<1> DEFINE Verified(p) ==
      \E x \in Requests :
        /\ JourneyOf[x] = poll[p].journey
        /\ EmailOf[x] = EmailOf[poll[p].link]
        /\ verifiedOn[x] # Never
        /\ verifiedOn[x] + VerifiedTtl > poll[p].now
<1> SUFFICES ASSUME CopyInv, PollsTrue, [Next]_vars, NEW p \in Polls
             PROVE  /\ poll'[p].answer = "verified" => Verified(p)'
                    /\ poll'[p].answer = "pending" =>
                         /\ Contains(mailed', poll'[p].link)
                         /\ poll'[p].was.createdAt + LinkTtl > poll'[p].now
                    /\ poll'[p].answer # "unknown" => poll'[p].step = "done"
                    /\ poll'[p].was.status = "pending" =>
                         Contains(mailed', poll'[p].link)
  BY DEF PollsTrue, PollTellsTruth
<1>1. poll \in [Polls -> PollStates] /\ RecordInv /\ Typed
  BY DEF CopyInv, RecordInv, Typed, TypeOK
<1>2. /\ poll[p].answer = "verified" => Verified(p)
      /\ poll[p].answer = "pending" =>
           /\ Contains(mailed, poll[p].link)
           /\ poll[p].was.createdAt + LinkTtl > poll[p].now
      /\ poll[p].answer # "unknown" => poll[p].step = "done"
      /\ poll[p].was.status = "pending" => Contains(mailed, poll[p].link)
  BY DEF PollsTrue, PollTellsTruth
<1>3. poll[p].link \in Requests /\ poll[p].now \in Times
  BY <1>1 DEF PollStates
<1>4. Contains(mailed, poll[p].link) => Contains(mailed', poll[p].link)
  BY <1>1, <1>3, MailedGrows
<1>5. CASE poll'[p] = poll[p]
  <2>1. Verified(p) => Verified(p)'
    BY <1>1, <1>5, VerifiedStays
  <2>2. QED
    BY <1>2, <1>4, <1>5, <2>1
<1>6. CASE Ask(p)
  <2>1. poll[p].answer = "unknown"
    BY <1>2, <1>6 DEF Ask
  <2>2. /\ poll'[p].answer = "unknown" /\ poll'[p].was = poll[p].was
        /\ poll'[p].link = poll[p].link
    BY <1>1, <1>6, <2>1 DEF Ask, PollStates
  <2>3. QED
    BY <1>2, <1>4, <2>2
<1>7. CASE ReadLatest(p)
  <2>1. poll[p].answer = "unknown"
    BY <1>2, <1>7 DEF ReadLatest
  <2>2. PICK copy \in Copies :
          \/ poll' = [poll EXCEPT ![p].step = "done", ![p].answer = "none"]
          \/ \E x \in LatestRecords(copy, poll[p].journey) :
               poll' = [poll EXCEPT ![p].step = "verification",
                                    ![p].link = x, ![p].was = copy[x]]
    BY <1>7 DEF ReadLatest
  <2>3. CASE poll' = [poll EXCEPT ![p].step = "done", ![p].answer = "none"]
    <3>1. /\ poll'[p].answer = "none" /\ poll'[p].step = "done"
          /\ poll'[p].was = poll[p].was /\ poll'[p].link = poll[p].link
      BY <1>1, <2>3 DEF PollStates
    <3>2. QED
      BY <1>2, <1>4, <3>1
  <2>4. ASSUME NEW x \in LatestRecords(copy, poll[p].journey),
               poll' = [poll EXCEPT ![p].step = "verification",
                                    ![p].link = x, ![p].was = copy[x]]
        PROVE  /\ poll'[p].answer = "unknown"
               /\ poll'[p].was.status = "pending" =>
                    Contains(mailed', poll'[p].link)
    <3>1. x \in Requests
      BY DEF LatestRecords
    <3>2. copy[x].status = "pending" => Contains(mailed, x)
      BY <1>1, <3>1, CopyTypes
         DEF CopyInv, ActivatedInTheEnd, Activations, MailedFirst, Typed
    <3>3. poll'[p].answer = poll[p].answer /\ poll'[p].was = copy[x] /\ poll'[p].link = x
      BY <1>1, <2>4 DEF PollStates
    <3>4. QED
      BY <1>1, <2>1, <3>1, <3>2, <3>3, MailedGrows
  <2>5. QED
    BY <2>2, <2>3, <2>4
<1>8. CASE ReadVerification(p)
  <2> DEFINE it == poll[p]
             found(copy) == RecentVerifications(copy, it.journey,
                              EmailOf[it.link], it.now - VerifiedTtl)
  <2>1. PICK copy \in Copies :
          poll' = [poll EXCEPT ![p].step = "done",
                     ![p].answer = StatusOf(found(copy), it.was, it.now)]
    BY <1>8 DEF ReadVerification
  <2>2. /\ poll'[p].step = "done" /\ poll'[p].journey = it.journey
        /\ poll'[p].link = it.link /\ poll'[p].now = it.now
        /\ poll'[p].was = it.was
        /\ poll'[p].answer = StatusOf(found(copy), it.was, it.now)
    BY <1>1, <2>1 DEF PollStates
  <2>3. found(copy) # {} => Verified(p)
    BY <1>3, RecentWasVerified
  <2>4. UNCHANGED verifiedOn
    BY <1>8 DEF ReadVerification
  <2>5. poll'[p].answer = "verified" => found(copy) # {}
    BY <2>2 DEF StatusOf
  <2>6. poll'[p].answer = "pending" =>
          it.was.status = "pending" /\ ExpiresAt(it.was) > it.now
    BY <2>2 DEF StatusOf
  <2>7. poll'[p].answer = "verified" => Verified(p)'
    BY <2>2, <2>3, <2>4, <2>5
  <2> HIDE DEF found
  <2>8. QED
    BY <1>2, <1>4, <2>2, <2>6, <2>7 DEF ExpiresAt
<1>9. ASSUME NEW q \in Polls \ {p}, Ask(q) \/ ReadLatest(q) \/ ReadVerification(q)
      PROVE  poll'[p] = poll[p]
  BY <1>1, <1>9 DEF Ask, ReadLatest, ReadVerification
<1>10. QED
  BY <1>5, <1>6, <1>7, <1>8, <1>9, WhoReads

\* A browser's answer is true although two reads, of two copies, made it.
THEOREM PollsAreTrue == Spec => []PollTellsTruth
<1>1. Init => PollsTrue
  BY DocTypes DEF Init, PollsTrue, PollTellsTruth
<1>2. PollsTrue => PollTellsTruth
  BY DEF PollsTrue
<1>3. QED
  BY <1>1, <1>2, PollsTrueKept, CopyInvariant, PTL DEF Spec

SubmittedEarlier == \A g \in Registrations : registration[g].now <= clock

LEMMA SubmittedEarlierInvariant == Spec => []SubmittedEarlier
<1>1. Init => SubmittedEarlier
  BY DEF Init, InitRequests, Quota!Init, SubmittedEarlier
<1>2. Typed /\ SubmittedEarlier /\ [Next]_vars => SubmittedEarlier'
  <2> SUFFICES ASSUME Typed, SubmittedEarlier, [Next]_vars, NEW g \in Registrations
               PROVE  registration'[g].now <= clock'
    BY DEF SubmittedEarlier
  <2>1. /\ registration \in [Registrations -> RegistrationStates]
        /\ registration[g].now \in Nat
    BY Constants DEF Typed, TypeOK, RegistrationStates, Times
  <2>2. clock \in Nat /\ clock' \in Nat /\ clock <= clock'
    BY ClockOnward
  <2>3. ASSUME NEW h \in Registrations, Submit(h) \/ Check(h)
        PROVE  registration'[g].now \in {registration[g].now, clock}
    <3>1. CASE h # g
      BY <2>1, <2>3, <3>1 DEF Submit, Check
    <3>2. CASE h = g /\ Submit(g)
      BY <2>1, <3>2 DEF Submit, RegistrationStates
    <3>3. CASE h = g /\ Check(g)
      BY <2>1, <3>3 DEF Check, RegistrationStates
    <3>4. QED
      BY <2>3, <3>1, <3>2, <3>3
  <2>4. registration'[g].now \in {registration[g].now, clock}
    BY <2>3, WhoReads
  <2>5. registration[g].now <= clock
    BY DEF SubmittedEarlier
  <2>6. QED
    BY <2>1, <2>2, <2>4, <2>5
<1>3. QED
  BY <1>1, <1>2, TypedInvariant, PTL DEF Spec

\* The gate refuses wrongly because of where it reads and of nothing else: it
\* never does when it reads the primary.
THEOREM RefusedOnlyByLag ==
  ASSUME ReadPreference = "primary"
  PROVE  Spec => RefusedOnlyUnverified
<1> DEFINE Refusals ==
      \A g \in Registrations :
        LET it == registration'[g]
        IN  registration[g].step = "check" /\ it.answer = "EMAIL_NOT_VERIFIED" =>
              \A x \in Requests :
                /\ JourneyOf[x] = it.journey /\ EmailOf[x] = it.email
                /\ verifiedOn[x] # Never
                => verifiedOn[x] + VerifiedTtl <= clock
<1>1. ASSUME RecordInv, RegistrationsTrue, SubmittedEarlier, [Next]_vars
      PROVE  Refusals
  <2> SUFFICES ASSUME NEW g \in Registrations, registration[g].step = "check",
                      registration'[g].answer = "EMAIL_NOT_VERIFIED",
                      NEW x \in Requests,
                      JourneyOf[x] = registration'[g].journey,
                      EmailOf[x] = registration'[g].email,
                      verifiedOn[x] # Never
               PROVE  verifiedOn[x] + VerifiedTtl <= clock
    OBVIOUS
  <2> DEFINE it == registration[g]
  <2>1. /\ registration \in [Registrations -> RegistrationStates]
        /\ it.now \in Nat /\ clock \in Nat /\ it.now <= clock
        /\ verifiedOn[x] \in Nat
    BY <1>1, Constants DEF RecordInv, Typed, TypeOK, RegistrationStates, Times,
                           SubmittedEarlier
  <2>2. it.answer = "none"
    BY <1>1 DEF RegistrationsTrue
  <2>3. Check(g)
    <3>1. registration'[g] # registration[g]
      BY <2>2
    <3>2. PICK h \in Registrations : Submit(h) \/ Check(h)
      BY <1>1, <3>1, WhoReads
    <3>3. h = g
      BY <2>1, <3>1, <3>2 DEF Submit, Check
    <3>4. QED
      BY <3>2, <3>3 DEF Submit
  <2>4. /\ registration'[g].journey = it.journey /\ registration'[g].email = it.email
        /\ ~GateOpens(records, it.journey, it.email, it.now)
    BY <1>1, <2>1, <2>3 DEF Check, Copies, RegistrationStates
  <2>5. ~(records[x].status = "verified" /\ records[x].verifiedAt > it.now - VerifiedTtl)
    BY <2>4 DEF GateOpens, RecentVerifications
  <2>6. \/ /\ records[x].status = "verified"
           /\ records[x].verifiedAt = verifiedOn[x]
        \/ verifiedOn[x] + VerifiedTtl <= clock
    BY <1>1 DEF RecordInv, VerificationRecorded
  <2>7. QED
    BY <2>1, <2>5, <2>6, Constants
<1>2. RecordInv /\ RegistrationsTrue /\ SubmittedEarlier /\ [Next]_vars =>
        [Refusals]_vars
  BY <1>1
<1>3. Spec => []RegistrationsTrue
  <2>1. Init => RegistrationsTrue
    BY DEF Init, RegistrationsTrue, GateNeedsVerification
  <2>2. QED
    BY <2>1, RegistrationsTrueKept, CopyInvariant, PTL DEF Spec
<1>4. QED
  BY <1>2, <1>3, SubmittedEarlierInvariant, RecordInvariant, PTL
     DEF Spec, RefusedOnlyUnverified


-----------------------------------------------------------------------------
(* MagicLinks.                                                             *)

\* Every time that is kept was once the time.
Past ==
  /\ \A x \in Requests :
       /\ records[x].createdAt <= clock
       /\ grants[x] # NotGranted => grants[x] <= clock
  /\ \A a \in Attempts : attempt[a].now <= clock

LEMMA GrantsPast ==
  ASSUME Typed, [Next]_vars, NEW x \in Requests
  PROVE  \/ grants'[x] \in {grants[x], NotGranted}
         \/ grants'[x] \in Nat /\ grants'[x] <= clock
<1>1. grants \in [Requests -> Times \cup {NotGranted}]
  BY DEF Typed, TypeOK
<1>2. ASSUME NEW r \in Requests, Reserve(r)
      PROVE  \/ grants'[x] = grants[x]
             \/ grants'[x] \in Nat /\ grants'[x] <= clock
  <2>1. PICK t \in Times : t <= clock /\ grants' = [grants EXCEPT ![r] = t]
    BY <1>2 DEF Reserve, Quota!Grant, Quota!Times, Times
  <2>2. t \in Nat
    BY Constants DEF Times
  <2>3. QED
    BY <1>1, <2>1, <2>2
<1>3. ASSUME NEW r \in Requests, ReleaseQuota(r)
      PROVE  grants'[x] \in {grants[x], NotGranted}
  BY <1>1, <1>3 DEF ReleaseQuota, Quota!GiveBack
<1>4. ASSUME NEW r \in Requests, Request(r), ~Reserve(r), ~ReleaseQuota(r)
      PROVE  UNCHANGED grants
  BY <1>4 DEF Request, Send, Undo, Activate, Faulty, InsertSendingRecord,
     InsertFails, SendEmail, SendFails, DeleteSendingRecord, UndoFails, EndUndo,
     WriteMarker, Sweep, MakePending, Retry, NoLongerSending, Commit,
     TransactionFails, ProcessDies
<1>5. QED
  BY <1>2, <1>3, <1>4, WhoMoves

LEMMA AttemptsPast ==
  ASSUME Typed, [Next]_vars, NEW a \in Attempts
  PROVE  attempt'[a].now \in {attempt[a].now, clock}
<1>1. attempt \in [Attempts -> AttemptStates]
  BY DEF Typed, TypeOK
<1>2. ASSUME NEW b \in Attempts, OpenLink(b)
      PROVE  attempt'[a].now \in {attempt[a].now, clock}
  BY <1>1, <1>2 DEF OpenLink, AttemptStates
<1>3. ASSUME NEW b \in Attempts, MarkVerified(b) \/ MarkFails(b) \/ Explain(b)
      PROVE  attempt'[a].now = attempt[a].now
  <2>1. \E step, code : Answer(b, step, code)
    BY <1>3 DEF MarkVerified, MarkFails, Explain
  <2>2. QED
    BY <1>1, <2>1 DEF Answer, AttemptStates
<1>4. CASE UNCHANGED attempt
  BY <1>4
<1>5. UNCHANGED attempt
      \/ \E b \in Attempts :
           OpenLink(b) \/ MarkVerified(b) \/ MarkFails(b) \/ Explain(b)
  BY DEF Next, Use, useVars, vars, Submit, Check, Ask, ReadLatest,
         ReadVerification
<1>6. QED
  BY <1>2, <1>3, <1>4, <1>5

LEMMA PastInvariant == Spec => []Past
<1>1. Init => Past
  <2> SUFFICES ASSUME Init PROVE Past
    OBVIOUS
  <2>1. clock = 0
    BY DEF Init, InitRequests, Quota!Init
  <2>2. \A x \in Requests : records[x].createdAt = 0 /\ grants[x] = NotGranted
    BY DEF Init, InitRequests, Quota!Init, NoDocs, NoDoc
  <2>3. \A a \in Attempts : attempt[a].now = 0
    BY DEF Init
  <2>4. QED
    BY <2>1, <2>2, <2>3 DEF Past
<1>2. RecordInv /\ Past /\ [Next]_vars => Past'
  <2> SUFFICES ASSUME RecordInv, Past, [Next]_vars PROVE Past'
    OBVIOUS
  <2>1. clock \in Nat /\ clock' \in Nat /\ clock <= clock' /\ Typed /\ Typed'
    BY ClockOnward, StepTyped DEF RecordInv
  <2>2. ASSUME NEW x \in Requests PROVE records'[x].createdAt <= clock'
    <3>1. records[x] \in Docs /\ records[x].createdAt \in Nat
      BY <2>1, Constants DEF Typed, TypeOK, Docs, Times
    <3>2. records[x].createdAt <= clock'
      BY <2>1, <3>1 DEF Past
    <3>3. ASSUME NEW now \in Times, now = grants[x], records'[x] = SendingDoc(now)
          PROVE  records'[x].createdAt <= clock'
      <4>1. now <= clock /\ now \in Nat
        BY <3>3, Constants DEF Past, Times
      <4>2. records'[x].createdAt = now
        BY <3>3 DEF SendingDoc
      <4>3. QED
        BY <2>1, <4>1, <4>2
    <3>4. CASE records'[x] = NoDoc
      BY <2>1, <3>4 DEF NoDoc
    <3>5. ASSUME NEW now, records'[x] = VerifiedDoc(records[x], now)
          PROVE  records'[x].createdAt = records[x].createdAt
      BY <3>1, <3>5 DEF VerifiedDoc, Docs
    <3>6. ASSUME NEW status, Becomes(x, status)
          PROVE  records'[x].createdAt = records[x].createdAt
      BY <3>1, <3>6 DEF Becomes, Docs
    <3>7. QED
      BY <3>2, <3>3, <3>4, <3>5, <3>6, RecordChange
  <2>3. ASSUME NEW x \in Requests, grants'[x] # NotGranted
        PROVE  grants'[x] <= clock'
    <3>1. grants[x] # NotGranted => grants[x] \in Nat /\ grants[x] <= clock
      BY <2>1, Constants DEF Typed, TypeOK, Past, Times
    <3>2. grants'[x] \in Nat /\ grants'[x] <= clock
      BY <2>1, <2>3, <3>1, GrantsPast
    <3>3. QED
      BY <2>1, <3>2
  <2>4. ASSUME NEW a \in Attempts PROVE attempt'[a].now <= clock'
    <3>1. attempt[a].now \in Nat /\ attempt[a].now <= clock
      BY <2>1, Constants DEF Typed, TypeOK, Past, AttemptStates, Times
    <3>2. attempt'[a].now \in {attempt[a].now, clock}
      BY <2>1, AttemptsPast
    <3>3. QED
      BY <2>1, <3>1, <3>2
  <2>5. QED
    BY <2>2, <2>3, <2>4 DEF Past
<1>3. QED
  BY <1>1, <1>2, RecordInvariant, PTL DEF Spec


\* What a link is, now and after a step.
LEMMA LinkStates ==
  ASSUME NEW x \in Requests
  PROVE  /\ linkBar[x] = IF records[x].status = "pending"
                           THEN Links!Live(ExpiresAt(records[x]))
                         ELSE IF records[x].status = "verified"
                           THEN Links!Verified(records[x].verifiedAt)
                         ELSE IF pc[x] \notin Ended THEN Links!Waiting
                         ELSE Links!Over
         /\ linkBar'[x] = IF records'[x].status = "pending"
                            THEN Links!Live(ExpiresAt(records'[x]))
                          ELSE IF records'[x].status = "verified"
                            THEN Links!Verified(records'[x].verifiedAt)
                          ELSE IF pc'[x] \notin Ended THEN Links!Waiting
                          ELSE Links!Over
BY DEF linkBar, LinkState, Links!Live, Links!Verified, Links!Waiting, Links!Over

LEMMA LinkFunctions ==
  linkBar = [x \in Requests |-> linkBar[x]] /\ linkBar' = [x \in Requests |-> linkBar'[x]]
BY DEF linkBar

LEMMA MailedMembers ==
  ASSUME mailed \in Seq(Requests)
  PROVE  /\ \A x : x \in ToSet(mailed) <=> Contains(mailed, x)
         /\ \A r \in Requests : ToSet(Append(mailed, r)) = ToSet(mailed) \cup {r}
<1>1. DOMAIN mailed = 1..Len(mailed) /\ Len(mailed) \in Nat
  OBVIOUS
<1>2. ASSUME NEW r \in Requests
      PROVE  ToSet(Append(mailed, r)) = ToSet(mailed) \cup {r}
  <2>1. /\ DOMAIN Append(mailed, r) = 1..(Len(mailed) + 1)
        /\ \A i \in 1..Len(mailed) : Append(mailed, r)[i] = mailed[i]
        /\ Append(mailed, r)[Len(mailed) + 1] = r
    OBVIOUS
  <2>2. 1..(Len(mailed) + 1) = 1..Len(mailed) \cup {Len(mailed) + 1}
    BY <1>1
  <2>3. \A x : x \in ToSet(Append(mailed, r)) <=> x \in ToSet(mailed) \cup {r}
    BY <1>1, <2>1, <2>2 DEF ToSet
  <2>4. QED
    BY <2>3
<1>3. QED
  BY <1>1, <1>2 DEF ToSet, Contains

\* A link whose request is still at it has neither been live nor been used.
LEMMA StillWaiting ==
  ASSUME CopyInv, NEW x \in Requests, pc[x] \notin Ended
  PROVE  /\ records[x].status \notin {"pending", "verified"}
         /\ linkBar[x] = Links!Waiting
<1>1. records[x].status \notin {"pending", "verified"}
  BY DEF CopyInv, ActivatedInTheEnd, Activations, Ended
<1>2. QED
  BY <1>1, LinkStates

\* A record that says of its link what it said before.
SaysAsMuch(x) ==
  \/ records'[x] = records[x]
  \/ /\ records[x].status \notin {"pending", "verified"}
     /\ records'[x].status \notin {"pending", "verified"}

\* A request that goes on, changing nothing that a link depends on, leaves the
\* link as it is, or gives it up.
LEMMA GoesOnOrGivesUp ==
  ASSUME CopyInv, UNCHANGED <<clock, mailed>>, \A x \in Requests : SaysAsMuch(x),
         NEW r \in Requests, \A s \in Requests \ {r} : pc'[s] = pc[s],
         pc[r] \notin Ended \/ pc'[r] = pc[r]
  PROVE  [Links!Next]_Links!vars
<1>1. \A x \in Requests \ {r} : linkBar'[x] = linkBar[x]
  BY LinkStates DEF SaysAsMuch
<1>2. CASE linkBar'[r] = linkBar[r]
  <2>1. linkBar' = linkBar
    BY <1>1, <1>2, LinkFunctions
  <2>2. QED
    BY <2>1 DEF Links!vars
<1>3. CASE linkBar'[r] # linkBar[r]
  <2>1. pc[r] \notin Ended
    BY <1>3, LinkStates DEF SaysAsMuch
  <2>2. linkBar[r] = Links!Waiting /\ linkBar'[r] \in {Links!Waiting, Links!Over}
    BY <2>1, StillWaiting, LinkStates DEF SaysAsMuch
  <2>3. linkBar' = [linkBar EXCEPT ![r] = Links!Over]
    BY <1>1, <1>3, <2>2, LinkFunctions
  <2>4. Links!GiveUp(r)
    BY <2>2, <2>3 DEF Links!GiveUp, Links!Becomes
  <2>5. QED
    BY <2>4 DEF Links!Next
<1>4. QED
  BY <1>2, <1>3

LEMMA RequestOfLink ==
  ASSUME CopyInv, NEW r \in Requests, Request(r), ~Commit(r)
  PROVE  [Links!Next]_Links!vars
<1>1. /\ pc \in [Requests -> Steps] /\ records \in [Requests -> Docs]
      /\ grants \in [Requests -> Times \cup {NotGranted}]
      /\ mailed \in Seq(Requests)
  BY DEF CopyInv, RecordInv, Typed, TypeOK
<1>2. CASE \/ Reserve(r) \/ EndUndo(r) \/ WriteMarker(r) \/ Sweep(r)
           \/ MakePending(r) \/ UndoFails(r) \/ ReleaseQuota(r)
  <2>1. /\ UNCHANGED <<clock, mailed, records>>
        /\ \A s \in Requests \ {r} : pc'[s] = pc[s]
        /\ pc[r] \notin Ended \/ pc'[r] = pc[r]
    BY <1>1, <1>2 DEF Reserve, EndUndo, WriteMarker, Sweep, MakePending,
       UndoFails, ReleaseQuota, Goto, Ended, Quota!Grant, Quota!GiveBack
  <2>2. QED
    BY <2>1, GoesOnOrGivesUp DEF SaysAsMuch
<1>3. CASE Retry(r) \/ NoLongerSending(r) \/ TransactionFails(r) \/ ProcessDies(r)
  <2>1. /\ UNCHANGED <<clock, mailed, records>>
        /\ \A s \in Requests \ {r} : pc'[s] = pc[s]
        /\ pc[r] \notin Ended
    BY <1>1, <1>3 DEF Retry, NoLongerSending, TransactionFails, ProcessDies,
       EndTransaction, Ended, InTransaction
  <2>2. QED
    BY <2>1, GoesOnOrGivesUp DEF SaysAsMuch
<1>4. CASE InsertSendingRecord(r) \/ InsertFails(r)
  <2>1. pc[r] = "insert" /\ records[r].status = "none"
    BY <1>4, DocTypes DEF InsertSendingRecord, InsertFails, Goto, CopyInv,
       RecordInv, NotStoredYet, Unstored
  <2>2. SendingDoc(grants[r]).status = "sending"
    BY DEF SendingDoc
  <2>3. \A x \in Requests : SaysAsMuch(x)
    BY <1>1, <1>4, <2>1, <2>2
       DEF InsertSendingRecord, InsertFails, Change, SaysAsMuch
  <2>4. /\ UNCHANGED <<clock, mailed>>
        /\ \A s \in Requests \ {r} : pc'[s] = pc[s]
        /\ pc[r] \notin Ended
    BY <1>1, <1>4, <2>1 DEF InsertSendingRecord, InsertFails, Goto, Ended
  <2>5. QED
    BY <2>3, <2>4, GoesOnOrGivesUp
<1>5. CASE DeleteSendingRecord(r)
  <2>1. \A x \in Requests : SaysAsMuch(x)
    BY <1>1, <1>5, DocTypes DEF DeleteSendingRecord, Change, AfterDelete, SaysAsMuch
  <2>2. UNCHANGED <<clock, mailed, pc>>
    BY <1>5 DEF DeleteSendingRecord
  <2>3. QED
    BY <2>1, <2>2, GoesOnOrGivesUp
<1>6. CASE SendEmail(r) \/ SendFails(r)
  <2>1. /\ pc[r] = "send" /\ pc'[r] \in {"activate", "undo"}
        /\ \A s \in Requests \ {r} : pc'[s] = pc[s]
        /\ UNCHANGED <<clock, records>>
        /\ mailed' \in {mailed, Append(mailed, r)}
    BY <1>1, <1>6 DEF SendEmail, SendFails, Goto
  <2>2. pc[r] \notin Ended /\ pc'[r] \notin Ended
    BY <2>1 DEF Ended
  <2>3. CASE mailed' = mailed
    BY <2>1, <2>2, <2>3, GoesOnOrGivesUp DEF SaysAsMuch
  <2>4. CASE mailed' = Append(mailed, r)
    <3>1. linkBar[r] = Links!Waiting
      BY <2>2, StillWaiting
    <3>2. \A x \in Requests : linkBar'[x] = linkBar[x]
      BY <2>1, <2>2, LinkStates
    <3>3. linkBar' = linkBar
      BY <3>2, LinkFunctions
    <3>4. ToSet(mailed') = ToSet(mailed) \cup {r}
      BY <1>1, <2>4, MailedMembers
    <3>5. Links!Mail(r)
      BY <2>1, <3>1, <3>3, <3>4 DEF Links!Mail
    <3>6. QED
      BY <3>5 DEF Links!Next
  <2>5. QED
    BY <2>1, <2>3, <2>4
<1>7. QED
  BY <1>2, <1>3, <1>4, <1>5, <1>6 DEF Request, Send, Undo, Activate, Faulty

LEMMA CommitOfLink ==
  ASSUME CopyInv, Past, NEW r \in Requests, Commit(r)
  PROVE  Links!GoLive(r)
<1>1. /\ records \in [Requests -> Docs] /\ records[r].createdAt \in Nat
      /\ clock \in Nat /\ mailed \in Seq(Requests) /\ records[r].createdAt <= clock
  BY Constants DEF CopyInv, RecordInv, Typed, TypeOK, Docs, Times, Past
<1>2. /\ pc[r] = "moved" /\ records[r].status = "sending"
      /\ records'[r] = [records[r] EXCEPT !.status = "pending"]
  BY CommitEffect DEF CopyInv
<1>3. pc[r] \notin Ended
  BY <1>2 DEF Ended
<1>4. linkBar[r] = Links!Waiting
  BY <1>3, StillWaiting
<1>5. r \in ToSet(mailed)
  BY <1>1, <1>2, MailedMembers DEF CopyInv, MailedFirst, InTransaction
<1> DEFINE expiresAt == records[r].createdAt + LinkTtl
<1>6. expiresAt \in 0..(clock + LinkTtl)
  BY <1>1, Constants
<1>7. linkBar'[r] = Links!Live(expiresAt)
  <2>1. records'[r].status = "pending" /\ ExpiresAt(records'[r]) = expiresAt
    BY <1>1, <1>2 DEF Docs, ExpiresAt
  <2>2. QED
    BY <2>1, LinkStates
<1>8. ASSUME NEW x \in Requests \ {r}
      PROVE  linkBar'[x] = IF JourneyOf[x] = JourneyOf[r] /\ linkBar[x].phase = "live"
                             THEN Links!Over ELSE linkBar[x]
  <2>1. pc'[x] = pc[x]
    BY CommitEffect DEF CopyInv, OthersStay
  <2>2. linkBar[x].phase = "live" <=> records[x].status = "pending"
    <3>1. /\ \A time : Links!Live(time).phase = "live"
          /\ \A time : Links!Verified(time).phase # "live"
          /\ Links!Waiting.phase # "live" /\ Links!Over.phase # "live"
      BY DEF Links!Live, Links!Verified, Links!Waiting, Links!Over
    <3>2. QED
      BY <3>1, LinkStates
  <2>3. CASE JourneyOf[x] = JourneyOf[r] /\ records[x].status = "pending"
    <3>1. x \in Written(r)
      BY <1>2, <2>3, WrittenMembers
         DEF CopyInv, RecordInv, Transactional, SnapshotCovers, InTransaction,
             OtherPending
    <3>2. records'[x].status = "superseded"
      <4>1. records'[x] = [records[x] EXCEPT !.status = "superseded"]
        BY <3>1, CommitEffect DEF CopyInv
      <4>2. records[x] \in Docs
        BY <1>1
      <4>3. QED
        BY <4>1, <4>2 DEF Docs
    <3>3. pc'[x] \in Ended
      BY <2>1, <2>3 DEF CopyInv, ActivatedInTheEnd, Activations, Ended
    <3>4. QED
      BY <2>2, <2>3, <3>2, <3>3, LinkStates
  <2>4. CASE ~(JourneyOf[x] = JourneyOf[r] /\ records[x].status = "pending")
    <3>1. records'[x] = records[x]
      BY <2>4, CommitEffect DEF CopyInv
    <3>2. linkBar'[x] = linkBar[x]
      BY <2>1, <3>1, LinkStates
    <3>3. QED
      BY <2>2, <2>4, <3>2
  <2>5. QED
    BY <2>3, <2>4
<1>9. UNCHANGED <<clock, mailed>>
  BY DEF Commit
<1> HIDE DEF expiresAt
<1>10. linkBar' = [x \in Requests |->
                     IF x = r THEN Links!Live(expiresAt)
                     ELSE IF JourneyOf[x] = JourneyOf[r] /\ linkBar[x].phase = "live"
                            THEN Links!Over ELSE linkBar[x]]
  BY <1>7, <1>8, LinkFunctions
<1>11. QED
  BY <1>4, <1>5, <1>6, <1>9, <1>10 DEF Links!GoLive

\* One link is used, or purged.
LEMMA OneLinkChanges ==
  ASSUME NEW x \in Requests, UNCHANGED <<clock, mailed, pc>>,
         \A y \in Requests \ {x} : records'[y] = records[y]
  PROVE  /\ linkBar' = [linkBar EXCEPT ![x] = linkBar'[x]]
         /\ UNCHANGED <<clock, ToSet(mailed)>>
<1>1. \A y \in Requests \ {x} : linkBar'[y] = linkBar[y]
  BY LinkStates
<1>2. QED
  BY <1>1, LinkFunctions

LEMMA PurgeOfLink ==
  ASSUME CopyInv, NEW x \in Requests, PurgeRecord(x)
  PROVE  [Links!Next]_Links!vars
<1>1. /\ records \in [Requests -> Docs] /\ records[x].createdAt \in Nat
      /\ records[x].verifiedAt \in Nat /\ clock \in Nat
  BY Constants DEF CopyInv, RecordInv, Typed, TypeOK, Docs, Times
<1>2. /\ UNCHANGED <<clock, mailed, pc>> /\ records' = [records EXCEPT ![x] = NoDoc]
      /\ records[x].createdAt + Retention <= clock
  BY DEF PurgeRecord, Change, requestVars, PurgeAt
<1>3. /\ records'[x] = NoDoc /\ records'[x].status = "none"
      /\ \A y \in Requests \ {x} : records'[y] = records[y]
  BY <1>1, <1>2, DocTypes
<1>4. CASE records[x].status \notin {"pending", "verified"}
  <2>1. \A y \in Requests : SaysAsMuch(y)
    BY <1>3, <1>4 DEF SaysAsMuch
  <2>2. QED
    BY <1>2, <2>1, GoesOnOrGivesUp
<1>5. CASE records[x].status \in {"pending", "verified"}
  <2>1. pc'[x] \in Ended
    BY <1>2, <1>5 DEF CopyInv, ActivatedInTheEnd, Activations, Ended
  <2>2. linkBar'[x] = Links!Over
    BY <1>3, <2>1, LinkStates
  <2>3. Links!Becomes(x, Links!Over)
    BY <1>2, <1>3, <2>2, OneLinkChanges DEF Links!Becomes
  <2>4. CASE records[x].status = "pending"
    <3>1. linkBar[x] = Links!Live(records[x].createdAt + LinkTtl)
      BY <2>4, LinkStates DEF ExpiresAt
    <3>2. records[x].createdAt + LinkTtl <= clock
      BY <1>1, <1>2, Constants
    <3>3. Links!Lapse(x)
      BY <2>3, <3>1, <3>2 DEF Links!Lapse, Links!Live
    <3>4. QED
      BY <3>3 DEF Links!Next
  <2>5. CASE records[x].status = "verified"
    <3>1. linkBar[x] = Links!Verified(records[x].verifiedAt)
      BY <2>5, LinkStates
    <3>2. verifiedOn[x] = records[x].verifiedAt
      BY <2>5 DEF CopyInv, CopiesAgree
    <3>3. records[x].verifiedAt < records[x].createdAt + LinkTtl
      <4>1. verifiedOn[x] # Never
        BY <1>1, <3>2, Constants
      <4>2. QED
        BY <2>5, <3>2, <4>1 DEF CopyInv, RecordInv, VerificationRecorded, ExpiresAt
    <3>4. records[x].verifiedAt + VerifiedTtl <= clock
      BY <1>1, <1>2, <3>3, Constants
    <3>5. Links!Forget(x)
      BY <2>3, <3>1, <3>4 DEF Links!Forget, Links!Verified
    <3>6. QED
      BY <3>5 DEF Links!Next
  <2>6. QED
    BY <1>5, <2>4, <2>5
<1>6. QED
  BY <1>4, <1>5

LEMMA UseOfLink ==
  ASSUME CopyInv, Past, NEW a \in Attempts,
         OpenLink(a) \/ MarkVerified(a) \/ MarkFails(a) \/ Explain(a)
  PROVE  [Links!Next]_Links!vars
<1> DEFINE x == attempt[a].link
           now == attempt[a].now
<1>1. /\ x \in Requests /\ now \in Nat /\ now <= clock /\ clock \in Nat
      /\ records \in [Requests -> Docs] /\ records[x].createdAt \in Nat
  BY MarkTyped, Constants DEF CopyInv, RecordInv, Typed, TypeOK, Docs, Times, Past
<1>2. UNCHANGED <<clock, mailed, pc>>
  BY DEF OpenLink, MarkVerified, MarkFails, Explain, requestVars
<1>3. \/ UNCHANGED records
      \/ /\ CanVerify(records[x], now)
         /\ records' = [records EXCEPT ![x] = VerifiedDoc(records[x], now)]
  BY DEF OpenLink, MarkVerified, MarkFails, Explain, Verify, Change
<1> HIDE DEF x, now
<1>4. CASE UNCHANGED records
  <2>1. \A y \in Requests : SaysAsMuch(y)
    BY <1>4 DEF SaysAsMuch
  <2>2. QED
    BY <1>1, <1>2, <2>1, GoesOnOrGivesUp
<1>5. CASE /\ CanVerify(records[x], now)
           /\ records' = [records EXCEPT ![x] = VerifiedDoc(records[x], now)]
  <2>1. /\ records'[x] = VerifiedDoc(records[x], now)
        /\ \A y \in Requests \ {x} : records'[y] = records[y]
    BY <1>1, <1>5
  <2>2. records'[x].status = "verified" /\ records'[x].verifiedAt = now
    BY <1>1, <2>1 DEF VerifiedDoc, Docs
  <2>3. linkBar'[x] = Links!Verified(now)
    BY <1>1, <2>2, LinkStates
  <2>4. linkBar[x] = Links!Live(records[x].createdAt + LinkTtl)
    BY <1>1, <1>5, LinkStates DEF CanVerify, ExpiresAt
  <2>5. now < records[x].createdAt + LinkTtl
    BY <1>1, <1>5, Constants DEF CanVerify, ExpiresAt
  <2>6. Links!Becomes(x, Links!Verified(now))
    BY <1>1, <1>2, <2>1, <2>3, OneLinkChanges DEF Links!Becomes
  <2>7. Links!Use(x)
    BY <1>1, <2>4, <2>5, <2>6 DEF Links!Use, Links!Live
  <2>8. QED
    BY <1>1, <2>7 DEF Links!Next
<1>6. QED
  BY <1>3, <1>4, <1>5

LEMMA StepOfLinks ==
  CopyInv /\ Past /\ [Next]_vars => [Links!Next]_Links!vars
<1> SUFFICES ASSUME CopyInv, Past, [Next]_vars
             PROVE  [Links!Next]_Links!vars
  OBVIOUS
<1>1. ASSUME NEW r \in Requests, Request(r)
      PROVE  [Links!Next]_Links!vars
  <2>1. CASE Commit(r)
    BY <2>1, CommitOfLink DEF Links!Next
  <2>2. CASE ~Commit(r)
    BY <1>1, <2>2, RequestOfLink
  <2>3. QED
    BY <2>1, <2>2
<1>2. CASE UNCHANGED <<clock, mailed, records, pc>>
  <2>1. \A x \in Requests : SaysAsMuch(x)
    BY <1>2 DEF SaysAsMuch
  <2>2. QED
    BY <1>2, <2>1, SomeExist, GoesOnOrGivesUp
<1>3. CASE Tick
  <2>1. UNCHANGED <<records, pc, mailed>>
    BY <1>3 DEF Tick, requestVars
  <2>2. linkBar' = linkBar
    BY <2>1 DEF linkBar, LinkState
  <2>3. Links!Tick
    BY <1>3, <2>1, <2>2 DEF Tick, Links!Tick
  <2>4. QED
    BY <2>3 DEF Links!Next
<1>4. CASE CatchUp
  BY <1>2, <1>4 DEF CatchUp, requestVars
<1>5. ASSUME NEW x \in Requests, PurgeRecord(x)
      PROVE  [Links!Next]_Links!vars
  BY <1>5, PurgeOfLink
<1>6. ASSUME NEW g \in Registrations, Submit(g) \/ Check(g)
      PROVE  [Links!Next]_Links!vars
  BY <1>2, <1>6 DEF Submit, Check, requestVars
<1>7. ASSUME NEW p \in Polls, Ask(p) \/ ReadLatest(p) \/ ReadVerification(p)
      PROVE  [Links!Next]_Links!vars
  BY <1>2, <1>7 DEF Ask, ReadLatest, ReadVerification, requestVars
<1>8. CASE UNCHANGED vars
  BY <1>2, <1>8 DEF vars, requestVars
<1>9. QED
  BY <1>1, <1>3, <1>4, <1>5, <1>6, <1>7, <1>8, UseOfLink DEF Next, Use, Background

\* Verification implements MagicLinks: whatever requests, transactions, undos,
\* attempts and purges do to a link among those of others, its life is one of
\* atomic steps, is live only after its email has gone and never beside another
\* link of its journey, and is used at most once, before it expires.
THEOREM LinksImplemented == Spec => ImplementsLinks
<1>1. Init => Links!Init
  <2> SUFFICES ASSUME Init PROVE Links!Init
    OBVIOUS
  <2>1. clock = 0 /\ mailed = <<>>
    BY DEF Init, InitRequests, Quota!Init
  <2>2. \A x \in Requests : records[x].status = "none" /\ pc[x] = "idle"
    BY DocTypes DEF Init, InitRequests, NoDocs
  <2>3. \A x \in Requests : linkBar[x] = Links!Waiting
    BY <2>2, LinkStates DEF Ended
  <2>4. linkBar = [x \in Requests |-> Links!Waiting]
    BY <2>3, LinkFunctions
  <2>5. ToSet(mailed) = {}
    BY <2>1 DEF ToSet
  <2>6. QED
    BY <2>1, <2>4, <2>5 DEF Links!Init
<1>2. QED
  BY <1>1, StepOfLinks, CopyInvariant, PastInvariant, PTL
     DEF Spec, ImplementsLinks, Links!Spec


-----------------------------------------------------------------------------
(* The latest link.  What breaks LatestLinkWorks is an activation that the *)
(* next email of its journey overtakes, and nothing else.                  *)

Activating == InTransaction \cup {"activate"}

\* A journey's activation is over before its next email has gone.
ActivationsApart ==
  \A x, y \in Requests :
    /\ pc[x] \in Activating /\ pc[y] \in Activating
    /\ JourneyOf[x] = JourneyOf[y]
    => x = y

MailedBefore(x, y) ==
  \E i, k \in 1..Len(mailed) : i < k /\ mailed[i] = x /\ mailed[k] = y

\* Who is still to be activated was mailed after all that have been.
InOrder ==
  \A x, y \in Requests :
    /\ JourneyOf[x] = JourneyOf[y]
    /\ records[x].status \in {"pending", "superseded"} /\ pc[y] \in Activating
    => MailedBefore(x, y)

LEMMA MailedBeforeStays ==
  ASSUME Typed, [Next]_vars, NEW x \in Requests, NEW y \in Requests,
         MailedBefore(x, y)
  PROVE  MailedBefore(x, y)'
<1>1. CASE UNCHANGED mailed
  BY <1>1 DEF MailedBefore
<1>2. ASSUME NEW r \in Requests, mailed' = Append(mailed, r)
      PROVE  MailedBefore(x, y)'
  <2>1. mailed \in Seq(Requests)
    BY DEF Typed, TypeOK
  <2>2. PICK i \in 1..Len(mailed), k \in 1..Len(mailed) :
          i < k /\ mailed[i] = x /\ mailed[k] = y
    BY DEF MailedBefore
  <2>3. /\ i \in 1..Len(mailed') /\ mailed'[i] = x
        /\ k \in 1..Len(mailed') /\ mailed'[k] = y
    BY <1>2, <2>1, <2>2
  <2>4. QED
    BY <2>2, <2>3 DEF MailedBefore
<1>3. QED
  BY <1>1, <1>2, MailedOnward

\* An email goes after those of all the links that have been live.
LEMMA MailedLast ==
  ASSUME CopyInv, NEW y \in Requests, SendEmail(y), NEW x \in Requests,
         records[x].status \in Activations
  PROVE  MailedBefore(x, y)'
<1>1. mailed \in Seq(Requests) /\ mailed' = Append(mailed, y)
  BY DEF SendEmail, CopyInv, RecordInv, Typed, TypeOK
<1>2. Contains(mailed, x)
  BY DEF CopyInv, ActivatedInTheEnd, MailedFirst
<1>3. PICK i \in 1..Len(mailed) : mailed[i] = x
  BY <1>2 DEF Contains
<1>4. /\ i \in 1..Len(mailed') /\ mailed'[i] = x /\ i < Len(mailed')
      /\ Len(mailed') \in 1..Len(mailed') /\ mailed'[Len(mailed')] = y
  BY <1>1, <1>3
<1>5. QED
  BY <1>4 DEF MailedBefore

LEMMA InOrderKept ==
  ASSUME CopyInv, ActivationsApart, InOrder, [Next]_vars
  PROVE  InOrder'
<1> SUFFICES ASSUME NEW x \in Requests, NEW y \in Requests,
                    JourneyOf[x] = JourneyOf[y],
                    records'[x].status \in {"pending", "superseded"},
                    pc'[y] \in Activating
             PROVE  MailedBefore(x, y)'
  BY DEF InOrder
<1>1. Typed /\ RecordInv
  BY DEF CopyInv, RecordInv
<1>2. pc[y] \in Activating \/ SendEmail(y)
  BY <1>1, PathOnward DEF Activating, AfterEmail, InTransaction
<1>3. CASE SendEmail(y)
  <2>1. records' = records
    BY <1>3 DEF SendEmail
  <2>2. QED
    BY <1>3, <2>1, MailedLast DEF Activations
<1>4. CASE pc[y] \in Activating
  <2>1. records[x].status \in {"pending", "superseded"}
    <3>1. SUFFICES ASSUME records[x].status \notin {"pending", "superseded"}
                   PROVE  FALSE
      OBVIOUS
    <3>2. records'[x].status = "pending" /\ pc[x] = "moved"
      BY <1>1, <3>1, StatusFrom
    <3>3. x = y
      BY <1>4, <3>2 DEF ActivationsApart, Activating, InTransaction
    <3>4. pc'[x] \in {"done", "failed"}
      BY <1>1, <3>1, <3>2, BecomesPending, CommitEffect
    <3>5. QED
      BY <3>3, <3>4 DEF Activating, InTransaction
  <2>2. MailedBefore(x, y)
    BY <1>4, <2>1 DEF InOrder
  <2>3. QED
    BY <1>1, <2>2, MailedBeforeStays
<1>5. QED
  BY <1>2, <1>3, <1>4

LEMMA LatestKept ==
  ASSUME CopyInv, InOrder, LatestLinkWorks, [Next]_vars
  PROVE  LatestLinkWorks'
<1> SUFFICES ASSUME NEW x \in Requests, NEW y \in Requests,
                    JourneyOf[x] = JourneyOf[y],
                    records'[x].status = "superseded",
                    records'[y].status = "pending"
             PROVE  MailedBefore(x, y)'
  BY DEF LatestLinkWorks, MailedBefore
<1>1. Typed /\ RecordInv
  BY DEF CopyInv, RecordInv
<1>2. records[x].status \in {"pending", "superseded"}
  BY <1>1, StatusFrom
<1>3. CASE records[y].status = "pending"
  <2>1. records[x].status = "superseded"
    <3>1. SUFFICES ASSUME records[x].status = "pending" PROVE FALSE
      BY <1>2
    <3>2. x = y
      BY <1>1, <1>3, <3>1, Constants DEF RecordInv, AtMostOneLive, Pending
    <3>3. QED
      BY <3>2
  <2>2. MailedBefore(x, y)
    BY <1>3, <2>1 DEF LatestLinkWorks, MailedBefore
  <2>3. QED
    BY <1>1, <2>2, MailedBeforeStays
<1>4. CASE records[y].status # "pending"
  <2>1. pc[y] = "moved"
    BY <1>1, <1>4, BecomesPending, CommitEffect
  <2>2. MailedBefore(x, y)
    BY <1>2, <2>1 DEF InOrder, Activating, InTransaction
  <2>3. QED
    BY <1>1, <2>2, MailedBeforeStays
<1>5. QED
  BY <1>3, <1>4

\* "A new link supersedes the journey's earlier ones, so only the latest works"
\* holds as long as each activation is over before the journey's next email
\* goes.  The run latest_link breaks it by one that is not.
THEOREM LatestOnlyOvertaken == Spec /\ []ActivationsApart => []LatestLinkWorks
<1>1. Init => InOrder /\ LatestLinkWorks
  <2>1. Init => \A x \in Requests : records[x].status = "none"
    BY DocTypes DEF Init, InitRequests, NoDocs
  <2>2. QED
    BY <2>1 DEF InOrder, LatestLinkWorks
<1>2. CopyInv /\ ActivationsApart /\ InOrder /\ LatestLinkWorks /\ [Next]_vars =>
        InOrder' /\ LatestLinkWorks'
  BY InOrderKept, LatestKept
<1>3. QED
  BY <1>1, <1>2, CopyInvariant, PTL DEF Spec

=============================================================================
