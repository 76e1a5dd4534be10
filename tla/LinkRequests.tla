----------------------------- MODULE LinkRequests -----------------------------
(***************************************************************************)
(* services/email-verification/request-link.js, with activateRecord's      *)
(* transaction: quota, `sending` record, Notify, activation.               *)
(*                                                                         *)
(* The rate limiter is SendQuota, which RateLimiter implements.  A request *)
(* that the limiter refuses changes nothing and is left out.               *)
(*                                                                         *)
(* The transaction runs under snapshot isolation.  Its first operation     *)
(* opens the snapshot and writes the journey's activation marker, which    *)
(* conflicts while another transaction holds it; the second reads the      *)
(* snapshot and conflicts with any document changed since; the driver      *)
(* aborts a transaction that conflicts and runs it again.  A document that *)
(* an open transaction has written cannot be changed by anybody else until *)
(* it ends.  The marker is cleared by the TTL index, which conflicts like  *)
(* any other write, so it is modelled by who holds it.                     *)
(***************************************************************************)
EXTENDS VerificationRecords, Sequences, SequencesExt

CONSTANTS
  NotGranted,   \* SendQuota's
  Never,        \* a time: a link that has not been verified
  MaxFaults     \* bound: failed operations and dead processes

ASSUME RequestsFaultsAssumption ==
  /\ NotGranted \notin Nat
  /\ Never \notin Nat
  /\ MaxFaults \in Nat

VARIABLES
  grants,       \* SendQuota's: the `now` of every request that holds a send
  pc,           \* where each request is
  undoing,      \* operations of undoSend still under way
  snapshot,     \* the records as an open transaction sees them
  mailed,       \* the requests whose email has gone, in the order they went
  verifiedOn,   \* history: the verifiedAt each link has ever been given
  faults        \* how many faults have happened

requestVars == <<grants, pc, undoing, snapshot, mailed, faults>>

Quota == INSTANCE SendQuota

Steps == {"idle", "insert", "send", "undo", "activate", "marked", "swept",
          "moved", "done", "undone", "failed", "dead"}

\* Where a request has a transaction open.
InTransaction == {"marked", "swept", "moved"}

NoDocs == [r \in Requests |-> NoDoc]

Goto(r, from, to) ==
  /\ pc[r] = from
  /\ pc' = [pc EXCEPT ![r] = to]

Fault ==
  /\ faults < MaxFaults
  /\ faults' = faults + 1

Change(r, doc) == records' = [records EXCEPT ![r] = doc]

-----------------------------------------------------------------------------
(* The request up to the email.                                            *)

\* reserveSend resolves to allowed.
Reserve(r) ==
  /\ Quota!Grant(r)
  /\ Goto(r, "idle", "insert")
  /\ UNCHANGED <<clock, records, secondary, undoing, snapshot, mailed,
                 verifiedOn, faults>>

InsertSendingRecord(r) ==
  /\ Goto(r, "insert", "send")
  /\ Change(r, SendingDoc(grants[r]))
  /\ UNCHANGED <<clock, secondary, grants, undoing, snapshot, mailed,
                 verifiedOn, faults>>

\* The insert is rejected.  The request then has no id to delete the record
\* by, even if it was inserted and only the answer was lost.
InsertFails(r) ==
  /\ Fault
  /\ Goto(r, "insert", "undo")
  /\ records' = records \/ Change(r, SendingDoc(grants[r]))
  /\ undoing' = [undoing EXCEPT ![r] = {"quota"}]
  /\ UNCHANGED <<clock, secondary, grants, snapshot, mailed, verifiedOn>>

\* Notify accepts the email.
SendEmail(r) ==
  /\ Goto(r, "send", "activate")
  /\ mailed' = Append(mailed, r)
  /\ UNCHANGED <<clock, records, secondary, grants, undoing, snapshot,
                 verifiedOn, faults>>

\* Notify refuses it or cannot be reached; after a timeout the email may have
\* gone all the same.
SendFails(r) ==
  /\ Goto(r, "send", "undo")
  /\ mailed' \in {mailed, Append(mailed, r)}
  /\ undoing' = [undoing EXCEPT ![r] = {"record", "quota"}]
  /\ UNCHANGED <<clock, records, secondary, grants, snapshot, verifiedOn,
                 faults>>

-----------------------------------------------------------------------------
(* undoSend: the record and the quota, concurrently.                       *)

\* Mutant: it matches one that is pending.
AfterDeletePending(r) ==
  IF records[r].status = "pending" THEN NoDoc ELSE records[r]

\* deleteOne matches a record that is still sending.
AfterDelete(r) == IF records[r].status = "sending" THEN NoDoc ELSE records[r]

DeleteSendingRecord(r) ==
  /\ pc[r] = "undo" /\ "record" \in undoing[r]
  /\ Change(r, AfterDelete(r))
  /\ undoing' = [undoing EXCEPT ![r] = @ \ {"record"}]
  /\ UNCHANGED <<clock, secondary, grants, pc, snapshot, mailed, verifiedOn,
                 faults>>

ReleaseQuota(r) ==
  /\ pc[r] = "undo" /\ "quota" \in undoing[r]
  /\ Quota!GiveBack(r)
  /\ undoing' = [undoing EXCEPT ![r] = @ \ {"quota"}]
  /\ UNCHANGED <<records, secondary, pc, snapshot, mailed, verifiedOn,
                 faults>>

\* One of them fails: logged, and left as it is.
UndoFails(r) ==
  /\ Fault
  /\ pc[r] = "undo"
  /\ \E x \in undoing[r] : undoing' = [undoing EXCEPT ![r] = @ \ {x}]
  /\ UNCHANGED <<clock, records, secondary, grants, pc, snapshot, mailed,
                 verifiedOn>>

EndUndo(r) ==
  /\ undoing[r] = {}
  /\ Goto(r, "undo", "undone")
  /\ UNCHANGED <<clock, records, secondary, grants, undoing, snapshot, mailed,
                 verifiedOn, faults>>

-----------------------------------------------------------------------------
(* activateRecord: one transaction.                                        *)

\* Mutants: no marker, and one that outlives a process that died with it.
NoMarker(j) == FALSE

MarkerLeft(j) ==
  \E s \in Requests :
    JourneyOf[s] = j /\ pc[s] \in InTransaction \cup {"dead"}

MarkerHeld(j) ==
  \E s \in Requests : JourneyOf[s] = j /\ pc[s] \in InTransaction

\* The first operation: opens the snapshot and writes the marker.  A conflict
\* on the marker aborts a transaction that has done nothing yet, and the driver
\* runs it again: waiting, in effect.
WriteMarker(r) ==
  /\ Goto(r, "activate", "marked")
  /\ ~MarkerHeld(JourneyOf[r])
  /\ snapshot' = [snapshot EXCEPT ![r] = records]
  /\ UNCHANGED <<clock, records, secondary, grants, undoing, mailed,
                 verifiedOn, faults>>

\* The documents r's transaction has written so far.
Written(r) ==
  CASE pc[r] = "swept" -> OtherPending(snapshot[r], r)
    [] pc[r] = "moved" -> OtherPending(snapshot[r], r) \cup {r}
    [] OTHER -> {}

Locked(x) == \E r \in Requests : x \in Written(r)

\* A write to x conflicts with a change since the snapshot was taken, and with
\* a write by another open transaction.
Conflicts(r, x) ==
  \/ records[x] # snapshot[r][x]
  \/ \E s \in Requests \ {r} : x \in Written(s)

\* Supersedes the journey's other pending links.
Sweep(r) ==
  /\ Goto(r, "marked", "swept")
  /\ \A x \in OtherPending(snapshot[r], r) : ~Conflicts(r, x)
  /\ UNCHANGED <<clock, records, secondary, grants, undoing, snapshot, mailed,
                 verifiedOn, faults>>

\* Mutant: no guard.
WhateverItsStatus(r) == TRUE

\* The guard on modifiedCount: the record must still be sending.
StillSending(r) == snapshot[r][r].status = "sending"

MakePending(r) ==
  /\ Goto(r, "swept", "moved")
  /\ StillSending(r)
  /\ ~Conflicts(r, r)
  /\ UNCHANGED <<clock, records, secondary, grants, undoing, snapshot, mailed,
                 verifiedOn, faults>>

EndTransaction(r, step) ==
  /\ pc' = [pc EXCEPT ![r] = step]
  /\ snapshot' = [snapshot EXCEPT ![r] = NoDocs]

\* A write conflict: the driver aborts the transaction and runs it again.
Retry(r) ==
  /\ \/ /\ pc[r] = "marked"
        /\ \E x \in OtherPending(snapshot[r], r) : Conflicts(r, x)
     \/ /\ pc[r] = "swept" /\ StillSending(r) /\ Conflicts(r, r)
  /\ EndTransaction(r, "activate")
  /\ UNCHANGED <<clock, records, secondary, grants, undoing, mailed,
                 verifiedOn, faults>>

\* Not sending any more: the callback throws, and nothing is undone.
NoLongerSending(r) ==
  /\ pc[r] = "swept" /\ ~StillSending(r)
  /\ EndTransaction(r, "failed")
  /\ UNCHANGED <<clock, records, secondary, grants, undoing, mailed,
                 verifiedOn, faults>>

\* What the transaction writes, all at once.
Activated(r) ==
  [x \in Requests |->
     CASE x = r -> [records[x] EXCEPT !.status = "pending"]
       [] x # r /\ x \in Written(r) ->
            [records[x] EXCEPT !.status = "superseded"]
       [] OTHER -> records[x]]

\* The commit, its acknowledgement lost or not.  Either way it has happened.
Commit(r) ==
  /\ pc[r] = "moved"
  /\ records' = Activated(r)
  /\ \/ EndTransaction(r, "done") /\ UNCHANGED faults
     \/ EndTransaction(r, "failed") /\ Fault
  /\ UNCHANGED <<clock, secondary, grants, undoing, mailed, verifiedOn>>

\* The transaction fails and is not retried, or not any more: it is aborted,
\* and activateRecord rejects.  The caller undoes nothing.
TransactionFails(r) ==
  /\ Fault
  /\ pc[r] \in InTransaction \cup {"activate"}
  /\ EndTransaction(r, "failed")
  /\ UNCHANGED <<clock, records, secondary, grants, undoing, mailed,
                 verifiedOn>>

\* The process dies between two steps; MongoDB aborts its open transaction.
ProcessDies(r) ==
  /\ Fault
  /\ pc[r] \notin {"idle", "done", "undone", "failed", "dead"}
  /\ EndTransaction(r, "dead")
  /\ undoing' = [undoing EXCEPT ![r] = {}]
  /\ UNCHANGED <<clock, records, secondary, grants, mailed, verifiedOn>>

-----------------------------------------------------------------------------

\* The TTL index deletes a record once its purgeAt has passed, like any other
\* write not while a transaction has written it.
PurgeRecord(x) ==
  /\ records[x].status # "none" /\ PurgeAt(records[x]) <= clock
  /\ ~Locked(x)
  /\ Change(x, NoDoc)
  /\ UNCHANGED <<clock, secondary, requestVars, verifiedOn>>

Tick ==
  /\ clock < MaxClock
  /\ clock' = clock + 1
  /\ UNCHANGED <<records, secondary, requestVars, verifiedOn>>

CatchUp ==
  /\ Replicate
  /\ UNCHANGED <<clock, records, requestVars, verifiedOn>>

InitRequests ==
  /\ Quota!Init
  /\ records = NoDocs
  /\ secondary = NoDocs
  /\ pc = [r \in Requests |-> "idle"]
  /\ undoing = [r \in Requests |-> {}]
  /\ snapshot = [r \in Requests |-> NoDocs]
  /\ mailed = <<>>
  /\ verifiedOn = [r \in Requests |-> Never]
  /\ faults = 0

Send(r) == Reserve(r) \/ InsertSendingRecord(r) \/ SendEmail(r) \/ SendFails(r)

Undo(r) == DeleteSendingRecord(r) \/ ReleaseQuota(r) \/ EndUndo(r)

Activate(r) ==
  WriteMarker(r) \/ Sweep(r) \/ MakePending(r) \/ Retry(r)
    \/ NoLongerSending(r) \/ Commit(r)

Faulty(r) ==
  InsertFails(r) \/ UndoFails(r) \/ TransactionFails(r) \/ ProcessDies(r)

Background == Tick \/ CatchUp \/ \E x \in Requests : PurgeRecord(x)

=============================================================================
