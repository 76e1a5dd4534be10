--------------------------- MODULE AuditedRepository ---------------------------
(***************************************************************************)
(* repositories/audited-repository.js and registration-history.js: create, *)
(* update and softDelete, each a change of a registration and its history  *)
(* entry, run by any number of callers at once.                            *)
(*                                                                         *)
(* A call runs its one operation in a transaction of its own.  A group is  *)
(* a caller of the repository's withTransaction: its work awaits any       *)
(* operations it likes on the session it is given, may catch what they     *)
(* throw, may wrap it, and may end the transaction itself.                 *)
(*                                                                         *)
(* Transactions run under snapshot isolation.  The first operation opens   *)
(* the snapshot; a write to a document that has changed since, or that     *)
(* another open transaction has written, fails with a write conflict,      *)
(* which is transient: the driver aborts the transaction and runs all of   *)
(* its work again.  A write outside a transaction waits instead.           *)
(***************************************************************************)
EXTENDS Integers, FiniteSets

CONSTANTS
  References,   \* registration references
  Seeds,        \* those with the seed scripts' prefix
  Calls,        \* calls of create, update and softDelete without a session
  Groups,       \* callers of withTransaction
  Nobody,       \* who wrote a registration that nobody wrote through here
  MaxChanges,   \* bound: operations in one run of a group's work
  MaxFaults     \* bound: failures that are not a conflict or a duplicate key

Callers == Calls \cup Groups

ASSUME RepositoryAssumption ==
  /\ Seeds \subseteq References
  /\ Calls \cap Groups = {}
  /\ Nobody \notin Callers
  /\ MaxChanges \in Nat
  /\ MaxFaults \in Nat
  /\ References # {}   \* or there would be nothing to save

VARIABLES
  registrations,  \* the registrations collection
  history,        \* the history collection, by reference
  tx,             \* each caller's transaction
  outcome,        \* what each caller is told in the end
  faults          \* how many faults have happened

vars == <<registrations, history, tx, outcome, faults>>

\* What a caller changes is abstracted to who changed it last.  A registration
\* that the seed script inserted, or that was stored before there were
\* versions, has none yet: 0.
Docs == [stored : BOOLEAN, deleted : BOOLEAN, version : Nat,
         by : Callers \cup {Nobody}]

Operations == {"create", "update", "delete"}

Entries == [version : Nat, operation : Operations, snapshot : Docs]

Absent == [stored |-> FALSE, deleted |-> FALSE, version |-> 0, by |-> Nobody]

Unversioned == [Absent EXCEPT !.stored = TRUE]

\* Why an operation failed: a write conflict or another error the driver calls
\* transient, a duplicate reference, a duplicate history version, or anything
\* else, an input check included.
Failures == {"transient", "collision", "version", "error"}

\* step: where the caller is (its own code, about to change a registration, to
\* append its history, or with its work over).  base is the snapshot, view and
\* log are the two collections with the transaction's own writes on top.
Transactions ==
  [step : {"idle", "work", "change", "append", "finish", "ended"},
   status : {"active", "committed", "aborted"},
   op : Operations, ref : References, begun : 0..MaxChanges,
   opened : BOOLEAN, base : [References -> Docs], view : [References -> Docs],
   log : [References -> SUBSET Entries], wrote : SUBSET References,
   failure : Failures \cup {"none"}, threw : BOOLEAN]

NoDocs == [ref \in References |-> Absent]
NoLog == [ref \in References |-> {}]

Fresh ==
  [step |-> "idle", status |-> "active", op |-> "create",
   ref |-> CHOOSE ref \in References : TRUE, begun |-> 0, opened |-> FALSE,
   base |-> NoDocs, view |-> NoDocs, log |-> NoLog, wrote |-> {},
   failure |-> "none", threw |-> FALSE]

\* The one type invariant.
TypeOK ==
  /\ registrations \in [References -> Docs]
  /\ history \in [References -> SUBSET Entries]
  /\ tx \in [Callers -> Transactions]
  /\ outcome \in [Callers -> Failures \cup {"none", "done", "null", "threw",
                                            "unknown", "dead"}]
  /\ faults \in Nat

\* What releases without versions and history have stored is still there.
Init ==
  /\ registrations \in [References -> {Absent, Unversioned}]
  /\ history = NoLog
  /\ tx = [t \in Callers |-> Fresh]
  /\ outcome = [t \in Callers |-> "none"]
  /\ faults = 0

Fault ==
  /\ faults < MaxFaults
  /\ faults' = faults + 1

-----------------------------------------------------------------------------
(* Beginning: run without a session, or withTransaction.                   *)

Operating(op, ref) == [Fresh EXCEPT !.step = "change", !.op = op, !.ref = ref]

Working == [Fresh EXCEPT !.step = "work"]

BeginCall(t, op, ref) ==
  /\ tx[t].step = "idle"
  /\ tx' = [tx EXCEPT ![t] = Operating(op, ref)]
  /\ UNCHANGED <<registrations, history, outcome, faults>>

BeginWork(t) ==
  /\ tx[t].step = "idle"
  /\ tx' = [tx EXCEPT ![t] = Working]
  /\ UNCHANGED <<registrations, history, outcome, faults>>

-----------------------------------------------------------------------------
(* An operation.                                                           *)

\* The guards of run on a caller's session: nothing after a failure, and
\* nothing outside the transaction.
MayRun(t) == tx[t].failure = "none" /\ tx[t].status = "active"

\* transaction.failure ??= error: the first failure stays.
FirstFailure(t, failure) ==
  IF tx[t].failure = "none" THEN failure ELSE tx[t].failure

\* A group's work starts another operation.
StartOperation(t, op, ref) ==
  /\ tx[t].step = "work" /\ tx[t].begun < MaxChanges
  /\ LET counted == [tx[t] EXCEPT !.begun = @ + 1]
     IN  tx' = [tx EXCEPT ![t] =
           IF MayRun(t)
           THEN [counted EXCEPT !.step = "change", !.op = op, !.ref = ref]
           ELSE [counted EXCEPT !.failure = FirstFailure(t, "error")]]
  /\ UNCHANGED <<registrations, history, outcome, faults>>

\* The transaction as its next operation finds it: the first opens the
\* snapshot.
Opened(t) ==
  IF tx[t].opened THEN tx[t]
  ELSE [tx[t] EXCEPT !.opened = TRUE, !.base = registrations,
                     !.view = registrations, !.log = history]

\* Changed since the snapshot, or written by another open transaction.  A seed
\* that was deleted and inserted again looks the same and is another document.
Conflicts(t, ref) ==
  \/ registrations[ref] # Opened(t).base[ref]
  \/ ~(history[ref] \subseteq Opened(t).log[ref])
  \/ \E s \in Callers \ {t} : ref \in tx[s].wrote

\* Mutant: deleted registrations too.
VisibleDeleted(doc) == doc.stored

\* What update and softDelete match: never a deleted registration.
Visible(doc) == doc.stored /\ ~doc.deleted

\* Mutant: an update replaces the document, and isDeleted is lost.
ChangedWhole(doc, op, t) ==
  IF op = "update"
  THEN [stored |-> TRUE, by |-> t, version |-> doc.version + 1]
  ELSE [stored |-> TRUE, deleted |-> op = "delete", by |-> t,
        version |-> IF op = "create" THEN 1 ELSE doc.version + 1]

\* A registration as the operation leaves it.
Changed(doc, op, t) ==
  [stored |-> TRUE, deleted |-> op = "delete", by |-> t,
   version |-> IF op = "create" THEN 1 ELSE doc.version + 1]

\* After its operation a call's work is over; a group is in its own code again.
Afterwards(t) == IF t \in Groups THEN "work" ELSE "finish"

Found(t) == Opened(t).view[tx[t].ref]

Collides(t) == tx[t].op = "create" /\ Found(t).stored

Unmatched(t) == tx[t].op # "create" /\ ~Visible(Found(t))

Change(t) ==
  /\ tx[t].step = "change"
  /\ ~Collides(t) /\ ~Unmatched(t) /\ ~Conflicts(t, tx[t].ref)
  /\ tx' = [tx EXCEPT ![t] =
       [Opened(t) EXCEPT !.view[tx[t].ref] = Changed(Found(t), tx[t].op, t),
                         !.wrote = tx[t].wrote \cup {tx[t].ref},
                         !.step = "append"]]
  /\ UNCHANGED <<registrations, history, outcome, faults>>

\* Nothing to change: null, and no history.
FindNothing(t) ==
  /\ tx[t].step = "change" /\ Unmatched(t)
  /\ tx' = [tx EXCEPT ![t] = [Opened(t) EXCEPT !.step = Afterwards(t)]]
  /\ UNCHANGED <<registrations, history, outcome, faults>>

\* The operation throws.  An error from the database has aborted the
\* transaction there, and what it had written can be written by others again.
Fail(t, failure, kept) ==
  tx' = [tx EXCEPT ![t] =
    [Opened(t) EXCEPT !.step = Afterwards(t), !.wrote = kept,
                      !.failure = FirstFailure(t, failure)]]

\* A taken reference, or a conflict.
ChangeRefused(t) ==
  /\ tx[t].step = "change"
  /\ \/ Collides(t) /\ Fail(t, "collision", {})
     \/ /\ ~Collides(t) /\ ~Unmatched(t) /\ Conflicts(t, tx[t].ref)
        /\ Fail(t, "transient", {})
  /\ UNCHANGED <<registrations, history, outcome, faults>>

\* Mutant: of the registration as it was (returnDocument: 'before').
EntryBefore(t) ==
  [version |-> tx[t].base[tx[t].ref].version, operation |-> tx[t].op,
   snapshot |-> tx[t].base[tx[t].ref]]

\* historyEntry, of the registration as it now is.
Entry(t) ==
  [version |-> tx[t].view[tx[t].ref].version, operation |-> tx[t].op,
   snapshot |-> tx[t].view[tx[t].ref]]

\* The unique index on reference and version.
VersionTaken(t) ==
  \E e \in tx[t].log[tx[t].ref] : e.version = Entry(t).version

\* No other transaction can be writing history of a registration that this
\* one has written, so the append never conflicts.
Append(t) ==
  /\ tx[t].step = "append" /\ ~VersionTaken(t)
  /\ tx' = [tx EXCEPT ![t].log[tx[t].ref] = @ \cup {Entry(t)},
                      ![t].step = Afterwards(t)]
  /\ UNCHANGED <<registrations, history, outcome, faults>>

AppendRefused(t) ==
  /\ tx[t].step = "append" /\ VersionTaken(t)
  /\ Fail(t, "version", {})
  /\ UNCHANGED <<registrations, history, outcome, faults>>

\* Any other failure: an input check, or a document that cannot be written,
\* after which the database still has the transaction open; a lost connection.
OperationFails(t) ==
  /\ Fault
  /\ tx[t].step \in {"change", "append"}
  /\ Fail(t, "error", tx[t].wrote) \/ Fail(t, "transient", {})
  /\ UNCHANGED <<registrations, history, outcome>>

-----------------------------------------------------------------------------
(* The end of the work, and of the transaction.                            *)

\* A group's work returns, or throws: what an operation threw, that error
\* wrapped in another, or one of its own.
EndWork(t) ==
  /\ tx[t].step = "work"
  /\ \E threw \in BOOLEAN :
       tx' = [tx EXCEPT ![t].step = "finish", ![t].threw = threw]
  /\ UNCHANGED <<registrations, history, outcome, faults>>

\* What a commit makes of the two collections.
Committed(t) ==
  [ref \in References |-> IF ref \in tx[t].wrote THEN tx[t].view[ref]
                          ELSE registrations[ref]]

CommittedLog(t) ==
  [ref \in References |-> IF ref \in tx[t].wrote THEN tx[t].log[ref]
                          ELSE history[ref]]

\* A group commits or aborts its session itself.  (That it does so after it has
\* caught a failure is not modelled.)
CommitItself(t) ==
  /\ tx[t].step = "work" /\ MayRun(t)
  /\ registrations' = Committed(t)
  /\ history' = CommittedLog(t)
  /\ tx' = [tx EXCEPT ![t].status = "committed", ![t].wrote = {}]
  /\ UNCHANGED <<outcome, faults>>

AbortItself(t) ==
  /\ tx[t].step = "work" /\ tx[t].status = "active"
  /\ tx' = [tx EXCEPT ![t].status = "aborted", ![t].wrote = {}]
  /\ UNCHANGED <<registrations, history, outcome, faults>>

\* Mutant: a failure that the group's work caught is forgotten.
SucceedsIfCaught(t) ==
  ~tx[t].threw /\ (tx[t].failure = "none" \/ t \in Groups)

\* Whether the repository lets the transaction commit.
Succeeds(t) == tx[t].failure = "none" /\ ~tx[t].threw

\* Mutant: it loses its label when the work throws another error.
RetriesUnlessWrapped(t) == tx[t].failure = "transient" /\ ~tx[t].threw

\* A transient failure keeps its label, whatever the work made of it.
Retries(t) == tx[t].failure = "transient"

End(t, result, status) ==
  /\ outcome' = [outcome EXCEPT ![t] = result]
  /\ tx' = [tx EXCEPT ![t] = [Fresh EXCEPT !.step = "ended", !.status = status,
                                           !.ref = tx[t].ref,
                                           !.failure = tx[t].failure]]

Result(t) == IF t \in Calls /\ tx[t].wrote = {} THEN "null" ELSE "done"

Commit(t) ==
  /\ tx[t].step = "finish" /\ Succeeds(t)
  /\ IF tx[t].status = "active"
     THEN /\ registrations' = Committed(t)
          /\ history' = CommittedLog(t)
          /\ End(t, Result(t), "committed")
     ELSE /\ End(t, Result(t), tx[t].status)
          /\ UNCHANGED <<registrations, history>>
  /\ UNCHANGED faults

\* No answer to the commit, nor to the driver's retries of it: it has happened
\* or it has not.
CommitUnknown(t) ==
  /\ Fault
  /\ tx[t].step = "finish" /\ Succeeds(t) /\ tx[t].status = "active"
  /\ \/ /\ registrations' = Committed(t)
        /\ history' = CommittedLog(t)
        /\ End(t, "unknown", "committed")
     \/ /\ End(t, "unknown", "aborted")
        /\ UNCHANGED <<registrations, history>>

\* Mutant: it goes on with the snapshot it had.
AgainOnSnapshot(t) == [tx[t] EXCEPT !.step = "change", !.failure = "none"]

\* The driver aborts the transaction and runs all of its work again.
Again(t) == IF t \in Groups THEN Working ELSE Operating(tx[t].op, tx[t].ref)

Retry(t) ==
  /\ tx[t].step = "finish" /\ ~Succeeds(t) /\ Retries(t)
  /\ tx' = [tx EXCEPT ![t] = Again(t)]
  /\ UNCHANGED <<registrations, history, outcome, faults>>

Reject(t) ==
  /\ tx[t].step = "finish" /\ ~Succeeds(t) /\ ~Retries(t)
  /\ End(t, IF tx[t].threw THEN "threw" ELSE tx[t].failure,
         IF tx[t].status = "committed" THEN "committed" ELSE "aborted")
  /\ UNCHANGED <<registrations, history, faults>>

\* The process dies; MongoDB aborts what it has open.
ProcessDies(t) ==
  /\ Fault
  /\ tx[t].step \notin {"idle", "ended"}
  /\ End(t, "dead",
         IF tx[t].status = "committed" THEN "committed" ELSE "aborted")
  /\ UNCHANGED <<registrations, history>>

-----------------------------------------------------------------------------
(* scripts/seed.js and scripts/delete-seed.js: writes past the repository. *)

Unlocked(ref) == \A t \in Callers : ref \notin tx[t].wrote

Seed(ref) ==
  /\ ~registrations[ref].stored /\ Unlocked(ref)
  /\ registrations' = [registrations EXCEPT ![ref] = Unversioned]
  /\ UNCHANGED <<history, tx, outcome, faults>>

DeleteSeed(ref) ==
  /\ registrations[ref].stored /\ Unlocked(ref)
  /\ registrations' = [registrations EXCEPT ![ref] = Absent]
  /\ UNCHANGED <<history, tx, outcome, faults>>

-----------------------------------------------------------------------------

Operate(t) ==
  \/ Change(t) \/ FindNothing(t) \/ ChangeRefused(t)
  \/ Append(t) \/ AppendRefused(t)

Finish(t) == Commit(t) \/ Retry(t) \/ Reject(t)

Faulty(t) == OperationFails(t) \/ CommitUnknown(t) \/ ProcessDies(t)

\* What a group's own code does.
Work(t) ==
  \/ BeginWork(t)
  \/ \E op \in Operations, ref \in References : StartOperation(t, op, ref)
  \/ EndWork(t) \/ CommitItself(t) \/ AbortItself(t)

Scripts == \E ref \in Seeds : Seed(ref) \/ DeleteSeed(ref)

Next ==
  \/ \E t \in Calls, op \in Operations, ref \in References :
       BeginCall(t, op, ref)
  \/ \E t \in Groups : Work(t)
  \/ \E t \in Callers : Operate(t) \/ Finish(t) \/ Faulty(t)
  \/ Scripts

Spec == Init /\ [][Next]_vars

-----------------------------------------------------------------------------
(* Properties.                                                             *)

\* "Neither is saved without the other": the history of a registration has one
\* entry for each version up to its present one, and the last is of the
\* registration as it is.  One from before there were versions has no history
\* until it is changed.
HistoryMatches ==
  \A ref \in References \ Seeds :
    LET doc == registrations[ref]
        versions == {e.version : e \in history[ref]}
    IN  /\ versions = 1..doc.version
        /\ \A d, e \in history[ref] : d.version = e.version => d = e
        /\ doc.stored /\ doc # Unversioned =>
             \E e \in history[ref] : e.snapshot = doc /\ e.version = doc.version

\* Who has left a change behind.
LeftBehind(t) ==
  \E ref \in References :
    \/ registrations[ref].by = t
    \/ \E e \in history[ref] : e.snapshot.by = t

\* "If any of them fails, the whole transaction rolls back and withTransaction
\* rejects, even if your code caught it": a caller that is told its changes are
\* done had no failure, and one that is told of a failure has left nothing,
\* unless it had committed its session itself.
AllOrNothing ==
  \A t \in Callers :
    tx[t].step = "ended" =>
      /\ outcome[t] \in {"done", "null"} => tx[t].failure = "none"
      /\ tx[t].status = "aborted" => ~LeftBehind(t)

\* "A transient failure keeps its label": a caller whose work met a write
\* conflict is never told so, nor told anything else because of it.  It ends
\* only in a run of its work that met none, or when its process dies.
ConflictsRetried ==
  \A t \in Callers :
    tx[t].step = "ended" /\ outcome[t] # "dead" => tx[t].failure # "transient"

\* The repository implements the log: whole transactions take effect at once.
Log == INSTANCE AuditLog
  WITH References <- References \ Seeds, Writers <- Callers,
       registrations <- [ref \in References \ Seeds |-> registrations[ref]],
       history <- [ref \in References \ Seeds |-> history[ref]]

ImplementsLog == Log!Spec

=============================================================================
