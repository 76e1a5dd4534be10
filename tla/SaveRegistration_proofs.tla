------------------------ MODULE SaveRegistration_proofs ------------------------
(***************************************************************************)
(* Theorems about SaveRegistration, for any number of submissions, draws   *)
(* and references, whoever else changes registrations meanwhile.           *)
(***************************************************************************)
EXTENDS SaveRegistration, AuditedRepository_proofs

-----------------------------------------------------------------------------
(* The inductive invariant.                                                *)

\* A transaction's history entries are the collection's or its caller's own,
\* and what it has written it has with all the history there is.
LogOf(t) ==
  /\ \A ref \in References :
       /\ \A e \in tx[t].log[ref] : e \in history[ref] \/ e.snapshot.by = t
       /\ ref \in tx[t].wrote => tx[t].opened /\ history[ref] \subseteq tx[t].log[ref]
  /\ tx[t].step = "append" => tx[t].view[tx[t].ref].by = t

LogInv == \A t \in Callers : LogOf(t)

\* What a submission has created as its own transaction sees it.
CreatedInside(s) ==
  {ref \in References :
     \E e \in tx[s].log[ref] : e.operation = "create" /\ e.snapshot.by = s}

\* A submission's present attempt.  Only its commit leaves something behind.
Attempting(s) ==
  /\ tx[s].op = "create" /\ tx[s].status = "active"
  /\ tx[s].ref \in Generated /\ CreatedBy(s) = {}
  /\ tx[s].step = "change" =>
       tx[s].wrote = {} /\ CreatedInside(s) = {}
  /\ tx[s].step = "append" =>
       tx[s].wrote = {tx[s].ref} /\ CreatedInside(s) = {}
  /\ tx[s].step = "finish" /\ tx[s].failure = "none" =>
       tx[s].wrote = {tx[s].ref} /\ CreatedInside(s) = {tx[s].ref}

\* How an attempt has ended.
Ended(s) ==
  /\ tx[s].ref \in Generated
  /\ CreatedBy(s) \subseteq {tx[s].ref}
  /\ outcome[s] = "done" => CreatedBy(s) = {tx[s].ref}
  /\ outcome[s] = "collision" => CreatedBy(s) = {} /\ tx[s].status = "aborted"

SubmissionInv(s) ==
  /\ tx[s].step \in {"idle", "change", "append", "finish", "ended"}
  /\ tx[s].step = "idle" => CreatedBy(s) = {}
  /\ tx[s].step \in {"change", "append", "finish"} => Attempting(s)
  /\ tx[s].step = "ended" => Ended(s)
  /\ answer[s] \in Generated =>
       answer[s] = tx[s].ref /\ tx[s].step = "ended" /\ outcome[s] = "done"

SaveInv ==
  /\ SaveTypeOK /\ WroteApart /\ LogInv
  /\ \A s \in Submissions : SubmissionInv(s)

-----------------------------------------------------------------------------
(* LogInv.                                                                 *)

\* Nothing takes a history entry away.
LEMMA HistoryGrows ==
  ASSUME LogInv, RepositoryStep
  PROVE  \A ref \in References : history[ref] \subseteq history'[ref]
<1>1. ASSUME NEW t \in Callers, Writes(t)
      PROVE  \A ref \in References : history[ref] \subseteq history'[ref]
  BY <1>1 DEF LogInv, LogOf, Writes, CommittedLog
<1>2. ASSUME NEW t \in Callers, ActorStep(t)
      PROVE  UNCHANGED history \/ Writes(t)
  BY <1>2 DEF ActorStep, Begins, Quiet, CommitsItself, Ends
<1>3. ASSUME NEW ref \in Seeds, Seed(ref) \/ DeleteSeed(ref) PROVE UNCHANGED history
  BY <1>3 DEF Seed, DeleteSeed
<1>4. QED
  BY <1>1, <1>2, <1>3 DEF RepositoryStep

LEMMA OpenedLog ==
  ASSUME TypeOK, LogInv, NEW t \in Callers, NEW ref \in References
  PROVE  /\ \A e \in Opened(t).log[ref] : e \in history[ref] \/ e.snapshot.by = t
         /\ ref \in tx[t].wrote => history[ref] \subseteq Opened(t).log[ref]
<1>1. CASE tx[t].opened
  <2>1. Opened(t) = tx[t]
    BY <1>1, OpenedTyped
  <2>2. QED
    BY <2>1 DEF LogInv, LogOf
<1>2. CASE ~tx[t].opened
  <2>1. Opened(t).log = history
    BY <1>2, OpenedTyped
  <2>2. QED
    BY <2>1
<1>3. QED
  BY <1>1, <1>2

LEMMA ChangeKeepsLog ==
  ASSUME TypeOK, LogInv, NEW t \in Callers, Change(t), UNCHANGED history
  PROVE  LogOf(t)'
<1>1. /\ tx'[t].opened /\ tx'[t].log = Opened(t).log
      /\ tx'[t].wrote = tx[t].wrote \cup {tx[t].ref} /\ tx'[t].ref = tx[t].ref
      /\ tx'[t].view = [Opened(t).view EXCEPT
                          ![tx[t].ref] = Changed(Found(t), tx[t].op, t)]
  BY ChangeEffect
<1>2. history[tx[t].ref] \subseteq Opened(t).log[tx[t].ref]
  BY DEF Change, Conflicts
<1>3. Opened(t).view \in [References -> Docs] /\ tx[t].ref \in References
  BY OpenedTyped DEF Transactions
<1>4. tx'[t].view[tx'[t].ref].by = t
  BY <1>1, <1>3 DEF Changed
<1>5. QED
  BY <1>1, <1>2, <1>4, OpenedLog DEF LogOf

LEMMA AppendKeepsLog ==
  ASSUME TypeOK, LogInv, NEW t \in Callers, Append(t), UNCHANGED history
  PROVE  LogOf(t)'
<1>1. /\ tx'[t].opened = tx[t].opened /\ tx'[t].wrote = tx[t].wrote
      /\ tx'[t].log = [tx[t].log EXCEPT ![tx[t].ref] = @ \cup {Entry(t)}]
      /\ tx'[t].step # "append"
  BY AppendEffect
<1>2. tx[t].log \in [References -> SUBSET Entries] /\ tx[t].ref \in References
  BY DEF TypeOK, Transactions
<1>3. Entry(t).snapshot.by = t
  BY DEF Append, Entry, LogInv, LogOf
<1>4. ASSUME NEW ref \in References
      PROVE  /\ tx[t].log[ref] \subseteq tx'[t].log[ref]
             /\ \A e \in tx'[t].log[ref] : e \in tx[t].log[ref] \/ e = Entry(t)
  BY <1>1, <1>2
<1>5. QED
  BY <1>1, <1>3, <1>4 DEF LogInv, LogOf

LEMMA ActorKeepsLog ==
  ASSUME TypeOK, LogInv, RepositoryStep, NEW t \in Callers, ActorStep(t)
  PROVE  Alone(t) /\ LogOf(t)'
<1>1. \A ref \in References : history[ref] \subseteq history'[ref]
  BY HistoryGrows
<1>2. ASSUME Resets(t), tx'[t].step # "append" PROVE LogOf(t)'
  BY <1>2 DEF Resets, NoLog, LogOf
<1>3. ASSUME Keeps(t), tx'[t].wrote = {}, tx'[t].step # "append" PROVE LogOf(t)'
  BY <1>1, <1>3 DEF LogInv, LogOf, Keeps
<1>4. CASE Begins(t)
  BY <1>2, <1>4, StartEffect DEF Begins
<1>5. CASE Quiet /\ Works(t)
  <2>1. /\ Alone(t) /\ Keeps(t) /\ tx'[t].wrote = tx[t].wrote
        /\ tx'[t].step # "append"
    BY <1>5, WorkEffect DEF Works
  <2>2. QED
    BY <1>5, <2>1 DEF LogInv, LogOf, Keeps, Quiet
<1>6. CASE Quiet /\ (FindNothing(t) \/ Fails(t))
  <2>1. /\ Alone(t) /\ KeepsOpened(t) /\ tx'[t].wrote \subseteq tx[t].wrote
        /\ tx'[t].step # "append"
    BY <1>6, FindNothingEffect, FailEffect DEF Fails
  <2>2. QED
    BY <1>6, <2>1, OpenedLog DEF LogOf, KeepsOpened, Quiet
<1>7. CASE Quiet /\ (Change(t) \/ Append(t))
  BY <1>7, ChangeEffect, AppendEffect, ChangeKeepsLog, AppendKeepsLog DEF Quiet
<1>8. ASSUME NEW status \in {"committed", "aborted"}, EndsItself(t, status)
      PROVE  Alone(t) /\ LogOf(t)'
  BY <1>3, <1>8, EndItselfEffect DEF EndsItself
<1>9. ASSUME NEW result \in Results, NEW status \in Endings, Ends(t, result, status)
      PROVE  Alone(t) /\ LogOf(t)'
  BY <1>2, <1>9, EndEffect DEF Ends, EndsWith, Endings
<1>10. QED
  BY <1>4, <1>5, <1>6, <1>7, <1>8, <1>9 DEF ActorStep, CommitsItself

LEMMA LogInvKept ==
  ASSUME TypeOK, WroteApart, LogInv, RepositoryStep
  PROVE  LogInv'
<1>1. \A ref \in References : history[ref] \subseteq history'[ref]
  BY HistoryGrows
<1>2. ASSUME NEW t \in Callers, tx'[t] = tx[t],
             \A ref \in tx[t].wrote : history'[ref] = history[ref]
      PROVE  LogOf(t)'
  BY <1>1, <1>2 DEF LogInv, LogOf
<1>3. ASSUME NEW u \in Callers, ActorStep(u), NEW t \in Callers PROVE LogOf(t)'
  <2>1. CASE t = u
    BY <1>3, <2>1, ActorKeepsLog
  <2>2. CASE t # u
    <3>1. tx'[t] = tx[t]
      BY <1>3, <2>2, ActorKeepsLog DEF Alone
    <3>2. UNCHANGED history \/ Writes(u)
      BY <1>3 DEF ActorStep, Begins, Quiet, CommitsItself, Ends
    <3>3. ASSUME NEW ref \in tx[t].wrote PROVE history'[ref] = history[ref]
      <4>1. ref \in References /\ ref \notin tx[u].wrote
        BY <1>3, <2>2, <3>3 DEF WroteApart, TypeOK, Transactions
      <4>2. QED
        BY <3>2, <4>1 DEF Writes, CommittedLog
    <3>4. QED
      BY <1>2, <1>3, <3>1, <3>3
  <2>3. QED
    BY <2>1, <2>2
<1>4. ASSUME UNCHANGED <<history, tx>> PROVE LogInv'
  BY <1>2, <1>4 DEF LogInv
<1>5. ASSUME NEW ref \in Seeds, Seed(ref) \/ DeleteSeed(ref)
      PROVE  UNCHANGED <<history, tx>>
  BY <1>5 DEF Seed, DeleteSeed
<1>6. QED
  BY <1>3, <1>4, <1>5 DEF RepositoryStep, LogInv


-----------------------------------------------------------------------------
(* SubmissionInv.                                                          *)

LEMMA SubmissionsAreCalls ==
  /\ Submissions \subseteq Callers
  /\ \A s \in Submissions : s \notin Groups /\ Afterwards(s) = "finish"
  /\ "none" \notin Generated /\ "failed" \notin Generated
BY SubmissionsAssumption, RepositoryAssumption DEF Callers, Afterwards, Generated

\* Only its own commit makes a registration a submission's.
LEMMA CreatedStays ==
  ASSUME TypeOK, LogInv, RepositoryStep, NEW s \in Callers,
         UNCHANGED history \/ \E u \in Callers \ {s} : Writes(u)
  PROVE  CreatedBy(s)' = CreatedBy(s)
<1>1. \A ref \in References : history[ref] \subseteq history'[ref]
  BY HistoryGrows
<1>2. ASSUME NEW ref \in References, NEW e \in history'[ref], e.snapshot.by = s
      PROVE  e \in history[ref]
  <2>1. ASSUME NEW u \in Callers \ {s}, Writes(u) PROVE e \in history[ref]
    <3>1. CASE ref \in tx[u].wrote
      <4>1. e \in tx[u].log[ref]
        BY <1>2, <2>1, <3>1 DEF Writes, CommittedLog
      <4>2. QED
        BY <1>2, <2>1, <4>1 DEF LogInv, LogOf
    <3>2. CASE ref \notin tx[u].wrote
      BY <1>2, <2>1, <3>2 DEF Writes, CommittedLog
    <3>3. QED
      BY <3>1, <3>2
  <2>2. QED
    BY <1>2, <2>1
<1>3. QED
  BY <1>1, <1>2 DEF CreatedBy

LEMMA CommitCreates ==
  ASSUME NEW s \in Callers, Writes(s), CreatedBy(s) = {}, NEW ref \in References,
         tx[s].wrote = {ref}, CreatedInside(s) = {ref}
  PROVE  CreatedBy(s)' = {ref}
<1>1. history'[ref] = tx[s].log[ref]
      /\ \A r \in References \ {ref} : history'[r] = history[r]
  BY DEF Writes, CommittedLog
<1>2. \E e \in tx[s].log[ref] : e.operation = "create" /\ e.snapshot.by = s
  BY DEF CreatedInside
<1>3. \A r \in References \ {ref} :
        ~ \E e \in history'[r] : e.operation = "create" /\ e.snapshot.by = s
  BY <1>1 DEF CreatedBy
<1>4. QED
  BY <1>1, <1>2, <1>3 DEF CreatedBy

\* While somebody else acts.
LEMMA SubmissionWaits ==
  ASSUME NEW s \in Submissions, SubmissionInv(s), tx'[s] = tx[s],
         outcome'[s] = outcome[s], CreatedBy(s)' = CreatedBy(s),
         answer'[s] = answer[s]
  PROVE  SubmissionInv(s)'
BY DEF SubmissionInv, Attempting, Ended, CreatedInside

\* An attempt begins: the first, one with another reference, or a retry.
LEMMA AttemptBegins ==
  ASSUME TypeOK, NEW s \in Submissions, NEW ref \in Generated,
         tx' = [tx EXCEPT ![s] = Operating("create", ref)],
         CreatedBy(s) = {}, CreatedBy(s)' = {}, answer'[s] \notin Generated
  PROVE  SubmissionInv(s)'
<1>1. tx'[s] = Operating("create", ref)
  BY SubmissionsAreCalls DEF TypeOK
<1> DEFINE new == Operating("create", ref)
<1>2. /\ new.step = "change" /\ new.op = "create" /\ new.ref = ref
      /\ new.status = "active" /\ new.wrote = {} /\ new.log = NoLog
  BY DEF Operating, Fresh
<1> HIDE DEF new
<1>3. /\ tx'[s].step = "change" /\ tx'[s].op = "create" /\ tx'[s].ref = ref
      /\ tx'[s].status = "active" /\ tx'[s].wrote = {} /\ tx'[s].log = NoLog
  BY <1>1, <1>2 DEF new
<1>4. CreatedInside(s)' = {}
  BY <1>3 DEF CreatedInside, NoLog
<1>5. QED
  BY <1>3, <1>4 DEF SubmissionInv, Attempting

\* Within an attempt.
LEMMA SubmissionWorks ==
  ASSUME TypeOK, LogInv, NEW s \in Submissions, SubmissionInv(s), Quiet,
         Change(s) \/ FindNothing(s) \/ Append(s) \/ Fails(s),
         answer'[s] = answer[s]
  PROVE  SubmissionInv(s)'
<1>1. s \in Callers /\ Afterwards(s) = "finish"
  BY SubmissionsAreCalls
<1>2. tx[s].step \in {"change", "append"}
  BY DEF Change, FindNothing, Append, Fails
<1>3. Attempting(s) /\ answer[s] \notin Generated
  BY <1>2 DEF SubmissionInv
<1>4. CreatedBy(s)' = CreatedBy(s)
  BY DEF Quiet, CreatedBy
<1>5. CASE Change(s)
  <2>1. tx[s].step = "change"
    BY <1>5 DEF Change
  <2>2. /\ tx[s].wrote = {} /\ CreatedInside(s) = {} /\ CreatedBy(s) = {}
    BY <1>3, <2>1 DEF Attempting
  <2>3. /\ tx'[s].step = "append" /\ tx'[s].op = tx[s].op /\ tx'[s].ref = tx[s].ref
        /\ tx'[s].status = tx[s].status /\ tx'[s].wrote = tx[s].wrote \cup {tx[s].ref}
        /\ tx'[s].log = Opened(s).log
    BY <1>1, <1>5, ChangeEffect
  <2>4. tx'[s].log \in {tx[s].log, history}
    BY <1>1, <2>3, OpenedTyped
  <2>5. CreatedInside(s)' = {}
    BY <2>2, <2>4 DEF CreatedInside, CreatedBy
  <2>6. QED
    BY <1>3, <1>4, <2>2, <2>3, <2>5 DEF SubmissionInv, Attempting
<1>6. ~FindNothing(s)
  BY <1>3 DEF FindNothing, Unmatched, Attempting
<1>7. CASE Append(s)
  <2>1. tx[s].step = "append"
    BY <1>7 DEF Append
  <2>2. /\ tx[s].wrote = {tx[s].ref} /\ CreatedInside(s) = {}
        /\ tx[s].op = "create"
    BY <1>3, <2>1 DEF Attempting
  <2>3. /\ tx'[s].step = "finish" /\ tx'[s].op = tx[s].op /\ tx'[s].ref = tx[s].ref
        /\ tx'[s].status = tx[s].status /\ tx'[s].wrote = tx[s].wrote
        /\ tx'[s].log = [tx[s].log EXCEPT ![tx[s].ref] = @ \cup {Entry(s)}]
    BY <1>1, <1>7, AppendEffect
  <2>4. tx[s].log \in [References -> SUBSET Entries] /\ tx[s].ref \in References
    BY <1>1 DEF TypeOK, Transactions
  <2>5. Entry(s).operation = "create" /\ Entry(s).snapshot.by = s
    BY <1>1, <2>1, <2>2 DEF Entry, LogInv, LogOf
  <2>6. CreatedInside(s)' = {tx[s].ref}
    <3>1. tx'[s].log[tx[s].ref] = tx[s].log[tx[s].ref] \cup {Entry(s)}
          /\ \A r \in References \ {tx[s].ref} : tx'[s].log[r] = tx[s].log[r]
      BY <2>3, <2>4
    <3>2. \A r \in References :
            ~ \E e \in tx[s].log[r] : e.operation = "create" /\ e.snapshot.by = s
      BY <2>2 DEF CreatedInside
    <3>3. QED
      BY <2>4, <2>5, <3>1, <3>2 DEF CreatedInside
  <2>7. QED
    BY <1>3, <1>4, <2>2, <2>3, <2>6 DEF SubmissionInv, Attempting
<1>8. CASE Fails(s)
  <2>1. /\ tx'[s].step = "finish" /\ tx'[s].op = tx[s].op /\ tx'[s].ref = tx[s].ref
        /\ tx'[s].status = tx[s].status /\ tx'[s].failure # "none"
    BY <1>1, <1>8, FailEffect DEF Fails
  <2>2. QED
    BY <1>3, <1>4, <2>1 DEF SubmissionInv, Attempting
<1>9. QED
  BY <1>5, <1>6, <1>7, <1>8


\* The end of an attempt.
LEMMA SubmissionEnds ==
  ASSUME TypeOK, NEW s \in Submissions, SubmissionInv(s),
         Commit(s) \/ CommitUnknown(s) \/ Reject(s) \/ ProcessDies(s),
         answer'[s] = answer[s]
  PROVE  SubmissionInv(s)'
<1>1. s \in Callers
  BY SubmissionsAreCalls
<1>2. tx[s].step \notin {"idle", "ended"}
  BY DEF Commit, CommitUnknown, Reject, ProcessDies
<1>3. Attempting(s) /\ answer[s] \notin Generated
  BY <1>2 DEF SubmissionInv
<1>4. ASSUME NEW result, NEW status \in Endings, End(s, result, status)
      PROVE  /\ tx'[s].step = "ended" /\ tx'[s].status = status
             /\ tx'[s].ref = tx[s].ref /\ outcome'[s] = result
  BY <1>1, <1>4, EndEffect DEF TypeOK, Endings
<1>5. ASSUME NEW result, NEW status \in Endings, End(s, result, status), Writes(s),
             tx[s].step = "finish", result # "collision"
      PROVE  tx'[s].step = "ended" /\ Ended(s)'
  <2>1. /\ tx[s].wrote = {tx[s].ref} /\ CreatedInside(s) = {tx[s].ref}
        /\ CreatedBy(s) = {} /\ tx[s].ref \in References
    BY <1>3, <1>5 DEF Attempting, Writes, Generated
  <2>2. CreatedBy(s)' = {tx[s].ref}
    BY <1>1, <1>5, <2>1, CommitCreates
  <2>3. QED
    BY <1>3, <1>4, <1>5, <2>2 DEF Attempting, Ended
<1>6. ASSUME NEW result, NEW status \in Endings, End(s, result, status),
             UNCHANGED history, result # "done",
             result = "collision" => status = "aborted"
      PROVE  tx'[s].step = "ended" /\ Ended(s)'
  <2>1. CreatedBy(s)' = {}
    BY <1>3, <1>6 DEF CreatedBy, Attempting
  <2>2. QED
    BY <1>3, <1>4, <1>6, <2>1 DEF Attempting, Ended
<1>7. CASE Commit(s)
  <2>1. /\ tx[s].step = "finish" /\ tx[s].status = "active" /\ tx[s].failure = "none"
    BY <1>3, <1>7 DEF Commit, Succeeds, Attempting
  <2>2. End(s, Result(s), "committed") /\ Writes(s)
    BY <1>7, <2>1 DEF Commit, Writes
  <2>3. Result(s) # "collision" /\ "committed" \in Endings
    BY DEF Result, Endings
  <2>4. tx'[s].step = "ended" /\ Ended(s)'
    BY <1>5, <2>1, <2>2, <2>3
  <2>5. QED
    BY <1>3, <2>4 DEF SubmissionInv
<1>8. CASE CommitUnknown(s)
  <2>1. /\ tx[s].step = "finish" /\ tx[s].status = "active" /\ tx[s].failure = "none"
        /\ "committed" \in Endings /\ "aborted" \in Endings
    BY <1>8 DEF CommitUnknown, Succeeds, Endings
  <2>2. \/ End(s, "unknown", "committed") /\ Writes(s)
        \/ End(s, "unknown", "aborted") /\ UNCHANGED history
    BY <1>8, <2>1 DEF CommitUnknown, Writes
  <2>3. tx'[s].step = "ended" /\ Ended(s)'
    BY <1>5, <1>6, <2>1, <2>2
  <2>4. QED
    BY <1>3, <2>3 DEF SubmissionInv
<1>9. CASE Reject(s) \/ ProcessDies(s)
  <2>1. tx[s].status = "active" /\ tx[s].failure \in Failures \cup {"none"}
    BY <1>1, <1>3 DEF Attempting, TypeOK, Transactions
  <2>2. PICK result \in {"threw", "dead", tx[s].failure} :
          End(s, result, "aborted") /\ UNCHANGED history
    BY <1>9, <2>1 DEF Reject, ProcessDies
  <2>3. result # "done" /\ "aborted" \in Endings
    BY <2>1 DEF Failures, Endings
  <2>4. tx'[s].step = "ended" /\ Ended(s)'
    BY <1>6, <2>2, <2>3
  <2>5. QED
    BY <1>3, <2>4 DEF SubmissionInv
<1>10. QED
  BY <1>7, <1>8, <1>9

\* The steps of the others, and of the scripts.
LEMMA SubmissionOfAnother ==
  ASSUME TypeOK, LogInv, RepositoryStep, NEW s \in Submissions, SubmissionInv(s),
         NEW t \in Callers \ {s}, ActorStep(t), answer'[s] = answer[s]
  PROVE  SubmissionInv(s)'
<1>1. s \in Callers
  BY SubmissionsAreCalls
<1>2. tx'[s] = tx[s]
  BY <1>1, ActorKeepsLog DEF Alone
<1>3. UNCHANGED history \/ Writes(t)
  BY DEF ActorStep, Begins, Quiet, CommitsItself, Ends
<1>4. CreatedBy(s)' = CreatedBy(s)
  BY <1>1, <1>3, CreatedStays
<1>5. outcome'[s] = outcome[s]
  <2>1. ASSUME NEW result \in Results, NEW status \in Endings, Ends(t, result, status)
        PROVE  outcome'[s] = outcome[s]
    <3>1. outcome' = [outcome EXCEPT ![t] = result]
      BY <2>1 DEF Ends, EndsWith, End
    <3>2. QED
      BY <1>1, <3>1 DEF TypeOK
  <2>2. QED
    BY <1>1, <2>1 DEF ActorStep, Begins, Quiet, CommitsItself
<1>6. QED
  BY <1>2, <1>4, <1>5, SubmissionWaits

\* A first attempt and another one begin as a call does.
LEMMA SubmissionBegins ==
  ASSUME TypeOK, NEW s \in Submissions, SubmissionInv(s), Submit(s) \/ TryAgain(s)
  PROVE  ActorStep(s)
<1>1. CASE Submit(s)
  BY <1>1, ActorSteps, SubmissionsAreCalls DEF Submit, Generated, Operations
<1>2. CASE TryAgain(s)
  <2>1. tx[s].step = "ended" /\ tx[s].status = "aborted"
    BY <1>2 DEF TryAgain, SubmissionInv, Ended, IsReferenceCollision
  <2>2. \A t \in Callers \ {s} : outcome'[t] = outcome[t]
    BY <1>2 DEF TryAgain, TypeOK
  <2>3. \E op \in Operations, ref \in References :
          tx' = [tx EXCEPT ![s] = Operating(op, ref)]
    BY <1>2 DEF TryAgain, Generated, Operations
  <2>4. QED
    BY <1>2, <2>1, <2>2, <2>3 DEF TryAgain, Begins, ActorStep
<1>3. QED
  BY <1>1, <1>2

LEMMA SaveSteps ==
  ASSUME SaveInv, [NextSave]_saveVars
  PROVE  RepositoryStep
<1>1. TypeOK
  BY DEF SaveInv, SaveTypeOK
<1>2. ASSUME NEW s \in Submissions, Submit(s) \/ TryAgain(s) PROVE ActorStep(s)
  BY <1>1, <1>2, SubmissionBegins DEF SaveInv
<1>3. ASSUME NEW s \in Submissions, Accept(s) \/ GiveUp(s) PROVE UNCHANGED vars
  BY <1>3 DEF Accept, GiveUp
<1>4. ASSUME Others \/ \E t \in Callers : Operate(t) \/ Finish(t) \/ Faulty(t)
      PROVE  RepositoryStep
  <2>1. CASE Scripts
    BY <2>1 DEF Scripts, RepositoryStep
  <2>2. CASE ~Scripts
    <3>1. \E t \in Callers :
            \/ \E op \in Operations, ref \in References : BeginCall(t, op, ref)
            \/ Work(t) \/ Operate(t) \/ Finish(t) \/ Faulty(t)
      BY <1>4, <2>2 DEF Others, Callers
    <3>2. QED
      BY <1>1, <3>1, ActorSteps DEF RepositoryStep
  <2>3. QED
    BY <2>1, <2>2
<1>5. ASSUME UNCHANGED vars PROVE RepositoryStep
  BY <1>5 DEF vars, RepositoryStep
<1>6. UNCHANGED saveVars => UNCHANGED vars
  BY DEF saveVars
<1>7. QED
  BY <1>2, <1>3, <1>4, <1>5, <1>6, SubmissionsAreCalls
     DEF NextSave, Save, RepositoryStep


LEMMA SubmissionInvKept ==
  ASSUME SaveInv, [NextSave]_saveVars
  PROVE  \A s \in Submissions : SubmissionInv(s)'
<1>1. TypeOK /\ LogInv /\ RepositoryStep /\ \A s \in Submissions : SubmissionInv(s)
  BY SaveSteps DEF SaveInv, SaveTypeOK
<1> SUFFICES ASSUME NEW s \in Submissions PROVE SubmissionInv(s)'
  OBVIOUS
<1>2. SubmissionInv(s) /\ s \in Callers
  BY <1>1, SubmissionsAreCalls
<1>3. ASSUME UNCHANGED <<history, tx, outcome>>, answer'[s] = answer[s]
      PROVE  SubmissionInv(s)'
  BY <1>2, <1>3, SubmissionWaits DEF CreatedBy
<1>4. ASSUME NEW t \in Callers, t # s, ActorStep(t), answer'[s] = answer[s]
      PROVE  SubmissionInv(s)'
  BY <1>1, <1>2, <1>4, SubmissionOfAnother
<1>5. ASSUME NEW u \in Submissions, Submit(u) \/ TryAgain(u) PROVE SubmissionInv(s)'
  <2>1. answer' = answer
    BY <1>5 DEF Submit, TryAgain
  <2>2. CASE u # s
    <3>1. u \in Callers /\ ActorStep(u)
      BY <1>1, <1>5, SubmissionBegins, SubmissionsAreCalls
    <3>2. QED
      BY <1>4, <2>1, <2>2, <3>1
  <2>3. CASE u = s /\ Submit(s)
    <3>1. tx[s].step = "idle" /\ UNCHANGED history
      BY <2>3 DEF Submit, BeginCall
    <3>2. CreatedBy(s) = {} /\ answer[s] \notin Generated
      BY <1>2, <3>1 DEF SubmissionInv
    <3>3. CreatedBy(s)' = {}
      BY <3>1, <3>2 DEF CreatedBy
    <3>4. QED
      BY <1>1, <2>1, <2>3, <3>2, <3>3, AttemptBegins DEF Submit, BeginCall
  <2>4. CASE u = s /\ TryAgain(s)
    <3>1. CreatedBy(s) = {} /\ answer[s] \notin Generated
      BY <1>2, <2>4, SubmissionsAreCalls
         DEF TryAgain, IsReferenceCollision, SubmissionInv, Ended
    <3>2. CreatedBy(s)' = {}
      BY <2>4, <3>1 DEF TryAgain, CreatedBy
    <3>3. QED
      BY <1>1, <2>1, <2>4, <3>1, <3>2, AttemptBegins DEF TryAgain
  <2>5. QED
    BY <1>5, <2>2, <2>3, <2>4
<1>6. ASSUME NEW u \in Submissions, Accept(u) \/ GiveUp(u) PROVE SubmissionInv(s)'
  <2>1. UNCHANGED vars /\ answer \in [Submissions -> Generated \cup {"none", "failed"}]
    BY <1>6 DEF Accept, GiveUp, SaveInv, SaveTypeOK
  <2>2. CASE u # s
    <3>1. answer'[s] = answer[s]
      BY <1>6, <2>1, <2>2 DEF Accept, GiveUp
    <3>2. QED
      BY <1>3, <2>1, <3>1 DEF vars
  <2>3. CASE u = s
    <3>1. /\ tx[s].step = "ended" /\ Ended(s)
          /\ answer'[s] \in Generated =>
               answer'[s] = tx[s].ref /\ outcome[s] = "done"
      BY <1>2, <1>6, <2>1, <2>3, SubmissionsAreCalls
         DEF Accept, Accepts, GiveUp, SubmissionInv
    <3>2. QED
      BY <2>1, <3>1 DEF vars, SubmissionInv, Ended, CreatedBy
  <2>4. QED
    BY <2>2, <2>3
<1>7. ASSUME NEW t \in Callers, Operate(t) \/ Finish(t) \/ Faulty(t),
             UNCHANGED answer
      PROVE  SubmissionInv(s)'
  <2>1. ActorStep(t)
    BY <1>1, <1>7, ActorSteps
  <2>2. CASE t # s
    BY <1>4, <1>7, <2>1, <2>2
  <2>3. CASE t = s
    <3>2. CASE Retry(s)
      <4>1. tx[s].step = "finish" /\ UNCHANGED history
        BY <3>2 DEF Retry
      <4>2. Attempting(s) /\ answer[s] \notin Generated
        BY <1>2, <4>1 DEF SubmissionInv
      <4>3. CreatedBy(s)' = {} /\ CreatedBy(s) = {}
        BY <4>1, <4>2 DEF Attempting, CreatedBy
      <4>4. tx' = [tx EXCEPT ![s] = Operating("create", tx[s].ref)]
        BY <3>2, <4>2, SubmissionsAreCalls DEF Retry, Again, Attempting
      <4>5. tx[s].ref \in Generated
        BY <4>2 DEF Attempting
      <4>6. QED
        BY <1>1, <1>7, <4>2, <4>3, <4>4, <4>5, AttemptBegins
    <3>3. CASE Commit(s) \/ CommitUnknown(s) \/ Reject(s) \/ ProcessDies(s)
      BY <1>1, <1>2, <1>7, <3>3, SubmissionEnds
    <3>4. CASE Operate(s) \/ OperationFails(s)
      <4>1. Quiet /\ (Change(s) \/ FindNothing(s) \/ Append(s) \/ Fails(s))
        BY <1>2, <3>4, OperationSteps
      <4>2. QED
        BY <1>1, <1>2, <1>7, <4>1, SubmissionWorks
    <3>5. QED
      BY <1>7, <2>3, <3>2, <3>3, <3>4 DEF Finish, Faulty
  <2>4. QED
    BY <2>2, <2>3
<1>8. ASSUME Others, UNCHANGED answer PROVE SubmissionInv(s)'
  <2>1. CASE Scripts
    <3>1. UNCHANGED <<history, tx, outcome>>
      BY <2>1 DEF Scripts, Seed, DeleteSeed
    <3>2. QED
      BY <1>3, <1>8, <3>1
  <2>2. ASSUME NEW t \in Callers \ {s},
               \/ \E op \in Operations, ref \in References : BeginCall(t, op, ref)
               \/ Work(t)
        PROVE  SubmissionInv(s)'
    BY <1>1, <1>4, <1>8, <2>2, ActorSteps
  <2>3. QED
    BY <1>8, <2>1, <2>2, SubmissionsAreCalls DEF Others, Callers
<1>9. CASE UNCHANGED saveVars
  BY <1>3, <1>9 DEF saveVars, vars
<1>10. QED
  BY <1>5, <1>6, <1>7, <1>8, <1>9 DEF NextSave, Save


-----------------------------------------------------------------------------
(* The theorems.                                                           *)

LEMMA SaveTyped ==
  ASSUME SaveInv, [NextSave]_saveVars
  PROVE  SaveTypeOK'
<1>1. TypeOK /\ RepositoryStep
  BY SaveSteps DEF SaveInv, SaveTypeOK
<1>2. /\ attempts \in [Submissions -> 0..MaxAttempts]
      /\ answer \in [Submissions -> Generated \cup {"none", "failed"}]
  BY DEF SaveInv, SaveTypeOK
<1>3. MaxAttempts \in Nat /\ MaxAttempts > 0
  BY SubmissionsAssumption
<1>4. [Next]_vars \/ \E s \in Submissions : TryAgain(s)
  <2>1. ASSUME NEW s \in Submissions, Submit(s) PROVE Next
    BY <2>1, SubmissionsAssumption DEF Submit, Next, Generated, Operations
  <2>2. ASSUME NEW s \in Submissions, Accept(s) \/ GiveUp(s) PROVE UNCHANGED vars
    BY <2>2 DEF Accept, GiveUp
  <2>3. Others => Next
    BY DEF Others, Next
  <2>4. (\E t \in Callers : Operate(t) \/ Finish(t) \/ Faulty(t)) => Next
    BY DEF Next
  <2>5. QED
    BY <2>1, <2>2, <2>3, <2>4 DEF NextSave, Save, saveVars
<1>5. ASSUME NEW s \in Submissions, TryAgain(s)
      PROVE  /\ outcome' \in [Callers -> Failures \cup {"none", "done", "null",
                                            "threw", "unknown", "dead"}]
             /\ faults' \in Nat
  BY <1>1, <1>5 DEF TryAgain, TypeOK
<1>6. TypeOK'
  BY <1>1, <1>4, <1>5, StepTyped, OutcomeTyped, FaultsTyped DEF TypeOK
<1>7. attempts' \in [Submissions -> 0..MaxAttempts]
  <2>1. ASSUME NEW s \in Submissions, Submit(s) PROVE attempts' = [attempts EXCEPT ![s] = 1]
    BY <2>1 DEF Submit
  <2>2. 1 \in 0..MaxAttempts
    BY <1>3
  <2>3. ASSUME NEW s \in Submissions, TryAgain(s)
        PROVE  /\ attempts' = [attempts EXCEPT ![s] = attempts[s] + 1]
               /\ attempts[s] < MaxAttempts
    BY <1>2, <2>3 DEF TryAgain, AttemptsLeft
  <2>4. \A s \in Submissions :
          attempts[s] < MaxAttempts => attempts[s] + 1 \in 0..MaxAttempts
    BY <1>2, <1>3
  <2>5. ASSUME NEW s \in Submissions, Accept(s) \/ GiveUp(s) PROVE attempts' = attempts
    BY <2>5 DEF Accept, GiveUp
  <2>6. QED
    BY <1>2, <2>1, <2>2, <2>3, <2>4, <2>5 DEF NextSave, Save, saveVars
<1>8. answer' \in [Submissions -> Generated \cup {"none", "failed"}]
  <2>1. ASSUME NEW s \in Submissions, Submit(s) \/ TryAgain(s) PROVE answer' = answer
    BY <2>1 DEF Submit, TryAgain
  <2>2. ASSUME NEW s \in Submissions, Accept(s) \/ GiveUp(s)
        PROVE  \E a \in Generated \cup {"failed"} : answer' = [answer EXCEPT ![s] = a]
    <3>1. Accept(s) => tx[s].ref \in Generated
      BY DEF Accept, SaveInv, SubmissionInv, Ended
    <3>2. QED
      BY <2>2, <3>1 DEF Accept, GiveUp
  <2>3. QED
    BY <1>2, <2>1, <2>2 DEF NextSave, Save, saveVars
<1>9. QED
  BY <1>6, <1>7, <1>8 DEF SaveTypeOK

LEMMA SaveHolds == SpecSave => []SaveInv
<1>1. InitSave => SaveInv
  <2> SUFFICES ASSUME InitSave PROVE SaveInv
    OBVIOUS
  <2>1. SaveTypeOK
    <3>1. TypeOK
      BY FreshTyped DEF InitSave, Init, TypeOK
    <3>2. 0 \in 0..MaxAttempts
      BY SubmissionsAssumption
    <3>3. QED
      BY <3>1, <3>2 DEF InitSave, SaveTypeOK
  <2>2. Fresh.step = "idle" /\ Fresh.log = NoLog /\ Fresh.wrote = {}
    BY DEF Fresh
  <2>3. \A t \in Callers : tx[t] = Fresh
    BY DEF InitSave, Init
  <2>4. \A ref \in References : history[ref] = {} /\ NoLog[ref] = {}
    BY DEF InitSave, Init, NoLog
  <2>5. WroteApart /\ LogInv
    BY <2>2, <2>3, <2>4 DEF WroteApart, LogInv, LogOf
  <2>6. ASSUME NEW s \in Submissions PROVE SubmissionInv(s)
    <3>1. tx[s].step = "idle" /\ CreatedBy(s) = {} /\ answer[s] \notin Generated
      BY <2>2, <2>3, <2>4, SubmissionsAreCalls DEF CreatedBy, InitSave
    <3>2. QED
      BY <3>1 DEF SubmissionInv
  <2>7. QED
    BY <2>1, <2>5, <2>6 DEF SaveInv
<1>2. SaveInv /\ [NextSave]_saveVars => SaveInv'
  BY SaveSteps, SaveTyped, WroteApartKept, LogInvKept, SubmissionInvKept
     DEF SaveInv, SaveTypeOK
<1>3. QED
  BY <1>1, <1>2, PTL DEF SpecSave

\* Submissions keep their shape, and never draw more references than they may.
THEOREM SaveTypeCorrect == SpecSave => []SaveTypeOK
<1>1. SaveInv => SaveTypeOK
  BY DEF SaveInv
<1>2. QED
  BY <1>1, SaveHolds, PTL

\* A submission creates at most one registration: a collision that makes it draw
\* again has left nothing, and neither has a conflict that has it run again.
THEOREM OneRegistrationEach == SpecSave => []StoredOnce
<1>1. SaveInv => StoredOnce
  BY DEF SaveInv, StoredOnce, SubmissionInv, Attempting, Ended
<1>2. QED
  BY <1>1, SaveHolds, PTL

\* A 201 names a reference that was created for this very submission.
THEOREM AnswersAreStored == SpecSave => []AcceptedIsStored
<1>1. SaveInv => AcceptedIsStored
  BY DEF SaveInv, AcceptedIsStored, SubmissionInv, Ended
<1>2. QED
  BY <1>1, SaveHolds, PTL


-----------------------------------------------------------------------------
(* What the repository promises, promised while submissions draw again:    *)
(* TryAgain begins a transaction of its caller's own, as BeginCall does,   *)
(* so that every step is one of the repository's and its proofs carry over.*)

LEMMA RepositoryWhileSaving == SpecSave => [](SaveInv /\ MatchInv)
<1>1. InitSave => MatchInv
  BY InitMatches DEF InitSave
<1>2. SaveInv /\ MatchInv /\ [NextSave]_saveVars => MatchInv'
  BY SaveSteps, MatchInvKept DEF SaveInv, SaveTypeOK
<1>3. QED
  BY <1>1, <1>2, SaveHolds, PTL DEF SpecSave

\* Drawing again takes nothing from the repository's promise: every registration
\* that the seed scripts leave alone keeps one history entry for each of its
\* versions.
THEOREM HistoryKeptWhileSaving == SpecSave => []HistoryMatches
<1>1. MatchInv => HistoryMatches
  BY DEF MatchInv, Matches, Versions, HistoryMatches, Own, Absent
<1>2. QED
  BY <1>1, RepositoryWhileSaving, PTL

\* What a submission's attempts are told is true: the collision that has it
\* draw again, and the error it answers with 500, have left nothing behind, and
\* "done" means that nothing of the attempt had failed.
THEOREM AttemptsAllOrNothing == SpecSave => []AllOrNothing
<1>1. InitSave => ToldTruly /\ MarksCommitted
  BY InitMarks DEF InitSave
<1>2. SaveInv /\ ToldTruly /\ [NextSave]_saveVars => ToldTruly'
  BY SaveSteps, ToldTrulyKept DEF SaveInv, SaveTypeOK
<1>3. SaveInv /\ MatchInv /\ MarksCommitted /\ [NextSave]_saveVars => MarksCommitted'
  BY SaveSteps, MarksCommittedKept DEF SaveInv, SaveTypeOK
<1>4. ToldTruly /\ MarksCommitted => AllOrNothing
  BY DEF ToldTruly, MarksCommitted, AllOrNothing
<1>5. QED
  BY <1>1, <1>2, <1>3, <1>4, RepositoryWhileSaving, PTL DEF SpecSave

\* And the whole of it, submissions with everybody else, is the log: whole
\* versions in order, whatever was drawn, in conflict or lost on the way.
THEOREM SavingImplementsLog == SpecSave => ImplementsLog
<1>1. InitSave => SnapshotInv /\ Log!Init
  BY InitMapsToLog DEF InitSave, Init, Fresh, SnapshotInv, Live
<1>2. SaveInv /\ MatchInv /\ SnapshotInv /\ [NextSave]_saveVars => SnapshotInv'
  BY SaveSteps, SnapshotInvKept DEF SaveInv, SaveTypeOK
<1>3. SaveInv /\ MatchInv /\ SnapshotInv => RepositoryInv
  BY DEF SaveInv, SaveTypeOK, RepositoryInv
<1>4. SaveInv /\ [NextSave]_saveVars => RepositoryStep
  BY SaveSteps
<1>5. QED
  BY <1>1, <1>2, <1>3, <1>4, StepMapsToLog, RepositoryWhileSaving, PTL
     DEF SpecSave, ImplementsLog, Log!Spec

=============================================================================
