----------------------- MODULE AuditedRepository_proofs -----------------------
(***************************************************************************)
(* Theorems about AuditedRepository, for any registrations, any number of  *)
(* calls and groups of changes, and any failures.                          *)
(***************************************************************************)
EXTENDS AuditedRepository, TLAPS

-----------------------------------------------------------------------------
(* Types.                                                                  *)

LEMMA Constants ==
  /\ Seeds \subseteq References /\ Calls \cap Groups = {} /\ Nobody \notin Callers
  /\ MaxChanges \in Nat /\ MaxFaults \in Nat
BY RepositoryAssumption

LEMMA FreshTyped ==
  /\ Absent \in Docs /\ Unversioned \in Docs
  /\ NoDocs \in [References -> Docs] /\ NoLog \in [References -> SUBSET Entries]
  /\ Fresh \in Transactions
<1>1. Absent \in Docs /\ Unversioned \in Docs
  BY DEF Absent, Unversioned, Docs
<1>2. NoDocs \in [References -> Docs]
  BY <1>1 DEF NoDocs
<1>3. NoLog \in [References -> SUBSET Entries]
  BY DEF NoLog
<1>4. (CHOOSE ref \in References : TRUE) \in References
  BY RepositoryAssumption
<1>5. 0 \in 0..MaxChanges
  BY Constants
<1>6. Fresh \in Transactions
  BY <1>2, <1>3, <1>4, <1>5 DEF Fresh, Transactions, Operations
<1>7. QED
  BY <1>1, <1>2, <1>3, <1>6

\* Where a transaction starts over, whatever came before.
LEMMA ResetTyped ==
  /\ Working \in Transactions
  /\ \A op \in Operations, ref \in References : Operating(op, ref) \in Transactions
BY FreshTyped DEF Operating, Working, Transactions

LEMMA OpenedTyped ==
  ASSUME TypeOK, NEW t \in Callers
  PROVE  /\ tx[t] \in Transactions /\ Opened(t) \in Transactions
         /\ Opened(t).opened = TRUE
         /\ Opened(t).step = tx[t].step /\ Opened(t).status = tx[t].status
         /\ Opened(t).op = tx[t].op /\ Opened(t).ref = tx[t].ref
         /\ Opened(t).wrote = tx[t].wrote /\ Opened(t).failure = tx[t].failure
         /\ tx[t].opened => Opened(t) = tx[t]
         /\ ~tx[t].opened => /\ Opened(t).base = registrations
                             /\ Opened(t).view = registrations
                             /\ Opened(t).log = history
<1>1. /\ tx[t] \in Transactions /\ registrations \in [References -> Docs]
      /\ history \in [References -> SUBSET Entries]
  BY DEF TypeOK
<1>2. CASE tx[t].opened
  BY <1>1, <1>2 DEF Opened, Transactions
<1>3. CASE ~tx[t].opened
  <2> DEFINE new == [tx[t] EXCEPT !.opened = TRUE, !.base = registrations,
                                  !.view = registrations, !.log = history]
  <2>1. new \in Transactions
    BY <1>1 DEF Transactions
  <2>2. /\ new.opened = TRUE /\ new.step = tx[t].step /\ new.status = tx[t].status
        /\ new.op = tx[t].op /\ new.ref = tx[t].ref /\ new.wrote = tx[t].wrote
        /\ new.failure = tx[t].failure
        /\ new.base = registrations /\ new.view = registrations
        /\ new.log = history
    BY <1>1 DEF Transactions
  <2>3. Opened(t) = new
    BY <1>3 DEF Opened
  <2> HIDE DEF new
  <2>4. QED
    BY <1>1, <1>3, <2>1, <2>2, <2>3
<1>4. QED
  BY <1>2, <1>3

LEMMA ChangedTyped ==
  ASSUME NEW doc \in Docs, NEW op \in Operations, NEW t \in Callers
  PROVE  Changed(doc, op, t) \in Docs
BY DEF Changed, Docs

LEMMA CommittedTyped ==
  ASSUME TypeOK, NEW t \in Callers
  PROVE  /\ Committed(t) \in [References -> Docs]
         /\ CommittedLog(t) \in [References -> SUBSET Entries]
<1>1. /\ tx[t].view \in [References -> Docs]
      /\ tx[t].log \in [References -> SUBSET Entries]
      /\ registrations \in [References -> Docs]
      /\ history \in [References -> SUBSET Entries]
  BY DEF TypeOK, Transactions
<1>2. QED
  BY <1>1 DEF Committed, CommittedLog

-----------------------------------------------------------------------------
(* What each kind of step makes of the transactions.                       *)

Alone(t) == \A s \in Callers \ {t} : tx'[s] = tx[s]

\* It starts over: nothing read, nothing written.
Resets(t) ==
  /\ ~tx'[t].opened /\ tx'[t].wrote = {}
  /\ tx'[t].base = NoDocs /\ tx'[t].view = NoDocs /\ tx'[t].log = NoLog

\* It keeps what it has read and written.
Keeps(t) ==
  /\ tx'[t].opened = tx[t].opened /\ tx'[t].base = tx[t].base
  /\ tx'[t].view = tx[t].view /\ tx'[t].log = tx[t].log

\* The same, once its snapshot is open.
KeepsOpened(t) ==
  /\ tx'[t].opened /\ tx'[t].base = Opened(t).base
  /\ tx'[t].view = Opened(t).view /\ tx'[t].log = Opened(t).log

LEMMA ChangeEffect ==
  ASSUME TypeOK, NEW t \in Callers, Change(t)
  PROVE  /\ tx' \in [Callers -> Transactions] /\ Alone(t)
         /\ tx'[t].opened /\ tx'[t].base = Opened(t).base
         /\ tx'[t].view = [Opened(t).view EXCEPT
                             ![tx[t].ref] = Changed(Found(t), tx[t].op, t)]
         /\ tx'[t].log = Opened(t).log
         /\ tx'[t].wrote = tx[t].wrote \cup {tx[t].ref}
         /\ tx'[t].step = "append" /\ tx'[t].status = tx[t].status
         /\ tx'[t].op = tx[t].op /\ tx'[t].ref = tx[t].ref
         /\ tx'[t].failure = tx[t].failure
<1> DEFINE old == Opened(t)
           doc == Changed(Found(t), tx[t].op, t)
           new == [old EXCEPT !.view[tx[t].ref] = doc,
                              !.wrote = tx[t].wrote \cup {tx[t].ref},
                              !.step = "append"]
<1>1. tx \in [Callers -> Transactions] /\ old \in Transactions
  BY OpenedTyped DEF TypeOK
<1>2. doc \in Docs /\ tx[t].ref \in References /\ tx[t].wrote \subseteq References
  BY <1>1, ChangedTyped DEF Found, Transactions
<1>3. tx' = [tx EXCEPT ![t] = new]
  BY DEF Change
<1>4. /\ new \in Transactions
      /\ new.opened = old.opened /\ new.base = old.base /\ new.log = old.log
      /\ new.view = [old.view EXCEPT ![tx[t].ref] = doc]
      /\ new.wrote = tx[t].wrote \cup {tx[t].ref} /\ new.step = "append"
      /\ new.status = old.status /\ new.op = old.op /\ new.ref = old.ref
      /\ new.failure = old.failure
  BY <1>1, <1>2 DEF Transactions
<1> HIDE DEF new, doc
<1>5. tx'[t] = new /\ Alone(t)
  BY <1>1, <1>3 DEF Alone
<1>6. tx' \in [Callers -> Transactions]
  BY <1>1, <1>3, <1>4
<1>7. QED
  BY <1>4, <1>5, <1>6, OpenedTyped DEF doc

LEMMA FindNothingEffect ==
  ASSUME TypeOK, NEW t \in Callers, FindNothing(t)
  PROVE  /\ tx' \in [Callers -> Transactions] /\ Alone(t) /\ KeepsOpened(t)
         /\ tx'[t].wrote = tx[t].wrote /\ tx'[t].step \in {"work", "finish"}
         /\ tx'[t].status = tx[t].status /\ tx'[t].failure = tx[t].failure
<1> DEFINE new == [Opened(t) EXCEPT !.step = Afterwards(t)]
<1>1. tx \in [Callers -> Transactions] /\ Opened(t) \in Transactions
  BY OpenedTyped DEF TypeOK
<1>2. new \in Transactions /\ new.step \in {"work", "finish"}
      /\ new.opened = Opened(t).opened /\ new.base = Opened(t).base
      /\ new.view = Opened(t).view /\ new.log = Opened(t).log
      /\ new.wrote = Opened(t).wrote /\ new.status = Opened(t).status
      /\ new.failure = Opened(t).failure
  BY <1>1 DEF Transactions, Afterwards
<1>3. tx' = [tx EXCEPT ![t] = new]
  BY DEF FindNothing
<1> HIDE DEF new
<1>4. tx'[t] = new /\ Alone(t) /\ tx' \in [Callers -> Transactions]
  BY <1>1, <1>2, <1>3 DEF Alone
<1>5. QED
  BY <1>2, <1>4, OpenedTyped DEF KeepsOpened

LEMMA FailEffect ==
  ASSUME TypeOK, NEW t \in Callers, NEW failure \in Failures,
         NEW kept \in SUBSET tx[t].wrote, Fail(t, failure, kept)
  PROVE  /\ tx' \in [Callers -> Transactions] /\ Alone(t) /\ KeepsOpened(t)
         /\ tx'[t].wrote = kept
         /\ tx'[t].step = Afterwards(t) /\ tx'[t].step \in {"work", "finish"}
         /\ tx'[t].op = tx[t].op /\ tx'[t].ref = tx[t].ref
         /\ tx'[t].status = tx[t].status
         /\ tx'[t].failure = FirstFailure(t, failure) /\ tx'[t].failure # "none"
<1> DEFINE new == [Opened(t) EXCEPT !.step = Afterwards(t), !.wrote = kept,
                                    !.failure = FirstFailure(t, failure)]
<1>1. tx \in [Callers -> Transactions] /\ Opened(t) \in Transactions
  BY OpenedTyped DEF TypeOK
<1>2. /\ FirstFailure(t, failure) \in Failures /\ kept \in SUBSET References
      /\ "none" \notin Failures
  BY <1>1 DEF FirstFailure, Transactions, Failures
<1>3. new \in Transactions
      /\ new.step = Afterwards(t) /\ new.step \in {"work", "finish"}
      /\ new.op = Opened(t).op /\ new.ref = Opened(t).ref
      /\ new.opened = Opened(t).opened /\ new.base = Opened(t).base
      /\ new.view = Opened(t).view /\ new.log = Opened(t).log
      /\ new.wrote = kept /\ new.status = Opened(t).status
      /\ new.failure = FirstFailure(t, failure)
  BY <1>1, <1>2 DEF Transactions, Afterwards
<1>4. tx' = [tx EXCEPT ![t] = new]
  BY DEF Fail
<1> HIDE DEF new
<1>5. tx'[t] = new /\ Alone(t) /\ tx' \in [Callers -> Transactions]
  BY <1>1, <1>3, <1>4 DEF Alone
<1>6. QED
  BY <1>2, <1>3, <1>5, OpenedTyped DEF KeepsOpened

LEMMA AppendEffect ==
  ASSUME TypeOK, NEW t \in Callers, Append(t)
  PROVE  /\ tx' \in [Callers -> Transactions] /\ Alone(t)
         /\ tx'[t].opened = tx[t].opened /\ tx'[t].base = tx[t].base
         /\ tx'[t].view = tx[t].view
         /\ tx'[t].log = [tx[t].log EXCEPT ![tx[t].ref] = @ \cup {Entry(t)}]
         /\ tx'[t].wrote = tx[t].wrote
         /\ tx'[t].step = Afterwards(t) /\ tx'[t].step \in {"work", "finish"}
         /\ tx'[t].op = tx[t].op /\ tx'[t].ref = tx[t].ref
         /\ tx'[t].status = tx[t].status /\ tx'[t].failure = tx[t].failure
         /\ Entry(t) \in Entries
<1> DEFINE log == [tx[t].log EXCEPT ![tx[t].ref] = @ \cup {Entry(t)}]
           new == [tx[t] EXCEPT !.log = log, !.step = Afterwards(t)]
<1>1. tx \in [Callers -> Transactions] /\ tx[t] \in Transactions
  BY DEF TypeOK
<1>2. /\ tx[t].view[tx[t].ref] \in Docs /\ tx[t].op \in Operations
      /\ tx[t].log \in [References -> SUBSET Entries] /\ tx[t].ref \in References
  BY <1>1 DEF Transactions
<1>3. Entry(t) \in Entries
  BY <1>2 DEF Entry, Entries, Docs
<1>4. log \in [References -> SUBSET Entries]
  BY <1>2, <1>3
<1>5. tx' = [tx EXCEPT ![t] = new]
  BY <1>1, <1>2 DEF Append, Transactions
<1> HIDE DEF log
<1>6. new \in Transactions
      /\ new.step = Afterwards(t) /\ new.step \in {"work", "finish"}
      /\ new.op = tx[t].op /\ new.ref = tx[t].ref
      /\ new.opened = tx[t].opened /\ new.base = tx[t].base
      /\ new.view = tx[t].view /\ new.log = log /\ new.wrote = tx[t].wrote
      /\ new.status = tx[t].status /\ new.failure = tx[t].failure
  BY <1>1, <1>4 DEF Transactions, Afterwards
<1> HIDE DEF new
<1>7. tx'[t] = new /\ Alone(t) /\ tx' \in [Callers -> Transactions]
  BY <1>1, <1>5, <1>6 DEF Alone
<1>8. QED
  BY <1>3, <1>6, <1>7 DEF log

\* Everything that ends a transaction or has it run again.
LEMMA EndEffect ==
  ASSUME TypeOK, NEW t \in Callers,
         NEW status \in {"active", "committed", "aborted"}, NEW result,
         End(t, result, status)
  PROVE  /\ tx' \in [Callers -> Transactions] /\ Alone(t) /\ Resets(t)
         /\ tx'[t].step = "ended" /\ tx'[t].status = status
         /\ tx'[t].ref = tx[t].ref /\ tx'[t].failure = tx[t].failure
         /\ outcome' = [outcome EXCEPT ![t] = result]
<1> DEFINE new == [Fresh EXCEPT !.step = "ended", !.status = status,
                                !.ref = tx[t].ref, !.failure = tx[t].failure]
<1>1. tx \in [Callers -> Transactions]
  BY DEF TypeOK
<1>2. tx[t].ref \in References /\ tx[t].failure \in Failures \cup {"none"}
  BY <1>1 DEF Transactions
<1>3. new \in Transactions
  BY <1>2, FreshTyped DEF Transactions
<1>4. /\ new.step = "ended" /\ new.status = status /\ new.ref = tx[t].ref
      /\ new.failure = tx[t].failure /\ ~new.opened /\ new.wrote = {}
      /\ new.base = NoDocs /\ new.view = NoDocs /\ new.log = NoLog
  BY DEF Fresh
<1>5. tx' = [tx EXCEPT ![t] = new] /\ outcome' = [outcome EXCEPT ![t] = result]
  BY DEF End
<1> HIDE DEF new
<1>6. tx'[t] = new /\ Alone(t) /\ tx' \in [Callers -> Transactions]
  BY <1>1, <1>3, <1>5 DEF Alone
<1>7. QED
  BY <1>4, <1>5, <1>6 DEF Resets

LEMMA StartEffect ==
  ASSUME TypeOK, NEW t \in Callers,
         \/ tx' = [tx EXCEPT ![t] = Working]
         \/ \E op \in Operations, ref \in References :
              tx' = [tx EXCEPT ![t] = Operating(op, ref)]
  PROVE  /\ tx' \in [Callers -> Transactions] /\ Alone(t) /\ Resets(t)
         /\ tx'[t].step \in {"work", "change"} /\ tx'[t].status = "active"
         /\ tx'[t].failure = "none"
<1>1. tx \in [Callers -> Transactions]
  BY DEF TypeOK
<1>2. ASSUME NEW new, new = Working \/ \E op \in Operations, ref \in References :
                                         new = Operating(op, ref)
      PROVE  /\ new \in Transactions
             /\ new.step \in {"work", "change"} /\ new.status = "active"
             /\ new.failure = "none" /\ ~new.opened /\ new.wrote = {}
             /\ new.base = NoDocs /\ new.view = NoDocs /\ new.log = NoLog
  <2>1. new \in Transactions
    BY <1>2, ResetTyped
  <2>2. QED
    BY <1>2, <2>1 DEF Working, Operating, Fresh
<1>3. PICK new : /\ tx' = [tx EXCEPT ![t] = new]
                 /\ \/ new = Working
                    \/ \E op \in Operations, ref \in References :
                         new = Operating(op, ref)
  OBVIOUS
<1>4. tx'[t] = new /\ Alone(t)
  BY <1>1, <1>3 DEF Alone
<1>5. tx' \in [Callers -> Transactions]
  BY <1>1, <1>2, <1>3
<1>6. QED
  BY <1>2, <1>3, <1>4, <1>5 DEF Resets

LEMMA BegunTyped ==
  ASSUME TypeOK, NEW t \in Callers, tx[t].begun < MaxChanges
  PROVE  tx[t].begun + 1 \in 0..MaxChanges
<1>1. tx[t].begun \in 0..MaxChanges
  BY DEF TypeOK, Transactions
<1>2. QED
  BY <1>1, Constants

\* A group's own code, which reads and writes nothing.
LEMMA WorkEffect ==
  ASSUME TypeOK, NEW t \in Callers,
         \/ \E op \in Operations, ref \in References : StartOperation(t, op, ref)
         \/ EndWork(t)
  PROVE  /\ tx' \in [Callers -> Transactions] /\ Alone(t) /\ Keeps(t)
         /\ tx[t].step = "work"
         /\ tx'[t].step \in {"work", "change", "finish"}
         /\ tx'[t].step = "change" => MayRun(t)
         /\ tx'[t].wrote = tx[t].wrote /\ tx'[t].status = tx[t].status
         /\ \/ tx'[t].failure = tx[t].failure
            \/ /\ tx'[t].failure = "error" /\ tx[t].failure = "none"
               /\ ~MayRun(t)
<1>1. tx \in [Callers -> Transactions] /\ tx[t] \in Transactions
  BY DEF TypeOK
<1>2. ASSUME NEW new \in Transactions, tx' = [tx EXCEPT ![t] = new]
      PROVE  tx'[t] = new /\ Alone(t) /\ tx' \in [Callers -> Transactions]
  BY <1>1, <1>2 DEF Alone
<1>3. ASSUME NEW op \in Operations, NEW ref \in References,
             StartOperation(t, op, ref), MayRun(t)
      PROVE  /\ tx' \in [Callers -> Transactions] /\ Alone(t) /\ Keeps(t)
             /\ tx'[t].step = "change" /\ tx'[t].wrote = tx[t].wrote
             /\ tx'[t].status = tx[t].status /\ tx'[t].failure = tx[t].failure
  <2> DEFINE counted == [tx[t] EXCEPT !.begun = @ + 1]
             new == [counted EXCEPT !.step = "change", !.op = op, !.ref = ref]
  <2>1. tx[t].begun + 1 \in 0..MaxChanges
    BY <1>1, <1>3, BegunTyped DEF StartOperation
  <2>2. /\ new \in Transactions
        /\ new.opened = tx[t].opened /\ new.base = tx[t].base
        /\ new.view = tx[t].view /\ new.log = tx[t].log
        /\ new.step = "change" /\ new.wrote = tx[t].wrote
        /\ new.status = tx[t].status /\ new.failure = tx[t].failure
    BY <1>1, <2>1 DEF Transactions
  <2>3. tx' = [tx EXCEPT ![t] = new]
    BY <1>3 DEF StartOperation
  <2> HIDE DEF new
  <2>4. QED
    BY <1>2, <2>2, <2>3 DEF Keeps
<1>4. ASSUME NEW op \in Operations, NEW ref \in References,
             StartOperation(t, op, ref), ~MayRun(t)
      PROVE  /\ tx' \in [Callers -> Transactions] /\ Alone(t) /\ Keeps(t)
             /\ tx'[t].step = "work" /\ tx'[t].wrote = tx[t].wrote
             /\ tx'[t].status = tx[t].status
             /\ \/ tx'[t].failure = tx[t].failure
                \/ tx'[t].failure = "error" /\ tx[t].failure = "none"
  <2> DEFINE failure == FirstFailure(t, "error")
             counted == [tx[t] EXCEPT !.begun = @ + 1]
             new == [counted EXCEPT !.failure = failure]
  <2>1. tx[t].begun + 1 \in 0..MaxChanges /\ tx[t].step = "work"
    BY <1>1, <1>4, BegunTyped DEF StartOperation
  <2>2. /\ failure \in Failures \cup {"none"}
        /\ failure = tx[t].failure \/ (failure = "error" /\ tx[t].failure = "none")
    BY <1>1 DEF FirstFailure, Transactions, Failures
  <2> HIDE DEF failure
  <2>3. /\ new \in Transactions
        /\ new.opened = tx[t].opened /\ new.base = tx[t].base
        /\ new.view = tx[t].view /\ new.log = tx[t].log
        /\ new.step = "work" /\ new.wrote = tx[t].wrote
        /\ new.status = tx[t].status /\ new.failure = failure
    BY <1>1, <2>1, <2>2 DEF Transactions
  <2>4. tx' = [tx EXCEPT ![t] = new]
    BY <1>4 DEF StartOperation, failure
  <2> HIDE DEF new
  <2>5. QED
    BY <1>2, <2>2, <2>3, <2>4 DEF Keeps
<1>5. ASSUME EndWork(t)
      PROVE  /\ tx' \in [Callers -> Transactions] /\ Alone(t) /\ Keeps(t)
             /\ tx'[t].step = "finish" /\ tx'[t].wrote = tx[t].wrote
             /\ tx'[t].status = tx[t].status /\ tx'[t].failure = tx[t].failure
  <2>1. PICK threw \in BOOLEAN :
          tx' = [tx EXCEPT ![t].step = "finish", ![t].threw = threw]
    BY <1>5 DEF EndWork
  <2> DEFINE new == [tx[t] EXCEPT !.step = "finish", !.threw = threw]
  <2>2. /\ new \in Transactions
        /\ new.opened = tx[t].opened /\ new.base = tx[t].base
        /\ new.view = tx[t].view /\ new.log = tx[t].log
        /\ new.step = "finish" /\ new.wrote = tx[t].wrote
        /\ new.status = tx[t].status /\ new.failure = tx[t].failure
    BY <1>1 DEF Transactions
  <2>3. tx' = [tx EXCEPT ![t] = new]
    BY <1>1, <2>1
  <2> HIDE DEF new
  <2>4. QED
    BY <1>2, <2>2, <2>3 DEF Keeps
<1>6. tx[t].step = "work"
  BY DEF StartOperation, EndWork
<1>7. QED
  BY <1>3, <1>4, <1>5, <1>6

\* A group that ends its session itself.
LEMMA EndItselfEffect ==
  ASSUME TypeOK, NEW t \in Callers, NEW status \in {"committed", "aborted"},
         tx' = [tx EXCEPT ![t].status = status, ![t].wrote = {}]
  PROVE  /\ tx' \in [Callers -> Transactions] /\ Alone(t) /\ Keeps(t)
         /\ tx'[t].step = tx[t].step /\ tx'[t].wrote = {}
         /\ tx'[t].status = status /\ tx'[t].failure = tx[t].failure
<1> DEFINE new == [tx[t] EXCEPT !.status = status, !.wrote = {}]
<1>1. tx \in [Callers -> Transactions] /\ tx[t] \in Transactions
  BY DEF TypeOK
<1>2. /\ new \in Transactions
      /\ new.opened = tx[t].opened /\ new.base = tx[t].base
      /\ new.view = tx[t].view /\ new.log = tx[t].log
      /\ new.step = tx[t].step /\ new.wrote = {}
      /\ new.status = status /\ new.failure = tx[t].failure
  BY <1>1 DEF Transactions
<1>3. tx' = [tx EXCEPT ![t] = new]
  BY <1>1
<1> HIDE DEF new
<1>4. tx'[t] = new /\ Alone(t) /\ tx' \in [Callers -> Transactions]
  BY <1>1, <1>2, <1>3 DEF Alone
<1>5. QED
  BY <1>2, <1>4 DEF Keeps

-----------------------------------------------------------------------------
(* The inductive invariant.                                                *)

Own == References \ Seeds

\* What a history entry says of itself.
Sound(e) ==
  /\ e.snapshot.version = e.version
  /\ e.operation = "create" => e.version = 1
  /\ e.snapshot.deleted <=> e.operation = "delete"

\* The versions from 1 to last, each once.
Versions(entries, last) ==
  /\ {e.version : e \in entries} = 1..last
  /\ \A d, e \in entries : d.version = e.version => d = e

\* A registration and its history go together.  One without versions has none.
Matches(doc, entries) ==
  /\ Versions(entries, doc.version)
  /\ \A e \in entries : Sound(e)
  /\ \A e \in entries : e.operation = "delete" => e.version = doc.version
  /\ doc \notin {Absent, Unversioned} =>
       /\ doc.stored
       /\ \E e \in entries : e.snapshot = doc /\ e.version = doc.version

\* It has been changed and its history not yet.
Behind(doc, op, entries) ==
  /\ doc.stored /\ doc.version >= 1
  /\ op = "create" => doc.version = 1
  /\ doc.deleted <=> op = "delete"
  /\ Versions(entries, doc.version - 1)
  /\ \A e \in entries : Sound(e) /\ e.operation # "delete"

\* A transaction that may still commit sees only what goes together.
SeesMatching(t) ==
  tx[t].failure = "none" =>
    \A ref \in Own :
      IF tx[t].step = "append" /\ tx[t].ref = ref
      THEN Behind(tx[t].view[ref], tx[t].op, tx[t].log[ref])
      ELSE Matches(tx[t].view[ref], tx[t].log[ref])

\* How its steps hang together.
InStep(t) ==
  /\ tx[t].step \in {"change", "append"} =>
       tx[t].status = "active" /\ tx[t].failure = "none"
  /\ tx[t].step = "append" => tx[t].opened /\ tx[t].ref \in tx[t].wrote
  /\ ~tx[t].opened \/ tx[t].status # "active" => tx[t].wrote = {}
  /\ tx[t].step = "idle" => tx[t].status = "active"
  /\ tx[t].status = "committed" /\ tx[t].step # "ended" =>
       tx[t].failure # "transient"

MatchInv ==
  /\ \A ref \in Own : Matches(registrations[ref], history[ref])
  /\ \A t \in Callers : SeesMatching(t) /\ InStep(t)

\* Only one transaction at a time has written a registration.
WroteApart ==
  \A s, t \in Callers : s # t => tx[s].wrote \cap tx[t].wrote = {}

Live(t) == tx[t].opened /\ tx[t].failure = "none" /\ tx[t].status = "active"

\* What a transaction has not written it sees as of its snapshot, what it has
\* written nobody has changed since.
AsOf(entries, version) == {e \in entries : e.version <= version}

\* Of a registration that had no version when the transaction began: the first
\* entry is of a creation only if there was none.
FirstEntry(t, ref) ==
  LET created == ~tx[t].base[ref].stored
  IN  tx[t].base[ref].version = 0 =>
        /\ \A e \in tx[t].log[ref] :
             e.version = 1 => (e.operation = "create" <=> created)
        /\ tx[t].step = "append" /\ tx[t].ref = ref /\ tx[t].view[ref].version = 1
             => (tx[t].op = "create" <=> created)

SnapshotOf(t, ref) ==
  LET base == tx[t].base[ref]
      view == tx[t].view[ref]
      log == tx[t].log[ref]
  IN  /\ base.version <= registrations[ref].version
      /\ ref \notin tx[t].wrote =>
           view = base /\ log = AsOf(history[ref], base.version)
      /\ ref \in tx[t].wrote =>
           /\ registrations[ref] = base /\ ~base.deleted
           /\ base.version < view.version
           /\ history[ref] \subseteq log
           /\ FirstEntry(t, ref)

SnapshotInv ==
  \A t \in Callers : Live(t) => \A ref \in Own : SnapshotOf(t, ref)

\* A caller's changes are seen by others only once it has committed.
Mark(docs, log, t) ==
  \E ref \in References :
    docs[ref].by = t \/ \E e \in log[ref] : e.snapshot.by = t

MarksCommitted ==
  \A t \in Callers :
    /\ LeftBehind(t) => tx[t].status = "committed"
    /\ \A s \in Callers \ {t} :
         Mark(tx[s].view, tx[s].log, t) => tx[t].status = "committed"

\* What a caller has been told it was told truly.
ToldTruly ==
  \A t \in Callers : tx[t].step = "ended" =>
    /\ outcome[t] \in {"done", "null"} => tx[t].failure = "none"
    /\ outcome[t] # "dead" => tx[t].failure # "transient"

RepositoryInv == TypeOK /\ MatchInv /\ WroteApart /\ SnapshotInv

-----------------------------------------------------------------------------
(* Type correctness.                                                       *)

\* Everything that ends a transaction, and what it is told.
EndsWith(t, result, status) ==
  /\ tx[t].step \notin {"idle", "ended"} /\ End(t, result, status)
  /\ result \in {"done", "null"} => tx[t].failure = "none"
  /\ result = "dead" \/ tx[t].failure # "transient"
  /\ tx[t].status = "committed" => status = "committed"

Results == Failures \cup {"done", "null", "threw", "unknown", "dead"}
Endings == {"active", "committed", "aborted"}

\* What it writes is what a commit of its transaction writes, or nothing.
Writes(t) ==
  /\ tx[t].failure = "none" /\ tx[t].status = "active"
  /\ tx[t].step \in {"work", "finish"}
  /\ registrations' = Committed(t) /\ history' = CommittedLog(t)

LEMMA EndSteps ==
  ASSUME TypeOK, NEW t \in Callers,
         Commit(t) \/ CommitUnknown(t) \/ Reject(t) \/ ProcessDies(t)
  PROVE  \E result \in Results, status \in Endings :
           /\ EndsWith(t, result, status)
           /\ \/ Writes(t) /\ status = "committed"
              \/ UNCHANGED <<registrations, history>>
<1>1. tx[t] \in Transactions
  BY DEF TypeOK
<1>2. /\ tx[t].failure \in Failures \cup {"none"}
      /\ tx[t].status \in {"active", "committed", "aborted"}
  BY <1>1 DEF Transactions
<1>3. CASE Commit(t)
  <2>1. tx[t].step = "finish" /\ tx[t].failure = "none" /\ Result(t) \in {"null", "done"}
    BY <1>3 DEF Commit, Succeeds, Result
  <2>2. CASE tx[t].status = "active"
    <3>1. /\ EndsWith(t, Result(t), "committed") /\ Writes(t)
          /\ Result(t) \in Results /\ "committed" \in Endings
      BY <1>3, <2>1, <2>2 DEF Commit, EndsWith, Writes, Results, Endings
    <3>2. QED
      BY <3>1
  <2>3. CASE tx[t].status # "active"
    <3>1. /\ EndsWith(t, Result(t), tx[t].status)
          /\ UNCHANGED <<registrations, history>>
          /\ Result(t) \in Results /\ tx[t].status \in Endings
      BY <1>2, <1>3, <2>1, <2>3 DEF Commit, EndsWith, Results, Endings
    <3>2. QED
      BY <3>1
  <2>4. QED
    BY <2>2, <2>3
<1>4. CASE CommitUnknown(t)
  <2>1. /\ tx[t].step = "finish" /\ tx[t].failure = "none"
        /\ tx[t].status = "active"
    BY <1>4 DEF CommitUnknown, Succeeds
  <2>2. \E status \in {"committed", "aborted"} :
          /\ EndsWith(t, "unknown", status)
          /\ \/ Writes(t) /\ status = "committed"
             \/ UNCHANGED <<registrations, history>>
    BY <1>4, <2>1 DEF CommitUnknown, EndsWith, Writes
  <2>3. QED
    BY <2>2 DEF Results, Endings
<1>5. CASE Reject(t)
  <2> DEFINE status == IF tx[t].status = "committed" THEN "committed" ELSE "aborted"
             result == IF tx[t].threw THEN "threw" ELSE tx[t].failure
  <2>1. tx[t].failure # "none" \/ tx[t].threw
    BY <1>5 DEF Reject, Succeeds
  <2>2. /\ result \in Results /\ status \in Endings
        /\ result \notin {"done", "null", "dead"}
    BY <1>2, <2>1 DEF Results, Endings, Failures
  <2>3. /\ EndsWith(t, result, status) /\ UNCHANGED <<registrations, history>>
    BY <1>5, <2>2 DEF Reject, Retries, EndsWith
  <2> HIDE DEF result, status
  <2>4. QED
    BY <2>2, <2>3
<1>6. CASE ProcessDies(t)
  <2> DEFINE status == IF tx[t].status = "committed" THEN "committed" ELSE "aborted"
  <2>1. status \in Endings /\ "dead" \in Results
    BY DEF Results, Endings
  <2>2. EndsWith(t, "dead", status) /\ UNCHANGED <<registrations, history>>
    BY <1>6 DEF ProcessDies, EndsWith
  <2> HIDE DEF status
  <2>3. QED
    BY <2>1, <2>2
<1>7. QED
  BY <1>3, <1>4, <1>5, <1>6

\* The steps there are.  A caller fails, ends, begins (again), or is at work.
Fails(t) ==
  \E failure \in Failures, kept \in SUBSET tx[t].wrote :
    /\ tx[t].step \in {"change", "append"} /\ Fail(t, failure, kept)

Begins(t) ==
  /\ \/ tx[t].step = "idle"
     \/ tx[t].step = "finish" /\ tx[t].failure = "transient"
     \/ tx[t].step = "ended" /\ tx[t].status = "aborted"
  /\ UNCHANGED <<registrations, history>>
  /\ \A s \in Callers \ {t} : outcome'[s] = outcome[s]
  /\ \/ tx' = [tx EXCEPT ![t] = Working]
     \/ \E op \in Operations, ref \in References :
          tx' = [tx EXCEPT ![t] = Operating(op, ref)]

Works(t) ==
  \/ \E op \in Operations, ref \in References : StartOperation(t, op, ref)
  \/ EndWork(t)

EndsItself(t, status) ==
  /\ tx[t].step = "work" /\ tx[t].status = "active"
  /\ tx' = [tx EXCEPT ![t].status = status, ![t].wrote = {}]

Quiet == UNCHANGED <<registrations, history, outcome>>

CommitsItself(t) ==
  EndsItself(t, "committed") /\ Writes(t) /\ UNCHANGED outcome

Ends(t, result, status) ==
  /\ EndsWith(t, result, status)
  /\ \/ Writes(t) /\ status = "committed"
     \/ UNCHANGED <<registrations, history>>

\* All that a caller's step can be; nobody begins again after the end, but a
\* service that uses the repository may have him do so.
ActorStep(t) ==
  \/ Begins(t)
  \/ /\ Quiet
     /\ \/ Works(t) \/ Change(t) \/ FindNothing(t) \/ Append(t) \/ Fails(t)
        \/ EndsItself(t, "aborted")
  \/ CommitsItself(t)
  \/ \E result \in Results, status \in Endings : Ends(t, result, status)

\* All that a step of the repository can be.
RepositoryStep ==
  \/ \E t \in Callers : ActorStep(t)
  \/ \E ref \in Seeds : Seed(ref) \/ DeleteSeed(ref)
  \/ UNCHANGED <<registrations, history, tx, outcome>>

LEMMA OperationSteps ==
  ASSUME NEW t \in Callers, Operate(t) \/ OperationFails(t)
  PROVE  /\ Quiet
         /\ Change(t) \/ FindNothing(t) \/ Append(t) \/ Fails(t)
<1>1. CASE Change(t) \/ FindNothing(t) \/ Append(t)
  BY <1>1 DEF Change, FindNothing, Append, Quiet
<1>2. {} \in SUBSET tx[t].wrote /\ tx[t].wrote \in SUBSET tx[t].wrote
  OBVIOUS
<1>3. CASE ChangeRefused(t)
  BY <1>2, <1>3 DEF ChangeRefused, Quiet, Fails, Failures
<1>4. CASE AppendRefused(t)
  BY <1>2, <1>4 DEF AppendRefused, Quiet, Fails, Failures
<1>5. CASE OperationFails(t)
  BY <1>2, <1>5 DEF OperationFails, Quiet, Fails, Failures
<1>6. QED
  BY <1>1, <1>3, <1>4, <1>5 DEF Operate

LEMMA ActorSteps ==
  ASSUME TypeOK, NEW t \in Callers,
         \/ \E op \in Operations, ref \in References : BeginCall(t, op, ref)
         \/ Work(t) \/ Operate(t) \/ Finish(t) \/ Faulty(t)
  PROVE  ActorStep(t)
<1>1. CASE \E op \in Operations, ref \in References : BeginCall(t, op, ref)
  BY <1>1 DEF BeginCall, Begins, ActorStep
<1>2. ASSUME Work(t)
      PROVE  \/ Begins(t)
             \/ Quiet /\ (Works(t) \/ EndsItself(t, "aborted"))
             \/ CommitsItself(t)
  <2>1. CASE BeginWork(t)
    BY <2>1 DEF BeginWork, Begins
  <2>2. CASE \/ \E op \in Operations, ref \in References : StartOperation(t, op, ref)
             \/ EndWork(t)
    BY <2>2 DEF StartOperation, EndWork, Quiet, Works
  <2>3. CASE CommitItself(t)
    BY <2>3 DEF CommitItself, MayRun, Writes, EndsItself, CommitsItself
  <2>4. CASE AbortItself(t)
    BY <2>4 DEF AbortItself, Quiet, EndsItself
  <2>5. QED
    BY <1>2, <2>1, <2>2, <2>3, <2>4 DEF Work
<1>3. CASE Operate(t) \/ OperationFails(t)
  BY <1>3, OperationSteps DEF ActorStep
<1>4. ASSUME Retry(t) PROVE Begins(t)
  <2>1. tx[t].op \in Operations /\ tx[t].ref \in References
    BY DEF TypeOK, Transactions
  <2>2. QED
    BY <1>4, <2>1 DEF Retry, Retries, Begins, Again
<1>5. ASSUME Commit(t) \/ CommitUnknown(t) \/ Reject(t) \/ ProcessDies(t)
      PROVE  \E result \in Results, status \in Endings : Ends(t, result, status)
  BY <1>5, EndSteps DEF Ends
<1>6. QED
  BY <1>1, <1>2, <1>3, <1>4, <1>5 DEF ActorStep, Finish, Faulty

LEMMA StepKinds == TypeOK /\ [Next]_vars => RepositoryStep
<1> SUFFICES ASSUME TypeOK, [Next]_vars PROVE RepositoryStep
  OBVIOUS
<1>1. CASE UNCHANGED vars
  BY <1>1 DEF vars, RepositoryStep
<1>2. CASE Scripts
  BY <1>2 DEF Scripts, RepositoryStep
<1>3. CASE Next /\ ~Scripts
  <2>1. \E t \in Callers :
          \/ \E op \in Operations, ref \in References : BeginCall(t, op, ref)
          \/ Work(t) \/ Operate(t) \/ Finish(t) \/ Faulty(t)
    BY <1>3 DEF Next, Callers
  <2>2. QED
    BY <2>1, ActorSteps DEF RepositoryStep
<1>4. QED
  BY <1>1, <1>2, <1>3

LEMMA WritesTyped ==
  ASSUME TypeOK, NEW t \in Callers, Writes(t)
  PROVE  /\ registrations' \in [References -> Docs]
         /\ history' \in [References -> SUBSET Entries]
BY CommittedTyped DEF Writes

LEMMA FaultsTyped == TypeOK /\ [Next]_vars => faults' \in Nat
<1> SUFFICES ASSUME TypeOK, [Next]_vars PROVE UNCHANGED faults \/ Fault
  BY DEF Fault, TypeOK
<1>1. ASSUME NEW t \in Callers, Operate(t) \/ Finish(t) PROVE UNCHANGED faults
  BY <1>1 DEF Operate, Finish, Change, FindNothing, ChangeRefused, Append,
              AppendRefused, Commit, Retry, Reject
<1>2. ASSUME NEW t \in Callers, Faulty(t) PROVE Fault
  BY <1>2 DEF Faulty, OperationFails, CommitUnknown, ProcessDies
<1>3. ASSUME NEW t \in Groups, Work(t) PROVE UNCHANGED faults
  BY <1>3 DEF Work, BeginWork, StartOperation, EndWork, CommitItself, AbortItself
<1>4. ASSUME NEW t \in Calls, NEW op \in Operations, NEW ref \in References,
             BeginCall(t, op, ref)
      PROVE  UNCHANGED faults
  BY <1>4 DEF BeginCall
<1>5. CASE Scripts \/ UNCHANGED vars
  BY <1>5 DEF Scripts, Seed, DeleteSeed, vars
<1>6. QED
  BY <1>1, <1>2, <1>3, <1>4, <1>5 DEF Next

\* What a step makes of the transactions and the two collections.
LEMMA StepTyped ==
  ASSUME TypeOK, RepositoryStep
  PROVE  /\ registrations' \in [References -> Docs]
         /\ history' \in [References -> SUBSET Entries]
         /\ tx' \in [Callers -> Transactions]
<1>1. /\ registrations \in [References -> Docs]
      /\ history \in [References -> SUBSET Entries]
      /\ tx \in [Callers -> Transactions]
  BY DEF TypeOK
<1>2. ASSUME NEW t \in Callers, Begins(t) PROVE tx' \in [Callers -> Transactions]
  BY <1>2, StartEffect DEF Begins
<1>3. ASSUME NEW t \in Callers, Works(t) \/ Change(t) \/ FindNothing(t) \/ Append(t)
      PROVE  tx' \in [Callers -> Transactions]
  BY <1>3, WorkEffect, ChangeEffect, FindNothingEffect, AppendEffect DEF Works
<1>4. ASSUME NEW t \in Callers, Fails(t) PROVE tx' \in [Callers -> Transactions]
  BY <1>4, FailEffect DEF Fails
<1>5. ASSUME NEW t \in Callers, NEW status \in {"committed", "aborted"},
             EndsItself(t, status)
      PROVE  tx' \in [Callers -> Transactions]
  BY <1>5, EndItselfEffect DEF EndsItself
<1>6. ASSUME NEW t \in Callers, NEW result \in Results, NEW status \in Endings,
             EndsWith(t, result, status)
      PROVE  tx' \in [Callers -> Transactions]
  BY <1>6, EndEffect DEF EndsWith, Endings
<1>7. ASSUME NEW ref \in Seeds, Seed(ref) \/ DeleteSeed(ref)
      PROVE  registrations' \in [References -> Docs]
  BY <1>1, <1>7, FreshTyped DEF Seed, DeleteSeed
<1>8. ASSUME NEW ref \in Seeds, Seed(ref) \/ DeleteSeed(ref)
      PROVE  UNCHANGED <<history, tx>>
  BY <1>8 DEF Seed, DeleteSeed
<1>9. ASSUME NEW t \in Callers, Begins(t) \/ Quiet
      PROVE  UNCHANGED <<registrations, history>>
  BY <1>9 DEF Begins, Quiet
<1>10. QED
  BY <1>1, <1>2, <1>3, <1>4, <1>5, <1>6, <1>7, <1>8, <1>9, WritesTyped
     DEF RepositoryStep, ActorStep, CommitsItself, Ends

LEMMA OutcomeTyped ==
  ASSUME TypeOK, [Next]_vars
  PROVE  outcome' \in [Callers -> Failures \cup {"none", "done", "null", "threw",
                                                 "unknown", "dead"}]
<1>1. outcome \in [Callers -> Failures \cup {"none", "done", "null", "threw",
                                             "unknown", "dead"}]
  BY DEF TypeOK
<1>2. ASSUME NEW t \in Callers, NEW result \in Results, NEW status \in Endings,
             EndsWith(t, result, status)
      PROVE  outcome' = [outcome EXCEPT ![t] = result]
  BY <1>2 DEF EndsWith, End
<1>3. ASSUME NEW t \in Callers, Finish(t) \/ Faulty(t)
      PROVE  \/ UNCHANGED outcome
             \/ \E result \in Results, status \in Endings :
                  EndsWith(t, result, status)
  BY <1>3, EndSteps DEF Finish, Faulty, Retry, OperationFails
<1>4. ASSUME NEW t \in Callers, Operate(t) PROVE UNCHANGED outcome
  BY <1>4 DEF Operate, Change, FindNothing, ChangeRefused, Append, AppendRefused
<1>5. ASSUME NEW t \in Groups, Work(t) PROVE UNCHANGED outcome
  BY <1>5 DEF Work, BeginWork, StartOperation, EndWork, CommitItself, AbortItself
<1>6. ASSUME NEW t \in Calls, NEW op \in Operations, NEW ref \in References,
             BeginCall(t, op, ref)
      PROVE  UNCHANGED outcome
  BY <1>6 DEF BeginCall
<1>7. ASSUME Scripts \/ UNCHANGED vars PROVE UNCHANGED outcome
  BY <1>7 DEF Scripts, Seed, DeleteSeed, vars
<1>8. QED
  BY <1>1, <1>2, <1>3, <1>4, <1>5, <1>6, <1>7 DEF Next, Results

\* The state keeps its shape, whatever is changed, conflicts, fails or dies.
THEOREM TypeCorrect == Spec => []TypeOK
<1>1. Init => TypeOK
  BY FreshTyped DEF Init, TypeOK
<1>2. TypeOK /\ [Next]_vars => TypeOK'
  BY StepKinds, StepTyped, OutcomeTyped, FaultsTyped DEF TypeOK
<1>3. QED
  BY <1>1, <1>2, PTL DEF Spec

-----------------------------------------------------------------------------
(* A registration and its history, as an operation changes them.           *)

LEMMA StoredMatches ==
  ASSUME NEW doc \in Docs, NEW entries \in SUBSET Entries, Matches(doc, entries)
  PROVE  /\ ~doc.stored => doc.version = 0 /\ ~doc.deleted /\ entries = {}
         /\ Visible(doc) => \A e \in entries : e.operation # "delete"
<1>1. doc.version \in Nat /\ \A e \in entries : e.version \in 1..doc.version
  BY DEF Docs, Matches, Versions
<1>2. CASE doc \notin {Absent, Unversioned}
  <2>1. doc.stored /\ \E e \in entries : e.snapshot = doc /\ e.version = doc.version
    BY <1>2 DEF Matches
  <2>2. PICK e \in entries : e.snapshot = doc /\ e.version = doc.version
    BY <2>1
  <2>3. ASSUME NEW d \in entries, d.operation = "delete" PROVE doc.deleted
    <3>1. d = e
      BY <2>2, <2>3 DEF Matches, Versions
    <3>2. QED
      BY <2>2, <2>3, <3>1 DEF Matches, Sound
  <2>4. QED
    BY <2>1, <2>3 DEF Visible
<1>3. CASE doc \in {Absent, Unversioned}
  <2>1. doc.version = 0 /\ ~doc.deleted
    BY <1>3 DEF Absent, Unversioned
  <2>2. entries = {}
    BY <1>1, <2>1
  <2>3. QED
    BY <1>3, <2>1, <2>2
<1>4. QED
  BY <1>2, <1>3

\* A change puts the registration one version ahead of its history,
LEMMA ChangeMatches ==
  ASSUME NEW doc \in Docs, NEW entries \in SUBSET Entries, Matches(doc, entries),
         NEW op \in Operations, NEW t \in Callers,
         op = "create" => ~doc.stored, op # "create" => Visible(doc)
  PROVE  /\ Behind(Changed(doc, op, t), op, entries)
         /\ Changed(doc, op, t).version = doc.version + 1
         /\ ~doc.deleted
<1> DEFINE new == Changed(doc, op, t)
<1>1. doc.version \in Nat /\ Versions(entries, doc.version)
  BY DEF Docs, Matches
<1>2. new.stored /\ (new.deleted <=> op = "delete")
      /\ new.version = IF op = "create" THEN 1 ELSE doc.version + 1
  BY DEF Changed
<1>3. new.version = doc.version + 1 /\ (op = "create" => new.version = 1)
      /\ ~doc.deleted
  BY <1>1, <1>2, StoredMatches DEF Visible
<1>4. new.version >= 1 /\ new.version - 1 = doc.version
  BY <1>1, <1>3
<1>5. \A e \in entries : Sound(e) /\ e.operation # "delete"
  BY StoredMatches DEF Matches
<1> HIDE DEF new
<1>6. Behind(new, op, entries)
  BY <1>1, <1>2, <1>3, <1>4, <1>5 DEF Behind
<1>7. QED
  BY <1>3, <1>6 DEF new

\* and its entry has them level again.
LEMMA AppendMatches ==
  ASSUME NEW doc \in Docs, NEW entries \in SUBSET Entries, NEW op \in Operations,
         Behind(doc, op, entries),
         NEW entry, entry = [version |-> doc.version, operation |-> op,
                             snapshot |-> doc]
  PROVE  Matches(doc, entries \cup {entry})
<1>1. doc.version \in Nat /\ doc.version >= 1
  BY DEF Docs, Behind
<1>2. entry.version = doc.version /\ entry.operation = op /\ entry.snapshot = doc
  OBVIOUS
<1>3. \A e \in entries : e.version \in 1..(doc.version - 1)
  BY DEF Behind, Versions
<1>4. {e.version : e \in entries \cup {entry}} = 1..doc.version
  <2>1. \A e \in entries \cup {entry} : e.version \in 1..doc.version
    BY <1>1, <1>2, <1>3
  <2>2. ASSUME NEW v \in 1..doc.version
        PROVE  \E e \in entries \cup {entry} : e.version = v
    <3>1. CASE v = doc.version
      BY <1>2, <3>1
    <3>2. CASE v # doc.version
      <4>1. v \in 1..(doc.version - 1)
        BY <1>1, <3>2
      <4>2. QED
        BY <4>1 DEF Behind, Versions
    <3>3. QED
      BY <3>1, <3>2
  <2>3. QED
    BY <2>1, <2>2
<1>5. \A e \in entries : e.version # entry.version
  BY <1>1, <1>2, <1>3
<1>6. \A d, e \in entries \cup {entry} : d.version = e.version => d = e
  BY <1>5 DEF Behind, Versions
<1>7. Sound(entry)
  BY <1>2 DEF Sound, Behind
<1>8. /\ \A e \in entries \cup {entry} : Sound(e)
      /\ \A e \in entries \cup {entry} :
           e.operation = "delete" => e.version = doc.version
  BY <1>2, <1>7 DEF Behind
<1>9. doc.stored
  BY DEF Behind
<1>10. QED
  BY <1>2, <1>4, <1>6, <1>8, <1>9 DEF Matches, Versions

\* A registration that is absent or without versions has no history.
LEMMA AbsentMatches == Matches(Absent, {}) /\ Matches(Unversioned, {})
<1>1. Absent.version = 0 /\ Unversioned.version = 0
  BY DEF Absent, Unversioned
<1>2. Versions({}, 0)
  BY DEF Versions
<1>3. QED
  BY <1>1, <1>2 DEF Matches

-----------------------------------------------------------------------------
(* MatchInv.                                                               *)

LEMMA OthersStay ==
  ASSUME NEW s \in Callers, tx'[s] = tx[s], SeesMatching(s), InStep(s)
  PROVE  SeesMatching(s)' /\ InStep(s)'
BY DEF SeesMatching, InStep

LEMMA OpenedMatches ==
  ASSUME TypeOK, MatchInv, NEW t \in Callers, tx[t].failure = "none",
         tx[t].step # "append", NEW ref \in Own
  PROVE  Matches(Opened(t).view[ref], Opened(t).log[ref])
<1>1. CASE tx[t].opened
  BY <1>1, OpenedTyped DEF MatchInv, SeesMatching
<1>2. CASE ~tx[t].opened
  BY <1>2, OpenedTyped DEF MatchInv
<1>3. QED
  BY <1>1, <1>2

\* A transaction that starts over.
LEMMA ResetMatches ==
  ASSUME NEW t \in Callers, Resets(t), tx'[t].step \notin {"append", "idle"},
         tx'[t].step = "change" => tx'[t].status = "active" /\ tx'[t].failure = "none",
         tx'[t].status = "committed" => tx'[t].step = "ended"
  PROVE  SeesMatching(t)' /\ InStep(t)'
<1>1. \A ref \in Own : tx'[t].view[ref] = Absent /\ tx'[t].log[ref] = {}
  BY DEF Resets, NoDocs, NoLog, Own
<1>2. SeesMatching(t)'
  BY <1>1, AbsentMatches DEF SeesMatching
<1>3. QED
  BY <1>2 DEF InStep, Resets

LEMMA ChangeKeepsMatch ==
  ASSUME TypeOK, MatchInv, NEW t \in Callers, Change(t)
  PROVE  SeesMatching(t)' /\ InStep(t)'
<1>1. /\ tx[t].step = "change" /\ tx[t].status = "active" /\ tx[t].failure = "none"
  BY DEF Change, MatchInv, InStep
<1>2. /\ tx[t] \in Transactions /\ Opened(t) \in Transactions
      /\ tx[t].op \in Operations /\ tx[t].ref \in References
  BY OpenedTyped DEF TypeOK, Transactions
<1>3. /\ Opened(t).view \in [References -> Docs]
      /\ Opened(t).log \in [References -> SUBSET Entries]
  BY <1>2 DEF Transactions
<1>4. InStep(t)'
  BY <1>1, ChangeEffect DEF InStep
<1>5. ASSUME NEW ref \in Own
      PROVE  IF tx[t].ref = ref
             THEN Behind(tx'[t].view[ref], tx[t].op, tx'[t].log[ref])
             ELSE Matches(tx'[t].view[ref], tx'[t].log[ref])
  <2>1. Matches(Opened(t).view[ref], Opened(t).log[ref])
    BY <1>1, OpenedMatches
  <2>2. ref \in References
    BY DEF Own
  <2>3. CASE tx[t].ref = ref
    <3>1. /\ tx[t].op = "create" => ~Found(t).stored
          /\ tx[t].op # "create" => Visible(Found(t))
      BY DEF Change, Collides, Unmatched
    <3>2. Found(t) = Opened(t).view[ref] /\ Found(t) \in Docs
      BY <1>3, <2>2, <2>3 DEF Found
    <3>3. Behind(Changed(Found(t), tx[t].op, t), tx[t].op, Opened(t).log[ref])
      BY <1>2, <1>3, <2>1, <2>2, <3>1, <3>2, ChangeMatches
    <3>4. /\ tx'[t].view[ref] = Changed(Found(t), tx[t].op, t)
          /\ tx'[t].log[ref] = Opened(t).log[ref]
      BY <1>3, <2>2, <2>3, ChangeEffect
    <3>5. QED
      BY <2>3, <3>3, <3>4
  <2>4. CASE tx[t].ref # ref
    <3>1. /\ tx'[t].view[ref] = Opened(t).view[ref]
          /\ tx'[t].log[ref] = Opened(t).log[ref]
      BY <1>3, <2>2, <2>4, ChangeEffect
    <3>2. QED
      BY <2>1, <2>4, <3>1
  <2>5. QED
    BY <2>3, <2>4
<1>6. SeesMatching(t)'
  BY <1>5, ChangeEffect DEF SeesMatching
<1>7. QED
  BY <1>4, <1>6

LEMMA AppendKeepsMatch ==
  ASSUME TypeOK, MatchInv, NEW t \in Callers, Append(t)
  PROVE  SeesMatching(t)' /\ InStep(t)'
<1>1. tx[t].step = "append" /\ tx[t].status = "active" /\ tx[t].failure = "none"
      /\ tx[t].opened
  BY DEF Append, MatchInv, InStep
<1>2. /\ tx[t].view \in [References -> Docs] /\ tx[t].op \in Operations
      /\ tx[t].log \in [References -> SUBSET Entries]
  BY DEF TypeOK, Transactions
<1>3. InStep(t)'
  BY <1>1, AppendEffect DEF InStep
<1>4. ASSUME NEW ref \in Own PROVE Matches(tx'[t].view[ref], tx'[t].log[ref])
  <2>1. ref \in References /\ tx'[t].view = tx[t].view
    BY AppendEffect DEF Own
  <2>2. CASE tx[t].ref = ref
    <3>1. Behind(tx[t].view[ref], tx[t].op, tx[t].log[ref])
      BY <1>1, <2>2 DEF MatchInv, SeesMatching
    <3>2. tx'[t].log[ref] = tx[t].log[ref] \cup {Entry(t)}
      BY <1>2, <2>1, <2>2, AppendEffect
    <3>3. Entry(t) = [version |-> tx[t].view[ref].version, operation |-> tx[t].op,
                      snapshot |-> tx[t].view[ref]]
      BY <2>2 DEF Entry
    <3>4. Matches(tx[t].view[ref], tx[t].log[ref] \cup {Entry(t)})
      BY <1>2, <2>1, <3>1, <3>3, AppendMatches
    <3>5. QED
      BY <2>1, <3>2, <3>4
  <2>3. CASE tx[t].ref # ref
    <3>1. Matches(tx[t].view[ref], tx[t].log[ref])
      BY <1>1, <2>3 DEF MatchInv, SeesMatching
    <3>2. tx'[t].log[ref] = tx[t].log[ref]
      BY <1>2, <2>1, <2>3, AppendEffect
    <3>3. QED
      BY <2>1, <3>1, <3>2
  <2>4. QED
    BY <2>2, <2>3
<1>5. SeesMatching(t)'
  BY <1>4, AppendEffect DEF SeesMatching
<1>6. QED
  BY <1>3, <1>5

\* The steps that neither start over nor write.
LEMMA OtherWorkKeepsMatch ==
  ASSUME TypeOK, MatchInv, NEW t \in Callers,
         \/ Works(t) \/ FindNothing(t) \/ Fails(t)
         \/ \E status \in {"committed", "aborted"} : EndsItself(t, status)
                                                     /\ (status = "committed" => Writes(t))
  PROVE  SeesMatching(t)' /\ InStep(t)'
<1>1. tx[t] \in Transactions /\ SeesMatching(t) /\ InStep(t)
  BY DEF TypeOK, MatchInv
<1>2. CASE Works(t)
  <2>1. /\ Keeps(t) /\ tx[t].step = "work"
        /\ tx'[t].step \in {"work", "change", "finish"}
        /\ tx'[t].step = "change" => MayRun(t)
        /\ tx'[t].wrote = tx[t].wrote /\ tx'[t].status = tx[t].status
        /\ \/ tx'[t].failure = tx[t].failure
           \/ /\ tx'[t].failure = "error" /\ tx[t].failure = "none"
              /\ ~MayRun(t)
    BY <1>2, WorkEffect DEF Works
  <2>2. SeesMatching(t)'
    BY <1>1, <2>1 DEF SeesMatching, Keeps
  <2>3. InStep(t)'
    BY <1>1, <2>1 DEF InStep, Keeps, MayRun
  <2>4. QED
    BY <2>2, <2>3
<1>3. CASE FindNothing(t)
  <2>1. tx[t].step = "change"
    BY <1>3 DEF FindNothing
  <2>2. tx[t].status = "active" /\ tx[t].failure = "none"
    BY <1>1, <2>1 DEF InStep
  <2>3. SeesMatching(t)'
    BY <1>3, <2>1, <2>2, FindNothingEffect, OpenedMatches
       DEF SeesMatching, KeepsOpened
  <2>4. InStep(t)'
    BY <1>3, <2>2, FindNothingEffect DEF InStep, KeepsOpened
  <2>5. QED
    BY <2>3, <2>4
<1>4. CASE Fails(t)
  <2>1. PICK failure \in Failures, kept \in SUBSET tx[t].wrote :
          tx[t].step \in {"change", "append"} /\ Fail(t, failure, kept)
    BY <1>4 DEF Fails
  <2>2. tx[t].status = "active"
    BY <1>1, <2>1 DEF InStep
  <2>3. QED
    BY <2>1, <2>2, FailEffect DEF SeesMatching, InStep, KeepsOpened
<1>5. ASSUME NEW status \in {"committed", "aborted"}, EndsItself(t, status),
             status = "committed" => Writes(t)
      PROVE  SeesMatching(t)' /\ InStep(t)'
  <2>1. /\ Keeps(t) /\ tx'[t].step = "work" /\ tx[t].step = "work"
        /\ tx'[t].wrote = {}
        /\ tx'[t].status = status /\ tx'[t].failure = tx[t].failure
    BY <1>5, EndItselfEffect DEF EndsItself
  <2>2. SeesMatching(t)'
    BY <1>1, <2>1 DEF SeesMatching, Keeps
  <2>3. status = "committed" => tx[t].failure = "none"
    BY <1>5 DEF Writes
  <2>4. InStep(t)'
    BY <1>1, <2>1, <2>3 DEF InStep, Keeps
  <2>5. QED
    BY <2>2, <2>4
<1>6. QED
  BY <1>2, <1>3, <1>4, <1>5

LEMMA WritesMatch ==
  ASSUME TypeOK, MatchInv, NEW t \in Callers, Writes(t), NEW ref \in Own
  PROVE  Matches(registrations'[ref], history'[ref])
<1>1. Matches(registrations[ref], history[ref]) /\ ref \in References
  BY DEF MatchInv, Own
<1>2. Matches(tx[t].view[ref], tx[t].log[ref])
  BY DEF Writes, MatchInv, SeesMatching
<1>3. QED
  BY <1>1, <1>2 DEF Writes, Committed, CommittedLog

LEMMA MatchInvKept ==
  ASSUME TypeOK, MatchInv, RepositoryStep
  PROVE  MatchInv'
<1>1. ASSUME NEW t \in Callers, Alone(t), SeesMatching(t)' /\ InStep(t)'
      PROVE  \A s \in Callers : SeesMatching(s)' /\ InStep(s)'
  <2> SUFFICES ASSUME NEW s \in Callers PROVE SeesMatching(s)' /\ InStep(s)'
    OBVIOUS
  <2>1. CASE s = t
    BY <1>1, <2>1
  <2>2. CASE s # t
    BY <1>1, <2>2, OthersStay DEF Alone, MatchInv
  <2>3. QED
    BY <2>1, <2>2
<1>2. ASSUME UNCHANGED <<registrations, history>>
      PROVE  \A ref \in Own : Matches(registrations'[ref], history'[ref])
  BY <1>2 DEF MatchInv
<1>3. ASSUME NEW t \in Callers, Begins(t) PROVE MatchInv'
  <2>1. Alone(t) /\ SeesMatching(t)' /\ InStep(t)'
    BY <1>3, StartEffect, ResetMatches DEF Begins
  <2>2. QED
    BY <1>1, <1>2, <1>3, <2>1 DEF MatchInv, Begins
<1>4. ASSUME NEW t \in Callers, Quiet,
             \/ Works(t) \/ Change(t) \/ FindNothing(t) \/ Append(t) \/ Fails(t)
             \/ EndsItself(t, "aborted")
      PROVE  MatchInv'
  <2>1. SeesMatching(t)' /\ InStep(t)'
    BY <1>4, OtherWorkKeepsMatch, ChangeKeepsMatch, AppendKeepsMatch
  <2>2. Alone(t)
    BY <1>4, WorkEffect, ChangeEffect, FindNothingEffect, AppendEffect, FailEffect,
       EndItselfEffect
       DEF Works, Fails, EndsItself
  <2>3. QED
    BY <1>1, <1>2, <1>4, <2>1, <2>2 DEF MatchInv, Quiet
<1>5. ASSUME NEW t \in Callers, CommitsItself(t) PROVE MatchInv'
  <2>1. SeesMatching(t)' /\ InStep(t)' /\ Alone(t)
    BY <1>5, OtherWorkKeepsMatch, EndItselfEffect DEF CommitsItself, EndsItself
  <2>2. QED
    BY <1>1, <1>5, <2>1, WritesMatch DEF MatchInv, CommitsItself
<1>6. ASSUME NEW t \in Callers, NEW result \in Results, NEW status \in Endings,
             Ends(t, result, status)
      PROVE  MatchInv'
  <2>1. /\ Alone(t) /\ Resets(t) /\ tx'[t].step = "ended"
    BY <1>6, EndEffect DEF Ends, EndsWith, Endings
  <2>2. SeesMatching(t)' /\ InStep(t)'
    BY <2>1, ResetMatches
  <2>3. QED
    BY <1>1, <1>2, <1>6, <2>1, <2>2, WritesMatch DEF MatchInv, Ends
<1>7. ASSUME NEW ref \in Seeds, Seed(ref) \/ DeleteSeed(ref) PROVE MatchInv'
  <2>1. UNCHANGED <<history, tx>>
    BY <1>7 DEF Seed, DeleteSeed
  <2>2. \A r \in Own : registrations'[r] = registrations[r]
    BY <1>7 DEF Seed, DeleteSeed, Own, TypeOK
  <2>3. QED
    BY <2>1, <2>2, OthersStay DEF MatchInv
<1>8. CASE UNCHANGED <<registrations, history, tx, outcome>>
  BY <1>2, <1>8, OthersStay DEF MatchInv
<1>9. QED
  BY <1>3, <1>4, <1>5, <1>6, <1>7, <1>8 DEF RepositoryStep, ActorStep

LEMMA InitMatches == Init => MatchInv
<1> SUFFICES ASSUME Init PROVE MatchInv
  OBVIOUS
<1>1. \A ref \in Own : registrations[ref] \in {Absent, Unversioned} /\ history[ref] = {}
  BY DEF Init, NoLog, Own
<1>2. ASSUME NEW t \in Callers PROVE SeesMatching(t) /\ InStep(t)
  <2>1. tx[t] = Fresh
    BY DEF Init
  <2>2. \A ref \in Own : Fresh.view[ref] = Absent /\ Fresh.log[ref] = {}
    BY DEF Fresh, NoDocs, NoLog, Own
  <2>3. SeesMatching(t)
    BY <2>1, <2>2, AbsentMatches DEF SeesMatching, Fresh
  <2>4. InStep(t)
    BY <2>1 DEF InStep, Fresh
  <2>5. QED
    BY <2>3, <2>4
<1>3. QED
  BY <1>1, <1>2, AbsentMatches DEF MatchInv

LEMMA MatchHolds == Spec => [](TypeOK /\ MatchInv)
<1>1. TypeOK /\ MatchInv /\ [Next]_vars => MatchInv'
  BY StepKinds, MatchInvKept
<1>2. QED
  BY <1>1, InitMatches, TypeCorrect, PTL DEF Spec

\* "Neither is saved without the other": whatever callers do, conflict over and
\* fail in, every registration that the seed scripts leave alone has one history
\* entry for each of its versions, those from before versions included: they
\* have none until they are changed.
THEOREM HistoryKept == Spec => []HistoryMatches
<1>1. TypeOK /\ MatchInv => HistoryMatches
  BY DEF MatchInv, Matches, Versions, HistoryMatches, Own, Absent
<1>2. QED
  BY <1>1, MatchHolds, PTL

-----------------------------------------------------------------------------
(* ToldTruly.                                                              *)

LEMMA ToldTrulyKept ==
  ASSUME TypeOK, ToldTruly, RepositoryStep
  PROVE  ToldTruly'
<1> DEFINE Told(s) ==
      tx[s].step = "ended" =>
        /\ outcome[s] \in {"done", "null"} => tx[s].failure = "none"
        /\ outcome[s] # "dead" => tx[s].failure # "transient"
<1>1. ASSUME NEW s \in Callers, tx'[s] = tx[s], outcome'[s] = outcome[s]
      PROVE  Told(s)'
  BY <1>1 DEF ToldTruly
<1>2. ASSUME NEW t \in Callers, Alone(t), Told(t)',
             \A s \in Callers \ {t} : outcome'[s] = outcome[s]
      PROVE  ToldTruly'
  BY <1>1, <1>2 DEF Alone, ToldTruly
<1>3. ASSUME NEW t \in Callers, Begins(t) PROVE ToldTruly'
  <2>1. Alone(t) /\ tx'[t].step # "ended"
    BY <1>3, StartEffect DEF Begins
  <2>2. QED
    BY <1>2, <1>3, <2>1 DEF Begins
<1>4. ASSUME NEW t \in Callers, Quiet,
             \/ Works(t) \/ Change(t) \/ FindNothing(t) \/ Append(t) \/ Fails(t)
             \/ EndsItself(t, "aborted")
      PROVE  ToldTruly'
  <2>1. Alone(t) /\ tx'[t].step # "ended"
    BY <1>4, WorkEffect, ChangeEffect, FindNothingEffect, AppendEffect, FailEffect,
       EndItselfEffect
       DEF Works, Fails, EndsItself
  <2>2. QED
    BY <1>2, <1>4, <2>1 DEF Quiet
<1>5. ASSUME NEW t \in Callers, CommitsItself(t) PROVE ToldTruly'
  <2>1. Alone(t) /\ tx'[t].step # "ended"
    BY <1>5, EndItselfEffect DEF CommitsItself, EndsItself
  <2>2. QED
    BY <1>2, <1>5, <2>1 DEF CommitsItself
<1>6. ASSUME NEW t \in Callers, NEW result \in Results, NEW status \in Endings,
             Ends(t, result, status)
      PROVE  ToldTruly'
  <2>1. /\ Alone(t) /\ tx'[t].failure = tx[t].failure
        /\ outcome' = [outcome EXCEPT ![t] = result]
    BY <1>6, EndEffect DEF Ends, EndsWith, Endings
  <2>2. /\ outcome'[t] = result
        /\ \A s \in Callers \ {t} : outcome'[s] = outcome[s]
    BY <2>1 DEF TypeOK
  <2>3. Told(t)'
    BY <1>6, <2>1, <2>2 DEF Ends, EndsWith
  <2>4. QED
    BY <1>2, <2>1, <2>2, <2>3
<1>7. CASE (\E ref \in Seeds : Seed(ref) \/ DeleteSeed(ref))
           \/ UNCHANGED <<registrations, history, tx, outcome>>
  BY <1>1, <1>7 DEF Seed, DeleteSeed, ToldTruly
<1>8. QED
  BY <1>3, <1>4, <1>5, <1>6, <1>7 DEF RepositoryStep, ActorStep

\* "A transient failure keeps its label": however the work catches or wraps
\* it, a conflict has the work run again, unless the process dies.
THEOREM ConflictsLeadToRetries == Spec => []ConflictsRetried
<1>1. Init => ToldTruly
  BY DEF Init, ToldTruly, Fresh
<1>2. TypeOK /\ ToldTruly /\ [Next]_vars => ToldTruly'
  BY StepKinds, ToldTrulyKept
<1>3. ToldTruly => ConflictsRetried
  BY DEF ToldTruly, ConflictsRetried
<1>4. QED
  BY <1>1, <1>2, <1>3, TypeCorrect, PTL DEF Spec


-----------------------------------------------------------------------------
(* MarksCommitted.                                                         *)

Seen(s, t) == Mark(tx[s].view, tx[s].log, t)

LEMMA NoMarks == \A t \in Callers : ~Mark(NoDocs, NoLog, t)
BY Constants DEF Mark, NoDocs, NoLog, Absent

\* Only a caller's own steps take its transaction back.
LEMMA CommittedStays ==
  ASSUME TypeOK, MatchInv, RepositoryStep, NEW t \in Callers,
         tx[t].status = "committed"
  PROVE  tx'[t].status = "committed"
<1>1. InStep(t)
  BY DEF MatchInv
<1>2. ASSUME NEW s \in Callers, Begins(s) PROVE Alone(s) /\ s # t
  BY <1>1, <1>2, StartEffect DEF Begins, InStep
<1>3. ASSUME NEW s \in Callers, Works(s) \/ Change(s) \/ FindNothing(s) \/ Append(s)
      PROVE  Alone(s) /\ tx'[s].status = tx[s].status
  BY <1>3, WorkEffect, ChangeEffect, FindNothingEffect, AppendEffect DEF Works
<1>4. ASSUME NEW s \in Callers, Fails(s)
      PROVE  Alone(s) /\ tx'[s].status = tx[s].status
  BY <1>4, FailEffect DEF Fails
<1>5. ASSUME NEW s \in Callers, NEW status \in {"committed", "aborted"},
             EndsItself(s, status)
      PROVE  Alone(s) /\ s # t
  BY <1>5, EndItselfEffect DEF EndsItself
<1>6. ASSUME NEW s \in Callers, NEW result \in Results, NEW status \in Endings,
             Ends(s, result, status)
      PROVE  /\ Alone(s) /\ tx'[s].status = status
             /\ tx[s].status = "committed" => status = "committed"
  BY <1>6, EndEffect DEF Ends, EndsWith, Endings
<1>7. ASSUME NEW ref \in Seeds, Seed(ref) \/ DeleteSeed(ref) PROVE UNCHANGED tx
  BY <1>7 DEF Seed, DeleteSeed
<1>8. QED
  BY <1>2, <1>3, <1>4, <1>5, <1>6, <1>7 DEF RepositoryStep, ActorStep, CommitsItself, Alone

\* A transaction sees a mark that it has seen before, or that is left behind.
LEMMA OpenedMarks ==
  ASSUME TypeOK, NEW s \in Callers, NEW t \in Callers,
         Mark(Opened(s).view, Opened(s).log, t)
  PROVE  Seen(s, t) \/ LeftBehind(t)
<1>1. CASE tx[s].opened
  BY <1>1, OpenedTyped DEF Seen
<1>2. CASE ~tx[s].opened
  BY <1>2, OpenedTyped DEF Mark, LeftBehind
<1>3. QED
  BY <1>1, <1>2

LEMMA ChangeMarks ==
  ASSUME TypeOK, NEW s \in Callers, NEW t \in Callers \ {s}, Change(s), Seen(s, t)'
  PROVE  Seen(s, t) \/ LeftBehind(t)
<1>1. /\ tx'[s].view = [Opened(s).view EXCEPT
                          ![tx[s].ref] = Changed(Found(s), tx[s].op, s)]
      /\ tx'[s].log = Opened(s).log
  BY ChangeEffect
<1>2. Opened(s).view \in [References -> Docs]
  BY OpenedTyped DEF Transactions
<1>3. Changed(Found(s), tx[s].op, s).by # t
  BY DEF Changed
<1>4. Mark(Opened(s).view, Opened(s).log, t)
  <2>1. PICK ref \in References :
          tx'[s].view[ref].by = t \/ \E e \in tx'[s].log[ref] : e.snapshot.by = t
    BY DEF Seen, Mark
  <2>2. CASE tx'[s].view[ref].by = t
    <3>1. Opened(s).view[ref].by = t
      BY <1>1, <1>2, <1>3, <2>2
    <3>2. QED
      BY <3>1 DEF Mark
  <2>3. CASE \E e \in tx'[s].log[ref] : e.snapshot.by = t
    BY <1>1, <2>3 DEF Mark
  <2>4. QED
    BY <2>1, <2>2, <2>3
<1>5. QED
  BY <1>4, OpenedMarks

LEMMA AppendMarks ==
  ASSUME TypeOK, NEW s \in Callers, NEW t \in Callers, Append(s), Seen(s, t)'
  PROVE  Seen(s, t)
<1>1. /\ tx'[s].view = tx[s].view
      /\ tx'[s].log = [tx[s].log EXCEPT ![tx[s].ref] = @ \cup {Entry(s)}]
  BY AppendEffect
<1>2. tx[s].log \in [References -> SUBSET Entries] /\ tx[s].ref \in References
  BY DEF TypeOK, Transactions
<1>3. Entry(s).snapshot = tx[s].view[tx[s].ref]
  BY DEF Entry
<1>4. PICK ref \in References :
        tx'[s].view[ref].by = t \/ \E e \in tx'[s].log[ref] : e.snapshot.by = t
  BY DEF Seen, Mark
<1>5. CASE tx'[s].view[ref].by = t
  BY <1>1, <1>5 DEF Seen, Mark
<1>6. ASSUME NEW e \in tx'[s].log[ref], e.snapshot.by = t PROVE Seen(s, t)
  <2>1. e \in tx[s].log[ref] \/ (ref = tx[s].ref /\ e = Entry(s))
    BY <1>1, <1>2
  <2>2. CASE e \in tx[s].log[ref]
    BY <1>6, <2>2 DEF Seen, Mark
  <2>3. CASE ref = tx[s].ref /\ e = Entry(s)
    BY <1>3, <1>6, <2>3 DEF Seen, Mark
  <2>4. QED
    BY <2>1, <2>2, <2>3
<1>7. QED
  BY <1>4, <1>5, <1>6

\* What a commit leaves behind was there, or was its transaction's to leave.
LEMMA CommitMarks ==
  ASSUME NEW s \in Callers, NEW t \in Callers, Writes(s), LeftBehind(t)'
  PROVE  LeftBehind(t) \/ Seen(s, t)
BY DEF Writes, Committed, CommittedLog, LeftBehind, Seen, Mark

LEMMA StepMarks ==
  ASSUME TypeOK, RepositoryStep, NEW s \in Callers, NEW t \in Callers \ {s},
         Seen(s, t)'
  PROVE  Seen(s, t) \/ LeftBehind(t)
<1>1. ASSUME tx'[s] = tx[s] PROVE Seen(s, t)
  BY <1>1 DEF Seen
<1>2. ASSUME Resets(s) PROVE FALSE
  BY <1>2, NoMarks DEF Resets, Seen
<1>3. ASSUME NEW u \in Callers, Alone(u), u # s PROVE Seen(s, t)
  BY <1>1, <1>3 DEF Alone
<1>4. ASSUME NEW u \in Callers, Begins(u) PROVE Seen(s, t)
  BY <1>2, <1>3, <1>4, StartEffect DEF Begins
<1>5. ASSUME NEW u \in Callers,
             Works(u) \/ \E status \in {"committed", "aborted"} : EndsItself(u, status)
      PROVE  Seen(s, t)
  <2>1. Alone(u) /\ Keeps(u)
    BY <1>5, WorkEffect, EndItselfEffect DEF Works, EndsItself
  <2>2. Keeps(s) => Seen(s, t)
    BY DEF Keeps, Seen
  <2>3. QED
    BY <1>3, <2>1, <2>2
<1>6. ASSUME NEW u \in Callers, FindNothing(u) \/ Fails(u)
      PROVE  Seen(s, t) \/ LeftBehind(t)
  <2>1. Alone(u) /\ KeepsOpened(u)
    BY <1>6, FindNothingEffect, FailEffect DEF Fails
  <2>2. KeepsOpened(s) => Seen(s, t) \/ LeftBehind(t)
    BY OpenedMarks DEF KeepsOpened, Seen
  <2>3. QED
    BY <1>3, <2>1, <2>2
<1>7. ASSUME NEW u \in Callers, Change(u) \/ Append(u)
      PROVE  Seen(s, t) \/ LeftBehind(t)
  <2>1. Alone(u)
    BY <1>7, ChangeEffect, AppendEffect
  <2>2. QED
    BY <1>3, <1>7, <2>1, ChangeMarks, AppendMarks
<1>8. ASSUME NEW u \in Callers, NEW result \in Results, NEW status \in Endings,
             Ends(u, result, status)
      PROVE  Seen(s, t)
  <2>1. Alone(u) /\ Resets(u)
    BY <1>8, EndEffect DEF Ends, EndsWith, Endings
  <2>2. QED
    BY <1>2, <1>3, <2>1
<1>9. ASSUME NEW ref \in Seeds, Seed(ref) \/ DeleteSeed(ref) PROVE Seen(s, t)
  BY <1>1, <1>9 DEF Seed, DeleteSeed
<1>10. QED
  BY <1>1, <1>4, <1>5, <1>6, <1>7, <1>8, <1>9 DEF RepositoryStep, ActorStep, CommitsItself

LEMMA StepLeaves ==
  ASSUME TypeOK, RepositoryStep, NEW t \in Callers, LeftBehind(t)'
  PROVE  \/ LeftBehind(t) \/ \E s \in Callers \ {t} : Seen(s, t)
         \/ tx'[t].status = "committed"
<1>1. ASSUME UNCHANGED <<registrations, history>> PROVE LeftBehind(t)
  BY <1>1 DEF LeftBehind
<1>2. ASSUME NEW s \in Callers, Writes(s), tx'[s].status = "committed"
      PROVE  \/ LeftBehind(t) \/ \E u \in Callers \ {t} : Seen(u, t)
             \/ tx'[t].status = "committed"
  BY <1>2, CommitMarks
<1>3. ASSUME NEW s \in Callers, CommitsItself(s)
      PROVE  Writes(s) /\ tx'[s].status = "committed"
  BY <1>3, EndItselfEffect DEF CommitsItself, EndsItself
<1>4. ASSUME NEW s \in Callers, NEW result \in Results, NEW status \in Endings,
             Ends(s, result, status)
      PROVE  \/ UNCHANGED <<registrations, history>>
             \/ Writes(s) /\ tx'[s].status = "committed"
  BY <1>4, EndEffect DEF Ends, EndsWith, Endings
<1>5. ASSUME NEW ref \in Seeds, Seed(ref) \/ DeleteSeed(ref) PROVE LeftBehind(t)
  <2>1. \A r \in References :
          registrations'[r] \in {registrations[r], Absent, Unversioned} /\ history'[r] = history[r]
    BY <1>5 DEF Seed, DeleteSeed, TypeOK
  <2>2. Absent.by # t /\ Unversioned.by # t
    BY Constants DEF Absent, Unversioned
  <2>3. QED
    BY <2>1, <2>2 DEF LeftBehind
<1>6. ASSUME NEW s \in Callers, Begins(s) \/ Quiet
      PROVE  UNCHANGED <<registrations, history>>
  BY <1>6 DEF Begins, Quiet
<1>7. QED
  BY <1>1, <1>2, <1>3, <1>4, <1>5, <1>6 DEF RepositoryStep, ActorStep

LEMMA MarksCommittedKept ==
  ASSUME TypeOK, MatchInv, MarksCommitted, RepositoryStep
  PROVE  MarksCommitted'
<1> SUFFICES ASSUME NEW t \in Callers,
                    LeftBehind(t)' \/ \E s \in Callers \ {t} : Seen(s, t)'
             PROVE  tx'[t].status = "committed"
  BY DEF MarksCommitted, Seen
<1>1. \/ LeftBehind(t) \/ \E s \in Callers \ {t} : Seen(s, t)
      \/ tx'[t].status = "committed"
  BY StepLeaves, StepMarks
<1>2. CASE LeftBehind(t) \/ \E s \in Callers \ {t} : Seen(s, t)
  BY <1>2, CommittedStays DEF MarksCommitted, Seen
<1>3. QED
  BY <1>1, <1>2

LEMMA InitMarks == Init => ToldTruly /\ MarksCommitted
<1> SUFFICES ASSUME Init PROVE ToldTruly /\ MarksCommitted
  OBVIOUS
<1>1. \A t \in Callers : tx[t] = Fresh
  BY DEF Init
<1>2. Fresh.view = NoDocs /\ Fresh.log = NoLog /\ Fresh.step = "idle"
  BY DEF Fresh
<1>3. ASSUME NEW t \in Callers, NEW s \in Callers
      PROVE  tx[s].step # "ended" /\ ~Mark(tx[s].view, tx[s].log, t)
  <2>1. tx[s].view = NoDocs /\ tx[s].log = NoLog /\ tx[s].step = "idle"
    BY <1>1, <1>2
  <2>2. QED
    BY <2>1, NoMarks
<1>4. \A t \in Callers : ~LeftBehind(t)
  <2>1. \A ref \in References : registrations[ref] \in {Absent, Unversioned}
                                 /\ history[ref] = {}
    BY DEF Init, NoLog
  <2>2. \A t \in Callers : Absent.by # t /\ Unversioned.by # t
    BY Constants DEF Absent, Unversioned
  <2>3. QED
    BY <2>1, <2>2 DEF LeftBehind
<1>5. QED
  BY <1>3, <1>4 DEF MarksCommitted, ToldTruly

\* "The whole transaction rolls back and withTransaction rejects, even if your
\* code caught it": nothing is left of what did not commit, not even in what
\* another transaction has read, and done is done without a failure.
THEOREM NothingHalfDone == Spec => []AllOrNothing
<1>1. /\ TypeOK /\ ToldTruly /\ [Next]_vars => ToldTruly'
      /\ TypeOK /\ MatchInv /\ MarksCommitted /\ [Next]_vars => MarksCommitted'
  BY StepKinds, ToldTrulyKept, MarksCommittedKept
<1>2. ToldTruly /\ MarksCommitted => AllOrNothing
  BY DEF ToldTruly, MarksCommitted, AllOrNothing
<1>3. QED
  BY <1>1, <1>2, InitMarks, MatchHolds, PTL DEF Spec


-----------------------------------------------------------------------------
(* WroteApart and SnapshotInv.                                             *)

LEMMA WroteApartKept ==
  ASSUME TypeOK, WroteApart, RepositoryStep
  PROVE  WroteApart'
<1>1. ASSUME NEW t \in Callers, Alone(t), tx'[t].wrote \subseteq tx[t].wrote
      PROVE  WroteApart'
  <2>1. \A s \in Callers : tx'[s].wrote \subseteq tx[s].wrote
    BY <1>1 DEF Alone
  <2>2. QED
    BY <2>1 DEF WroteApart
<1>2. ASSUME NEW t \in Callers, Begins(t) PROVE WroteApart'
  <2>1. Alone(t) /\ tx'[t].wrote = {}
    BY <1>2, StartEffect DEF Begins, Resets
  <2>2. QED
    BY <1>1, <2>1
<1>3. ASSUME NEW t \in Callers, Works(t) \/ FindNothing(t) \/ Append(t)
      PROVE  WroteApart'
  <2>1. Alone(t) /\ tx'[t].wrote = tx[t].wrote
    BY <1>3, WorkEffect, FindNothingEffect, AppendEffect DEF Works
  <2>2. QED
    BY <1>1, <2>1
<1>4. ASSUME NEW t \in Callers, Fails(t) PROVE WroteApart'
  <2>1. Alone(t) /\ tx'[t].wrote \subseteq tx[t].wrote
    BY <1>4, FailEffect DEF Fails
  <2>2. QED
    BY <1>1, <2>1
<1>5. ASSUME NEW t \in Callers, NEW status \in {"committed", "aborted"},
             EndsItself(t, status)
      PROVE  WroteApart'
  <2>1. Alone(t) /\ tx'[t].wrote = {}
    BY <1>5, EndItselfEffect DEF EndsItself
  <2>2. QED
    BY <1>1, <2>1
<1>6. ASSUME NEW t \in Callers, Change(t) PROVE WroteApart'
  <2>1. /\ Alone(t) /\ tx'[t].wrote = tx[t].wrote \cup {tx[t].ref}
        /\ \A s \in Callers \ {t} : tx[t].ref \notin tx[s].wrote
    BY <1>6, ChangeEffect DEF Change, Conflicts
  <2>2. \A s \in Callers \ {t} : tx'[s].wrote = tx[s].wrote
    BY <2>1 DEF Alone
  <2>3. QED
    BY <2>1, <2>2 DEF WroteApart
<1>7. ASSUME NEW t \in Callers, NEW result \in Results, NEW status \in Endings,
             Ends(t, result, status)
      PROVE  WroteApart'
  <2>1. Alone(t) /\ tx'[t].wrote = {}
    BY <1>7, EndEffect DEF Ends, EndsWith, Endings, Resets
  <2>2. QED
    BY <1>1, <2>1
<1>8. CASE (\E ref \in Seeds : Seed(ref) \/ DeleteSeed(ref))
           \/ UNCHANGED <<registrations, history, tx, outcome>>
  BY <1>8 DEF Seed, DeleteSeed, WroteApart
<1>9. QED
  BY <1>2, <1>3, <1>4, <1>5, <1>6, <1>7, <1>8 DEF RepositoryStep, ActorStep, CommitsItself

\* When a registration's history has grown, what it held before is what is as
\* old as the registration then was.
LEMMA GrownHistory ==
  ASSUME NEW old \in Docs, NEW before \in SUBSET Entries, Matches(old, before),
         NEW new \in Docs, NEW after \in SUBSET Entries, Matches(new, after),
         before \subseteq after
  PROVE  before = AsOf(after, old.version)
<1>1. old.version \in Nat /\ new.version \in Nat
  BY DEF Docs
<1>2. \A e \in before : e.version \in 1..old.version
  BY DEF Matches, Versions
<1>3. \A e \in after : e.version \in 1..new.version
  BY DEF Matches, Versions
<1>4. ASSUME NEW e \in after, e.version <= old.version PROVE e \in before
  <2>1. e.version \in 1..old.version
    BY <1>1, <1>3, <1>4
  <2>2. PICK d \in before : d.version = e.version
    BY <2>1 DEF Matches, Versions
  <2>3. d = e
    BY <2>2 DEF Matches, Versions
  <2>4. QED
    BY <2>3
<1>5. QED
  BY <1>1, <1>2, <1>4 DEF AsOf

\* The snapshot an operation works on: open already, or opened now.
LEMMA OpenedSnapshot ==
  ASSUME TypeOK, MatchInv, SnapshotInv, NEW t \in Callers,
         tx[t].failure = "none", tx[t].status = "active", NEW ref \in Own
  PROVE  /\ Opened(t).base[ref].version <= registrations[ref].version
         /\ ref \notin tx[t].wrote =>
              /\ Opened(t).view[ref] = Opened(t).base[ref]
              /\ Opened(t).log[ref] = AsOf(history[ref], Opened(t).base[ref].version)
         /\ ref \in tx[t].wrote =>
              /\ registrations[ref] = Opened(t).base[ref]
              /\ ~Opened(t).base[ref].deleted
              /\ Opened(t).base[ref].version < Opened(t).view[ref].version
              /\ history[ref] \subseteq Opened(t).log[ref]
              /\ Opened(t).base[ref].version = 0 =>
                   \A e \in Opened(t).log[ref] :
                     e.version = 1 =>
                       (e.operation = "create" <=> ~Opened(t).base[ref].stored)
<1>1. CASE tx[t].opened
  <2>1. Opened(t) = tx[t] /\ SnapshotOf(t, ref)
    BY <1>1, OpenedTyped DEF SnapshotInv, Live
  <2>2. QED
    BY <2>1 DEF SnapshotOf, FirstEntry
<1>2. CASE ~tx[t].opened
  <2>1. registrations[ref] \in Docs /\ history[ref] \in SUBSET Entries
    BY DEF TypeOK, Own
  <2>2. history[ref] = AsOf(history[ref], registrations[ref].version)
    BY <2>1, GrownHistory DEF MatchInv
  <2>3. registrations[ref].version <= registrations[ref].version
    BY <2>1 DEF Docs
  <2>4. tx[t].wrote = {}
    BY <1>2 DEF MatchInv, InStep
  <2>5. QED
    BY <1>2, <2>2, <2>3, <2>4, OpenedTyped
<1>3. QED
  BY <1>1, <1>2

\* A change is of a registration that nobody has changed since the snapshot.
LEMMA ChangeSnapshot ==
  ASSUME TypeOK, MatchInv, SnapshotInv, NEW t \in Callers, Change(t),
         UNCHANGED <<registrations, history>>, NEW ref \in Own
  PROVE  SnapshotOf(t, ref)'
<1>1. tx[t].step = "change" /\ tx[t].status = "active" /\ tx[t].failure = "none"
  BY DEF Change, MatchInv, InStep
<1>2. /\ Opened(t).view \in [References -> Docs]
      /\ Opened(t).base \in [References -> Docs]
      /\ Opened(t).log \in [References -> SUBSET Entries]
      /\ tx[t].op \in Operations /\ tx[t].ref \in References /\ ref \in References
  BY OpenedTyped DEF Transactions, Own
<1>3. /\ tx'[t].base = Opened(t).base /\ tx'[t].log = Opened(t).log
      /\ tx'[t].view = [Opened(t).view EXCEPT
                          ![tx[t].ref] = Changed(Found(t), tx[t].op, t)]
      /\ tx'[t].wrote = tx[t].wrote \cup {tx[t].ref}
      /\ tx'[t].ref = tx[t].ref /\ tx'[t].op = tx[t].op
  BY ChangeEffect
<1>4. CASE ref # tx[t].ref
  <2>1. tx'[t].view[ref] = Opened(t).view[ref] /\ (ref \in tx'[t].wrote <=> ref \in tx[t].wrote)
    BY <1>2, <1>3, <1>4
  <2>2. QED
    BY <1>1, <1>3, <1>4, <2>1, OpenedSnapshot DEF SnapshotOf, FirstEntry
<1>5. CASE ref = tx[t].ref
  <2> DEFINE base == Opened(t).base[ref]
             doc == Opened(t).view[ref]
             new == Changed(doc, tx[t].op, t)
             log == Opened(t).log[ref]
  <2>1. registrations[ref] = base
    BY <1>5 DEF Change, Conflicts
  <2>2. Found(t) = doc /\ doc \in Docs /\ log \in SUBSET Entries /\ base \in Docs
    BY <1>2, <1>5 DEF Found
  <2>3. Matches(doc, log)
    BY <1>1, OpenedMatches
  <2>4. /\ tx[t].op = "create" => ~doc.stored
        /\ tx[t].op # "create" => Visible(doc)
    BY <2>2 DEF Change, Collides, Unmatched
  <2>5. new.version = doc.version + 1 /\ ~doc.deleted
    BY <1>2, <2>2, <2>3, <2>4, ChangeMatches
  <2>6. doc.version < new.version
    BY <2>2, <2>5 DEF Docs
  <2>7. /\ tx'[t].view[ref] = new /\ tx'[t].base[ref] = base
        /\ tx'[t].log[ref] = log /\ ref \in tx'[t].wrote
    BY <1>2, <1>3, <1>5, <2>2
  <2>8. CASE ref \in tx[t].wrote
    <3>1. ~base.deleted /\ base.version < doc.version /\ history[ref] \subseteq log
      BY <1>1, <2>8, OpenedSnapshot
    <3>2. base.version < new.version /\ base.version <= base.version
      BY <2>2, <2>5, <3>1 DEF Docs
    <3>3. new.version # 1
      BY <2>2, <2>5, <3>1 DEF Docs
    <3>4. FirstEntry(t, ref)'
      BY <1>1, <2>7, <2>8, <3>3, OpenedSnapshot DEF FirstEntry
    <3>5. QED
      BY <2>1, <2>7, <3>1, <3>2, <3>4 DEF SnapshotOf
  <2>9. CASE ref \notin tx[t].wrote
    <3>1. doc = base /\ log = AsOf(history[ref], base.version)
      BY <1>1, <2>9, OpenedSnapshot
    <3>2. history[ref] = AsOf(history[ref], registrations[ref].version)
      BY <1>2, GrownHistory DEF MatchInv, TypeOK
    <3>3. base.version <= base.version
      BY <2>2 DEF Docs
    <3>4. tx[t].op = "create" <=> ~base.stored
      BY <2>4, <3>1 DEF Visible
    <3>5. base.version = 0 => log = {}
      BY <2>2, <2>3, <3>1 DEF Matches, Versions
    <3>6. FirstEntry(t, ref)'
      BY <1>3, <2>7, <3>4, <3>5 DEF FirstEntry
    <3>7. QED
      BY <2>1, <2>5, <2>6, <2>7, <3>1, <3>2, <3>3, <3>6 DEF SnapshotOf
  <2>10. QED
    BY <2>8, <2>9
<1>6. QED
  BY <1>4, <1>5

\* What a transaction has read stays as of its snapshot when another commits.
LEMMA CommitOfAnother ==
  ASSUME TypeOK, MatchInv, WroteApart, SnapshotInv, NEW u \in Callers, Writes(u),
         NEW t \in Callers \ {u}, tx'[t] = tx[t], Live(t), NEW ref \in Own
  PROVE  SnapshotOf(t, ref)'
<1>1. SnapshotOf(t, ref) /\ ref \in References
  BY DEF SnapshotInv, Own
<1>2. CASE ref \notin tx[u].wrote
  <2>1. registrations'[ref] = registrations[ref] /\ history'[ref] = history[ref]
    BY <1>1, <1>2 DEF Writes, Committed, CommittedLog
  <2>2. QED
    BY <1>1, <2>1 DEF SnapshotOf, FirstEntry
<1>3. CASE ref \in tx[u].wrote
  <2> DEFINE new == tx[u].view[ref]
             log == tx[u].log[ref]
             base == tx[t].base[ref]
  <2>1. registrations'[ref] = new /\ history'[ref] = log
    BY <1>1, <1>3 DEF Writes, Committed, CommittedLog
  <2>2. Live(u)
    BY <1>3 DEF Writes, MatchInv, InStep, Live
  <2>3. /\ registrations[ref].version < new.version
        /\ history[ref] \subseteq log
    BY <1>3, <2>2 DEF SnapshotInv, SnapshotOf
  <2>4. Matches(new, log) /\ Matches(registrations[ref], history[ref])
    BY DEF Writes, MatchInv, SeesMatching
  <2>5. /\ new \in Docs /\ log \in SUBSET Entries /\ base \in Docs
        /\ registrations[ref] \in Docs /\ history[ref] \in SUBSET Entries
    BY <1>1 DEF TypeOK, Transactions
  <2>6. history[ref] = AsOf(log, registrations[ref].version)
    BY <2>3, <2>4, <2>5, GrownHistory
  <2>7. base.version <= registrations[ref].version /\ ref \notin tx[t].wrote
    BY <1>1, <1>3 DEF SnapshotOf, WroteApart
  <2>8. AsOf(history[ref], base.version) = AsOf(log, base.version)
    <3>1. \A e \in log : e.version \in Nat
      BY <2>5 DEF Entries
    <3>2. registrations[ref].version \in Nat /\ base.version \in Nat
      BY <2>5 DEF Docs
    <3>3. QED
      BY <2>6, <2>7, <3>1, <3>2 DEF AsOf
  <2>9. base.version <= new.version
    BY <2>3, <2>5, <2>7 DEF Docs
  <2>10. QED
    BY <1>1, <2>1, <2>7, <2>8, <2>9 DEF SnapshotOf
<1>4. QED
  BY <1>2, <1>3


LEMMA SnapshotInvKept ==
  ASSUME TypeOK, MatchInv, WroteApart, SnapshotInv, RepositoryStep
  PROVE  SnapshotInv'
<1> SUFFICES ASSUME NEW t \in Callers, Live(t)', NEW ref \in Own
             PROVE  SnapshotOf(t, ref)'
  BY DEF SnapshotInv
<1>1. ASSUME tx'[t] = tx[t],
             registrations'[ref] = registrations[ref], history'[ref] = history[ref]
      PROVE  SnapshotOf(t, ref)'
  <2>1. SnapshotOf(t, ref)
    BY <1>1 DEF SnapshotInv, Live
  <2>2. QED
    BY <1>1, <2>1 DEF SnapshotOf, FirstEntry
<1>2. ASSUME NEW u \in Callers \ {t}, Alone(u), UNCHANGED <<registrations, history>>
      PROVE  SnapshotOf(t, ref)'
  BY <1>1, <1>2 DEF Alone
<1>3. ASSUME NEW u \in Callers \ {t}, Alone(u), Writes(u)
      PROVE  SnapshotOf(t, ref)'
  <2>1. tx'[t] = tx[t] /\ Live(t)
    BY <1>3 DEF Alone, Live
  <2>2. QED
    BY <1>3, <2>1, CommitOfAnother
<1>4. ASSUME NEW u \in Callers, Begins(u) PROVE SnapshotOf(t, ref)'
  <2>1. Alone(u) /\ Resets(u) /\ UNCHANGED <<registrations, history>>
    BY <1>4, StartEffect DEF Begins
  <2>2. u # t
    BY <2>1 DEF Resets, Live
  <2>3. QED
    BY <1>2, <2>1, <2>2
<1>5. ASSUME NEW u \in Callers, Quiet,
             \/ Works(u) \/ Change(u) \/ FindNothing(u) \/ Append(u) \/ Fails(u)
             \/ EndsItself(u, "aborted")
      PROVE  SnapshotOf(t, ref)'
  <2>1. Alone(u)
    BY <1>5, WorkEffect, ChangeEffect, FindNothingEffect, AppendEffect, FailEffect,
       EndItselfEffect
       DEF Works, Fails, EndsItself
  <2>2. CASE u # t
    BY <1>2, <1>5, <2>1, <2>2 DEF Quiet
  <2>3. CASE u = t /\ Works(t)
    <3>1. Keeps(t) /\ tx'[t].wrote = tx[t].wrote /\ tx'[t].status = tx[t].status
          /\ tx'[t].failure \in {tx[t].failure, "error"}
          /\ tx'[t].step # "append"
      BY <2>3, WorkEffect DEF Works
    <3>2. Live(t)
      BY <3>1 DEF Keeps, Live
    <3>3. QED
      BY <1>5, <3>1, <3>2 DEF SnapshotInv, SnapshotOf, FirstEntry, Keeps, Quiet
  <2>4. CASE u = t /\ Change(t)
    BY <1>5, <2>4, ChangeSnapshot DEF Quiet
  <2>5. CASE u = t /\ FindNothing(t)
    <3>1. KeepsOpened(t) /\ tx'[t].wrote = tx[t].wrote
          /\ tx'[t].status = tx[t].status /\ tx'[t].failure = tx[t].failure
          /\ tx'[t].step # "append"
      BY <2>5, FindNothingEffect
    <3>2. tx[t].status = "active" /\ tx[t].failure = "none"
      BY <3>1 DEF Live
    <3>3. QED
      BY <1>5, <3>1, <3>2, OpenedSnapshot
         DEF SnapshotOf, FirstEntry, KeepsOpened, Quiet
  <2>6. CASE u = t /\ Append(t)
    <3>1. /\ tx'[t].base = tx[t].base /\ tx'[t].view = tx[t].view
          /\ tx'[t].log = [tx[t].log EXCEPT ![tx[t].ref] = @ \cup {Entry(t)}]
          /\ tx'[t].wrote = tx[t].wrote
          /\ tx'[t].status = tx[t].status /\ tx'[t].failure = tx[t].failure
          /\ tx'[t].opened = tx[t].opened /\ tx'[t].step # "append"
      BY <2>6, AppendEffect
    <3>2. SnapshotOf(t, ref)
      BY <3>1 DEF SnapshotInv, Live
    <3>3. tx[t].ref \in tx[t].wrote
      BY <2>6 DEF Append, MatchInv, InStep
    <3>4. ref \in References /\ tx[t].log \in [References -> SUBSET Entries]
      BY DEF Own, TypeOK, Transactions
    <3>5. /\ tx[t].log[ref] \subseteq tx'[t].log[ref]
          /\ ref \notin tx[t].wrote => tx'[t].log[ref] = tx[t].log[ref]
      BY <3>1, <3>3, <3>4
    <3>6. ref \in tx[t].wrote => FirstEntry(t, ref)'
      <4>1. \A e \in tx'[t].log[ref] :
              \/ e \in tx[t].log[ref]
              \/ /\ ref = tx[t].ref /\ e.operation = tx[t].op
                 /\ e.version = tx[t].view[ref].version
        BY <3>1, <3>4 DEF Entry
      <4>2. tx[t].step = "append"
        BY <2>6 DEF Append
      <4>3. QED
        BY <3>1, <3>2, <4>1, <4>2 DEF SnapshotOf, FirstEntry
    <3>7. QED
      BY <1>5, <3>1, <3>2, <3>5, <3>6 DEF SnapshotOf, Quiet
  <2>7. CASE u = t /\ (Fails(t) \/ EndsItself(t, "aborted"))
    <3>1. tx'[t].failure # "none" \/ tx'[t].status # "active"
      BY <2>7, FailEffect, EndItselfEffect DEF Fails, EndsItself
    <3>2. QED
      BY <3>1 DEF Live
  <2>8. QED
    BY <1>5, <2>2, <2>3, <2>4, <2>5, <2>6, <2>7
<1>6. ASSUME NEW u \in Callers, CommitsItself(u) PROVE SnapshotOf(t, ref)'
  <2>1. Alone(u) /\ tx'[u].status = "committed"
    BY <1>6, EndItselfEffect DEF CommitsItself, EndsItself
  <2>2. u # t
    BY <2>1 DEF Live
  <2>3. QED
    BY <1>3, <1>6, <2>1, <2>2 DEF CommitsItself
<1>7. ASSUME NEW u \in Callers, NEW result \in Results, NEW status \in Endings,
             Ends(u, result, status)
      PROVE  SnapshotOf(t, ref)'
  <2>1. Alone(u) /\ Resets(u)
    BY <1>7, EndEffect DEF Ends, EndsWith, Endings
  <2>2. u # t
    BY <2>1 DEF Resets, Live
  <2>3. QED
    BY <1>2, <1>3, <1>7, <2>1, <2>2 DEF Ends
<1>8. ASSUME NEW r \in Seeds, Seed(r) \/ DeleteSeed(r) PROVE SnapshotOf(t, ref)'
  <2>1. UNCHANGED <<history, tx>> /\ registrations'[ref] = registrations[ref]
    BY <1>8 DEF Seed, DeleteSeed, Own, TypeOK
  <2>2. QED
    BY <1>1, <2>1
<1>9. CASE UNCHANGED <<registrations, history, tx, outcome>>
  BY <1>1, <1>9
<1>10. QED
  BY <1>4, <1>5, <1>6, <1>7, <1>8, <1>9 DEF RepositoryStep, ActorStep

LEMMA RepositoryHolds == Spec => []RepositoryInv
<1>1. Init => WroteApart /\ SnapshotInv
  BY DEF Init, Fresh, WroteApart, SnapshotInv, Live
<1>2. /\ TypeOK /\ WroteApart /\ [Next]_vars => WroteApart'
      /\ TypeOK /\ MatchInv /\ WroteApart /\ SnapshotInv /\ [Next]_vars => SnapshotInv'
  BY StepKinds, WroteApartKept, SnapshotInvKept
<1>3. QED
  BY <1>1, <1>2, MatchHolds, PTL DEF Spec, RepositoryInv

-----------------------------------------------------------------------------
(* The repository implements the log.                                      *)

\* What a commit writes is one or more versions of each registration written.
LEMMA CommitChanges ==
  ASSUME RepositoryInv, NEW t \in Callers, Writes(t), NEW ref \in tx[t].wrote \cap Own
  PROVE  Log!Changes(ref)
<1> DEFINE old == registrations[ref]
           new == tx[t].view[ref]
           before == history[ref]
           after == tx[t].log[ref]
           added == after \ before
<1>1. ref \in References /\ ref \in References \ Seeds
  BY DEF Own
<1>2. /\ old \in Docs /\ new \in Docs
      /\ before \in SUBSET Entries /\ after \in SUBSET Entries
  BY <1>1 DEF RepositoryInv, TypeOK, Transactions
<1>3. registrations'[ref] = new /\ history'[ref] = after
  BY <1>1 DEF Writes, Committed, CommittedLog
<1>4. Matches(old, before) /\ Matches(new, after)
  BY <1>1 DEF RepositoryInv, Writes, MatchInv, SeesMatching
<1>5. Live(t)
  BY DEF RepositoryInv, Writes, MatchInv, InStep, Live
<1>6. ~old.deleted /\ old.version < new.version /\ before \subseteq after
  BY <1>1, <1>5 DEF RepositoryInv, SnapshotInv, SnapshotOf
<1>7. before = AsOf(after, old.version)
  BY <1>2, <1>4, <1>6, GrownHistory
<1>8. old.version \in Nat /\ new.version \in Nat
  BY <1>2 DEF Docs
<1>9. \A e \in after : e.version \in 1..new.version
  BY <1>4 DEF Matches, Versions
<1>10. \A e \in after : e \in added <=> e.version > old.version
  BY <1>7, <1>8, <1>9 DEF AsOf
<1>11. \A e \in added : /\ e.version \in (old.version + 1)..new.version
                        /\ e.snapshot.version = e.version
                        /\ e.operation = "create" <=> e.version = 1 /\ ~old.stored
                        /\ e.snapshot.deleted <=> e.operation = "delete"
                        /\ e.operation = "delete" => e.version = new.version
  <2>1. \A e \in added : e.version \in (old.version + 1)..new.version
    BY <1>8, <1>9, <1>10
  <2>2. ASSUME NEW e \in added
        PROVE  e.operation = "create" <=> e.version = 1 /\ ~old.stored
    <3>1. e \in after /\ (e.operation = "create" => e.version = 1)
      BY <1>4 DEF Matches, Sound
    <3>2. CASE old.version = 0
      <4>1. old = tx[t].base[ref] /\ FirstEntry(t, ref)
        BY <1>1, <1>5 DEF RepositoryInv, SnapshotInv, SnapshotOf
      <4>2. QED
        BY <3>1, <3>2, <4>1 DEF FirstEntry
    <3>3. CASE old.version # 0
      <4>1. e.version # 1
        BY <1>8, <2>1, <3>3
      <4>2. QED
        BY <3>1, <4>1
    <3>4. QED
      BY <3>2, <3>3
  <2>3. QED
    BY <1>4, <2>1, <2>2 DEF Matches, Sound
<1>12. Log!Unbroken(added, old.version, new.version)
  <2>1. ASSUME NEW v \in (old.version + 1)..new.version
        PROVE  \E e \in added : e.version = v /\ \A d \in added : d.version = v => d = e
    <3>1. v \in 1..new.version /\ v > old.version
      BY <1>8
    <3>2. PICK e \in after : e.version = v
      BY <1>4, <3>1 DEF Matches, Versions
    <3>3. e \in added
      BY <1>10, <3>1, <3>2
    <3>4. \A d \in added : d.version = v => d = e
      BY <1>4, <3>2 DEF Matches, Versions
    <3>5. QED
      BY <3>2, <3>3, <3>4
  <2>2. QED
    BY <2>1 DEF Log!Unbroken
<1>13. \E e \in added : e.snapshot = new
  <2>1. new \notin {Absent, Unversioned}
    BY <1>6, <1>8 DEF Absent, Unversioned
  <2>2. PICK e \in after : e.snapshot = new /\ e.version = new.version
    BY <1>4, <2>1 DEF Matches
  <2>3. e \in added
    BY <1>6, <1>8, <1>10, <2>2
  <2>4. QED
    BY <2>2, <2>3
<1>14. new.version > old.version
  BY <1>6, <1>8
<1> HIDE DEF old, new, before, after
<1>15. /\ ~old.deleted /\ before \subseteq after /\ new.version > old.version
       /\ \A e \in added : /\ e.version \in (old.version + 1)..new.version
                           /\ e.snapshot.version = e.version
                           /\ e.operation = "create" <=> e.version = 1 /\ ~old.stored
                           /\ e.snapshot.deleted <=> e.operation = "delete"
                           /\ e.operation = "delete" => e.version = new.version
       /\ Log!Unbroken(added, old.version, new.version)
       /\ \E e \in added : e.snapshot = new
  BY <1>6, <1>11, <1>12, <1>13, <1>14
<1> USE DEF old, new, before, after
<1>16. QED
  BY <1>1, <1>3, <1>15 DEF Log!Changes


\* Every step of the repository, whatever it is part of, is one of the log or
\* changes nothing of it.
LEMMA StepMapsToLog ==
  RepositoryInv /\ RepositoryStep =>
    [Log!Next]_<<[ref \in References \ Seeds |-> registrations[ref]],
                 [ref \in References \ Seeds |-> history[ref]]>>
<1> SUFFICES ASSUME RepositoryInv, RepositoryStep
             PROVE  \/ Log!Next
                    \/ \A ref \in Own : registrations'[ref] = registrations[ref]
                                        /\ history'[ref] = history[ref]
  BY DEF Own
<1>1. ASSUME NEW t \in Callers, Writes(t) PROVE Log!Next
  <2> DEFINE changed == tx[t].wrote \cap Own
  <2>1. changed \in SUBSET (References \ Seeds)
    BY DEF Own
  <2>2. \A ref \in changed : Log!Changes(ref)
    BY <1>1, CommitChanges
  <2>3. \A ref \in (References \ Seeds) \ changed :
          registrations'[ref] = registrations[ref] /\ history'[ref] = history[ref]
    BY <1>1 DEF Writes, Committed, CommittedLog, Own
  <2>4. registrations' \in [References -> Docs] /\ Log!Docs = Docs
    BY <1>1, WritesTyped DEF RepositoryInv, Log!Docs, Docs
  <2>5. [ref \in References \ Seeds |-> registrations'[ref]]
          \in [References \ Seeds -> Log!Docs]
    BY <2>4
  <2> HIDE DEF changed
  <2>6. QED
    BY <2>1, <2>2, <2>3, <2>5 DEF Log!Next
<1>2. ASSUME NEW t \in Callers, Begins(t) \/ Quiet
      PROVE  UNCHANGED <<registrations, history>>
  BY <1>2 DEF Begins, Quiet
<1>3. ASSUME NEW ref \in Seeds, Seed(ref) \/ DeleteSeed(ref)
      PROVE  \A r \in Own : registrations'[r] = registrations[r]
                            /\ history'[r] = history[r]
  BY <1>3 DEF RepositoryInv, Seed, DeleteSeed, Own, TypeOK
<1>4. QED
  BY <1>1, <1>2, <1>3 DEF RepositoryStep, ActorStep, CommitsItself, Ends

LEMMA InitMapsToLog == Init => Log!Init
BY DEF Init, Log!Init, NoLog, Absent, Unversioned, Log!Absent, Log!Unversioned

\* The repository implements the log: however its transactions interleave,
\* fail and are retried, each takes effect at once, as whole versions in order,
\* and nothing follows a deletion.
THEOREM RepositoryImplementsLog == Spec => ImplementsLog
<1>1. RepositoryInv /\ [Next]_vars => RepositoryStep
  BY StepKinds DEF RepositoryInv
<1>2. QED
  BY <1>1, InitMapsToLog, StepMapsToLog, RepositoryHolds, PTL
     DEF Spec, ImplementsLog, Log!Spec

=============================================================================
