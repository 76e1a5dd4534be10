--------------------------- MODULE SaveRegistration ---------------------------
(***************************************************************************)
(* services/registration/registration.js on top of the audited repository: *)
(* each POST /register that the gate lets through creates one registration *)
(* under a reference drawn at random, and draws again when the reference   *)
(* turns out to be taken, a bounded number of times.                       *)
(*                                                                         *)
(* Everybody else, and the driver under each attempt, is AuditedRepository.*)
(***************************************************************************)
EXTENDS AuditedRepository

CONSTANTS
  Submissions,   \* the calls that are submissions
  MaxAttempts    \* MAX_REFERENCE_RETRIES

ASSUME SubmissionsAssumption ==
  /\ Submissions \subseteq Calls
  /\ MaxAttempts \in Nat \ {0}
  /\ {"none", "failed"} \cap References = {}   \* or they would be answers

VARIABLES
  attempts,   \* how many references each submission has tried
  answer      \* what its handler answers: the reference, or an error

saveVars == <<vars, attempts, answer>>

\* generateReference, with the service's prefix and not the seeds'.
Generated == References \ Seeds

SaveTypeOK ==
  /\ TypeOK
  /\ attempts \in [Submissions -> 0..MaxAttempts]
  /\ answer \in [Submissions -> Generated \cup {"none", "failed"}]

InitSave ==
  /\ Init
  /\ attempts = [s \in Submissions |-> 0]
  /\ answer = [s \in Submissions |-> "none"]

\* The first attempt.
Submit(s) ==
  /\ attempts[s] = 0
  /\ \E ref \in Generated : BeginCall(s, "create", ref)
  /\ attempts' = [attempts EXCEPT ![s] = 1]
  /\ UNCHANGED answer

\* Mutant: any failure is taken for a collision.
AnyFailure(s) == tx[s].step = "ended" /\ outcome[s] # "done"

\* Only the registrations' own index on reference counts as a collision.
IsReferenceCollision(s) == outcome[s] = "collision"

\* Mutant: one attempt too many.
OneMoreLeft(s) == attempts[s] <= MaxAttempts

AttemptsLeft(s) == attempts[s] < MaxAttempts

\* Another attempt, with another transaction and another reference.
TryAgain(s) ==
  /\ tx[s].step = "ended" /\ answer[s] = "none"
  /\ IsReferenceCollision(s) /\ AttemptsLeft(s)
  /\ \E ref \in Generated :
       tx' = [tx EXCEPT ![s] = Operating("create", ref)]
  /\ outcome' = [outcome EXCEPT ![s] = "none"]
  /\ attempts' = [attempts EXCEPT ![s] = @ + 1]
  /\ UNCHANGED <<registrations, history, faults, answer>>

\* Mutant: the last collision falls through to the answer.
AcceptsLastToo(s) ==
  outcome[s] = "done" \/ (outcome[s] = "collision" /\ attempts[s] = MaxAttempts)

Accepts(s) == outcome[s] = "done"

\* 201 with the reference.
Accept(s) ==
  /\ tx[s].step = "ended" /\ answer[s] = "none"
  /\ Accepts(s)
  /\ answer' = [answer EXCEPT ![s] = tx[s].ref]
  /\ UNCHANGED <<vars, attempts>>

\* 500: any other error at once, a collision after the last attempt.
GiveUp(s) ==
  /\ tx[s].step = "ended" /\ answer[s] = "none"
  /\ outcome[s] # "dead" /\ ~Accepts(s)
  /\ ~(IsReferenceCollision(s) /\ AttemptsLeft(s))
  /\ answer' = [answer EXCEPT ![s] = "failed"]
  /\ UNCHANGED <<vars, attempts>>

Save(s) == Submit(s) \/ TryAgain(s) \/ Accept(s) \/ GiveUp(s)

Others ==
  \/ \E t \in Calls \ Submissions, op \in Operations, ref \in References :
       BeginCall(t, op, ref)
  \/ \E t \in Groups : Work(t)
  \/ Scripts

NextSave ==
  \/ \E s \in Submissions : Save(s)
  \/ /\ Others \/ \E t \in Callers : Operate(t) \/ Finish(t) \/ Faulty(t)
     /\ UNCHANGED <<attempts, answer>>

\* Once submitted, and once another call has begun, each operation is answered
\* in the end and the code goes on.
FairSave ==
  /\ \A t \in Calls : WF_saveVars(/\ Operate(t) \/ Finish(t)
                                  /\ UNCHANGED <<attempts, answer>>)
  /\ \A s \in Submissions : WF_saveVars(TryAgain(s) \/ Accept(s) \/ GiveUp(s))

SpecSave == InitSave /\ [][NextSave]_saveVars /\ FairSave

-----------------------------------------------------------------------------
(* Properties.                                                             *)

CreatedBy(s) ==
  {ref \in References :
     \E e \in history[ref] : e.operation = "create" /\ e.snapshot.by = s}

\* A submission creates at most one registration, whatever it is told and
\* however often it drew, conflicted, was retried or lost its answer.
StoredOnce ==
  \A s \in Submissions : \A ref, other \in CreatedBy(s) : ref = other

\* A reference that was given to an applicant is that applicant's: it was
\* created for this submission, whatever happened to the registration since.
AcceptedIsStored ==
  \A s \in Submissions :
    answer[s] \in Generated => answer[s] \in CreatedBy(s)

\* A submission is answered, although others take its references and conflict
\* with it, unless its process dies.
SubmissionsAnswered ==
  \A s \in Submissions :
    attempts[s] > 0 ~> answer[s] # "none" \/ outcome[s] = "dead"

=============================================================================
