------------------------------- MODULE AuditLog -------------------------------
(***************************************************************************)
(* What the audited repository promises of every registration: one history *)
(* entry for each of its versions, written together with the change, in an *)
(* unbroken order, each with the registration as that change left it; and  *)
(* nothing after a deletion.  Registrations from before there were         *)
(* versions begin without any.                                             *)
(***************************************************************************)
EXTENDS Integers, FiniteSets

CONSTANTS References, Writers, Nobody

VARIABLES
  registrations,   \* the registration of each reference
  history          \* the history entries of each reference

Docs == [stored : BOOLEAN, deleted : BOOLEAN, version : Nat,
         by : Writers \cup {Nobody}]

Operations == {"create", "update", "delete"}

Entries == [version : Nat, operation : Operations, snapshot : Docs]

Absent == [stored |-> FALSE, deleted |-> FALSE, version |-> 0, by |-> Nobody]

Unversioned == [Absent EXCEPT !.stored = TRUE]

Init ==
  /\ registrations \in [References -> {Absent, Unversioned}]
  /\ history = [ref \in References |-> {}]

\* The versions from one to the next are all there, each once.
Unbroken(entries, from, to) ==
  \A v \in (from + 1)..to : \E e \in entries : 
    e.version = v /\ \A d \in entries : d.version = v => d = e

\* One registration goes through one or more versions, none after a deletion.
\* Only one that was not there is created.
Changes(ref) ==
  LET old == registrations[ref]
      new == registrations'[ref]
      added == history'[ref] \ history[ref]
  IN  /\ ~old.deleted
      /\ history[ref] \subseteq history'[ref]
      /\ new.version > old.version
      /\ \A e \in added : /\ e.version \in (old.version + 1)..new.version
                          /\ e.snapshot.version = e.version
                          /\ e.operation = "create" <=> e.version = 1 /\ ~old.stored
                          /\ e.snapshot.deleted <=> e.operation = "delete"
                          /\ e.operation = "delete" => e.version = new.version
      /\ Unbroken(added, old.version, new.version)
      /\ \E e \in added : e.snapshot = new

Next ==
  \E changed \in SUBSET References :
    /\ registrations' \in [References -> Docs]
    /\ \A ref \in changed : Changes(ref)
    /\ \A ref \in References \ changed :
         registrations'[ref] = registrations[ref] /\ history'[ref] = history[ref]

Spec == Init /\ [][Next]_<<registrations, history>>

=============================================================================
