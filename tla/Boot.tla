--------------------------------- MODULE Boot ---------------------------------
(***************************************************************************)
(* The instances of the service, from process start to shutdown, and the   *)
(* indexes each of them makes on the one database they share (createServer,*)
(* startServer, the mongodb and pulse plugins).  The seed script, which    *)
(* also makes an index, is here with them.                                 *)
(*                                                                         *)
(* Instances boot whenever the platform says so: several at once, again    *)
(* after a failure, with new settings after a stop.  Any operation may     *)
(* fail, applied or not, and a process may die.                            *)
(***************************************************************************)
EXTENDS Access, Sequences

CONSTANTS
  Instances,
  NotDeployed, \* the settings of an instance that there is not
  Keys,        \* what documents are unique by: references, hashes, nonces
  MaxFaults    \* bound: failed operations and deaths

ASSUME BootAssumption == MaxFaults \in Nat

Create(index) == [does |-> "create", index |-> index, unique |-> FALSE]
CreateUnique(index) == [does |-> "create", index |-> index, unique |-> TRUE]
Drop(index) == [does |-> "drop", index |-> index, unique |-> FALSE]

\* Mutant: the old index is dropped before the collection is known to exist.
DropFirst ==
  <<Drop("submittedAt"), Create("lockId"), CreateUnique("reference"),
    Create("submittedAtReference"), CreateUnique("version"),
    Create("startedAt"), Create("endedAt"),
    CreateUnique("startNonce"), CreateUnique("endNonce"),
    CreateUnique("tokenHash"), Create("journeyCreatedAt"), Create("purgeAt"),
    Create("windowEndsAt")>>

\* createIndexes, in its order.
Plan ==
  <<Create("lockId"),
    CreateUnique("reference"), Create("submittedAtReference"), Drop("submittedAt"),
    CreateUnique("version"),
    Create("startedAt"), Create("endedAt"),
    CreateUnique("startNonce"), CreateUnique("endNonce"),
    CreateUnique("tokenHash"), Create("journeyCreatedAt"), Create("purgeAt"),
    Create("windowEndsAt")>>

Uniques == {"reference", "version", "startNonce", "endNonce", "tokenHash"}
OfRegistrations == {"reference", "submittedAtReference", "submittedAt"}

\* The indexes of a database that an older release has used.
OldIndexes == {"lockId", "reference", "submittedAt"}

IndexNames == {Plan[n].index : n \in 1..Len(Plan)}

\* Steps of an instance: "failed" after its own code has thrown, "crashed"
\* after an operation has failed under it or it was killed.
Booting == {"loading", "connecting", "indexing", "starting"}
Serving == {"listening", "draining"}
Phases == Booting \cup Serving \cup {"off", "failed", "crashed"}

VARIABLES
  phase, settings,
  at,        \* where each instance is in the plan, while it is indexing
  indexes,   \* the indexes there are
  stored,    \* how many documents have each key, by unique index
  seeding,   \* whether the seed script has its index and is inserting
  faults

bootVars == <<phase, settings, at, indexes, stored, seeding, faults>>

BootTypeOK ==
  /\ phase \in [Instances -> Phases]
  /\ settings \in [Instances -> Settings \cup {NotDeployed}]
  /\ \A i \in Instances : phase[i] # "off" => settings[i] \in Settings
  /\ at \in [Instances -> 1..(Len(Plan) + 1)]
  /\ indexes \subseteq IndexNames
  /\ stored \in [Uniques -> [Keys -> Nat]]
  /\ seeding \in BOOLEAN
  /\ faults \in 0..MaxFaults

InitBoot ==
  /\ phase = [i \in Instances |-> "off"]
  /\ settings = [i \in Instances |-> NotDeployed]
  /\ at = [i \in Instances |-> 1]
  /\ indexes \in {{}, OldIndexes}
  /\ stored = [u \in Uniques |-> [k \in Keys |-> 0]]
  /\ seeding = FALSE
  /\ faults = 0

-----------------------------------------------------------------------------
(* The database.                                                           *)

\* A unique index lets no second document of a key in: E11000.
Admits(u, k) == u \in indexes => stored[u][k] = 0

With(was, u, k) == [was EXCEPT ![u][k] = @ + 1]

\* A collection is there once it has an index or a document.
RegistrationsExist ==
  \/ indexes \cap OfRegistrations # {}
  \/ \E k \in Keys : stored["reference"][k] > 0

\* What an index operation answers.
IndexAnswer(op) ==
  IF op.does = "drop"
  THEN IF op.index \in indexes THEN "ok"
       ELSE IF RegistrationsExist THEN "IndexNotFound"
       ELSE "NamespaceNotFound"
  ELSE IF op.unique /\ \E k \in Keys : stored[op.index][k] > 1
       THEN "DuplicateKey" ELSE "ok"

Applied(op) ==
  IF IndexAnswer(op) # "ok" THEN indexes
  ELSE IF op.does = "drop" THEN indexes \ {op.index}
  ELSE indexes \cup {op.index}

-----------------------------------------------------------------------------
(* One instance.                                                           *)

Move(i, from, to) ==
  /\ phase[i] = from
  /\ phase' = [phase EXCEPT ![i] = to]
  /\ at' = [at EXCEPT ![i] = 1]
  /\ UNCHANGED <<stored, seeding>>

\* The platform starts an instance, with the settings of a deployment.
Deploy(i, s) ==
  /\ Move(i, "off", "loading")
  /\ settings' = [settings EXCEPT ![i] = s]
  /\ UNCHANGED <<indexes, faults>>

\* The platform starts it again, as it was.
Restart(i) ==
  /\ \E p \in {"failed", "crashed"} : Move(i, p, "loading")
  /\ UNCHANGED <<settings, indexes, faults>>

\* The modules are imported.
Load(i) ==
  /\ Move(i, "loading", IF Loads(settings[i]) THEN "connecting" ELSE "failed")
  /\ UNCHANGED <<settings, indexes, faults>>

Connect(i) ==
  /\ Move(i, "connecting", "indexing")
  /\ UNCHANGED <<settings, indexes, faults>>

\* Mutant: a missing old index is an error too.
ThrowsIfMissing(op) == IndexAnswer(op) # "ok"

\* An index that is already gone is as good as dropped.
Throws(op) ==
  IF op.does = "drop" THEN IndexAnswer(op) \notin {"ok", "IndexNotFound"}
  ELSE IndexAnswer(op) # "ok"

\* One operation of createIndexes.
IndexStep(i) ==
  /\ at[i] <= Len(Plan)
  /\ LET op == Plan[at[i]]
     IN  \/ /\ Throws(op)
            /\ Move(i, "indexing", "failed")
            /\ UNCHANGED indexes
         \/ /\ ~Throws(op) /\ phase[i] = "indexing"
            /\ at' = [at EXCEPT ![i] = @ + 1]
            /\ indexes' = Applied(op)
            /\ UNCHANGED <<phase, stored, seeding>>
  /\ UNCHANGED <<settings, faults>>

\* Mutant: createIndexes is not awaited.
NotAwaited(i) == TRUE

IndexesMade(i) == at[i] > Len(Plan)

\* The auth and router plugins.
RegisterPlugins(i) ==
  /\ IndexesMade(i)
  /\ Move(i, "indexing", IF RefusesMock(settings[i]) THEN "failed" ELSE "starting")
  /\ UNCHANGED <<settings, indexes, faults>>

Listen(i) ==
  /\ Move(i, "starting", "listening")
  /\ UNCHANGED <<settings, indexes, faults>>

BootStep(i) ==
  Load(i) \/ Connect(i) \/ IndexStep(i) \/ RegisterPlugins(i) \/ Listen(i)

\* SIGTERM: a listening instance takes no new connections and answers those
\* it has.
Stop(i) ==
  /\ Move(i, "listening", "draining")
  /\ UNCHANGED <<settings, indexes, faults>>

\* It has answered them, or ten seconds are over, and it closes the client; or
\* SIGTERM has found it booting still.
Exit(i) ==
  /\ \E p \in Booting \cup {"draining"} : Move(i, p, "off")
  /\ settings' = [settings EXCEPT ![i] = NotDeployed]
  /\ UNCHANGED <<indexes, faults>>

\* The process dies, or an operation it boots with fails: an index operation
\* that does may have been applied.
Crash(i) ==
  /\ faults < MaxFaults /\ faults' = faults + 1
  /\ \E p \in Booting \cup Serving : Move(i, p, "crashed")
  /\ \/ UNCHANGED indexes
     \/ /\ phase[i] = "indexing" /\ at[i] <= Len(Plan)
        /\ indexes' = Applied(Plan[at[i]])
  /\ UNCHANGED settings

Instance(i) ==
  \/ \E s \in Settings : Deploy(i, s)
  \/ Restart(i) \/ BootStep(i) \/ Stop(i) \/ Exit(i) \/ Crash(i)

-----------------------------------------------------------------------------
(* The seed script, run by hand at any time, before the first boot too.    *)

\* Mutant: the script relies on the service's indexes.
NoIndexes == {}

SeedIndexes == {"reference"}

StartSeed ==
  /\ ~seeding /\ seeding' = TRUE
  /\ \A k \in Keys : stored["reference"][k] <= 1
  /\ indexes' = indexes \cup SeedIndexes
  /\ UNCHANGED <<phase, settings, at, stored, faults>>

\* A reference that is taken is drawn again.
SeedOne(k) ==
  /\ seeding /\ Admits("reference", k)
  /\ stored' = With(stored, "reference", k)
  /\ UNCHANGED <<phase, settings, at, indexes, seeding, faults>>

EndSeed ==
  /\ seeding /\ seeding' = FALSE
  /\ UNCHANGED <<phase, settings, at, indexes, stored, faults>>

=============================================================================
