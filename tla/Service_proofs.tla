---------------------------- MODULE Service_proofs -----------------------------
(***************************************************************************)
(* Theorems about Service, for any number of instances, any settings,      *)
(* tenants, tokens, journeys and documents, and any number of faults.      *)
(***************************************************************************)
EXTENDS Service, TLAPS

-----------------------------------------------------------------------------
(* Facts about the plan.                                                   *)

Operations ==
  [does : {"create", "drop"}, index : IndexNames, unique : BOOLEAN]

\* The plan drops one index and makes all the others; the register's first
\* index is made before.
LEMMA PlanFacts ==
  /\ Len(Plan) = 13
  /\ \A n \in 1..13 : Plan[n] \in Operations
  /\ \A n \in 1..13 : Plan[n].does = "drop" <=> Plan[n].index = "submittedAt"
  /\ \A n \in 1..13 : Plan[n].unique => Plan[n].index \in Uniques
  /\ \A n \in 1..13 : Plan[n].does = "drop" => n > 2
  /\ Plan[2].does = "create" /\ Plan[2].index = "reference"
<1>1. Len(Plan) = 13
  BY DEF Plan
<1>2. /\ Plan[1] = Create("lockId") /\ Plan[2] = CreateUnique("reference")
      /\ Plan[3] = Create("submittedAtReference") /\ Plan[4] = Drop("submittedAt")
      /\ Plan[5] = CreateUnique("version") /\ Plan[6] = Create("startedAt")
      /\ Plan[7] = Create("endedAt") /\ Plan[8] = CreateUnique("startNonce")
      /\ Plan[9] = CreateUnique("endNonce") /\ Plan[10] = CreateUnique("tokenHash")
      /\ Plan[11] = Create("journeyCreatedAt") /\ Plan[12] = Create("purgeAt")
      /\ Plan[13] = Create("windowEndsAt")
  BY DEF Plan
<1>3. \A n \in 1..13 : n \in {1,2,3,4,5,6,7,8,9,10,11,12,13}
  OBVIOUS
<1>0. \A x : Create(x).index = x /\ CreateUnique(x).index = x /\ Drop(x).index = x
  BY DEF Create, CreateUnique, Drop
<1>4. \A n \in 1..13 : \/ Plan[n] = Create(Plan[n].index)
                       \/ Plan[n] = CreateUnique(Plan[n].index)
                       \/ Plan[n] = Drop(Plan[n].index)
  BY <1>0, <1>2, <1>3
<1>5. \A n \in 1..13 : Plan[n].index \in IndexNames
  BY <1>1 DEF IndexNames
<1>6. \A n \in 1..13 : Plan[n] \in Operations
  <2>1. \A x \in IndexNames : /\ Create(x) \in Operations
                              /\ CreateUnique(x) \in Operations
                              /\ Drop(x) \in Operations
    BY DEF Operations, Create, CreateUnique, Drop
  <2>2. QED
    BY <1>4, <1>5, <2>1
<1>7. \A n \in 1..13 : /\ Plan[n].does = "drop" <=> Plan[n].index = "submittedAt"
                       /\ Plan[n].unique => Plan[n].index \in Uniques
                       /\ Plan[n].does = "drop" => n > 2
  BY <1>2, <1>3 DEF Create, CreateUnique, Drop, Uniques
<1>8. Plan[2].does = "create" /\ Plan[2].index = "reference"
  BY <1>2 DEF CreateUnique
<1>9. QED
  BY <1>1, <1>6, <1>7, <1>8

\* What every unique index is called.
LEMMA UniqueNames ==
  /\ Uniques \subseteq IndexNames \ {"submittedAt"}
  /\ OldIndexes \subseteq IndexNames
  /\ SeedIndexes \subseteq IndexNames
<1>1. \A n \in 1..13 : Plan[n].index \in IndexNames
  BY PlanFacts DEF IndexNames
<1>2. /\ Plan[1].index = "lockId" /\ Plan[2].index = "reference"
      /\ Plan[4].index = "submittedAt" /\ Plan[5].index = "version"
      /\ Plan[8].index = "startNonce" /\ Plan[9].index = "endNonce"
      /\ Plan[10].index = "tokenHash"
  BY DEF Plan, Create, CreateUnique, Drop
<1>3. QED
  BY <1>1, <1>2 DEF Uniques, OldIndexes, SeedIndexes

\* An index operation leaves a set of the plan's indexes.
LEMMA AppliedTyped ==
  ASSUME indexes \subseteq IndexNames, NEW n \in 1..13
  PROVE  Applied(Plan[n]) \subseteq IndexNames
BY PlanFacts DEF Applied, Operations

-----------------------------------------------------------------------------
(* The type invariant.                                                     *)

LEMMA InitTyped == Init => TypeOK
<1>1. SUFFICES ASSUME Init PROVE TypeOK
  OBVIOUS
<1>2. BootTypeOK
  <2>1. 1 \in 1..(Len(Plan) + 1) /\ 0 \in 0..MaxFaults
    BY PlanFacts, BootAssumption
  <2>2. QED
    BY <1>1, <2>1, UniqueNames DEF Init, InitBoot, BootTypeOK, Phases
<1>3. QED
  BY <1>1, <1>2 DEF Init, TypeOK

LEMMA MoveTyped ==
  ASSUME BootTypeOK, NEW i \in Instances, NEW p, NEW q \in Phases, Move(i, p, q)
  PROVE  /\ phase' \in [Instances -> Phases] /\ phase'[i] = q
         /\ \A j \in Instances \ {i} : phase'[j] = phase[j]
         /\ at' \in [Instances -> 1..(Len(Plan) + 1)] /\ at'[i] = 1
         /\ \A j \in Instances \ {i} : at'[j] = at[j]
         /\ stored' = stored /\ seeding' = seeding /\ phase[i] = p
<1>1. 1 \in 1..(Len(Plan) + 1)
  BY PlanFacts
<1>2. QED
  BY <1>1 DEF BootTypeOK, Move

LEMMA InstanceTyped ==
  ASSUME BootTypeOK, NEW i \in Instances, Instance(i)
  PROVE  BootTypeOK'
<1>0. Booting \cup Serving \cup {"off", "failed", "crashed"} = Phases
      /\ "off" \notin Booting \cup Serving
  BY DEF Phases, Booting, Serving
<1>1. ASSUME NEW s \in Settings, Deploy(i, s) PROVE BootTypeOK'
  <2>1. Move(i, "off", "loading") /\ "loading" \in Phases
    BY <1>1 DEF Deploy, Phases, Booting
  <2>2. QED
    BY <1>1, <2>1, MoveTyped DEF Deploy, BootTypeOK
<1>2. CASE Restart(i)
  <2>1. PICK p \in {"failed", "crashed"} : Move(i, p, "loading")
    BY <1>2 DEF Restart
  <2>2. "loading" \in Phases
    BY DEF Phases, Booting
  <2>3. QED
    BY <1>2, <2>1, <2>2, MoveTyped DEF Restart, BootTypeOK
<1>3. CASE Load(i)
  <2>1. PICK q \in {"connecting", "failed"} : Move(i, "loading", q)
    BY <1>3 DEF Load
  <2>2. q \in Phases
    BY DEF Phases, Booting
  <2>3. QED
    BY <1>3, <2>1, <2>2, MoveTyped DEF Load, BootTypeOK
<1>4. CASE Connect(i)
  <2>1. Move(i, "connecting", "indexing") /\ "indexing" \in Phases
    BY <1>4 DEF Connect, Phases, Booting
  <2>2. QED
    BY <1>4, <2>1, MoveTyped DEF Connect, BootTypeOK
<1>5. CASE IndexStep(i)
  <2>1. at[i] \in 1..13
    BY <1>5, PlanFacts DEF IndexStep, BootTypeOK
  <2>2. CASE Move(i, "indexing", "failed") /\ UNCHANGED indexes
    <3>1. "failed" \in Phases
      BY DEF Phases
    <3>2. QED
      BY <1>5, <2>2, <3>1, MoveTyped DEF IndexStep, BootTypeOK
  <2>3. CASE /\ at' = [at EXCEPT ![i] = @ + 1]
             /\ indexes' = Applied(Plan[at[i]])
             /\ UNCHANGED <<phase, stored, seeding>>
    <3>1. at[i] + 1 \in 1..(Len(Plan) + 1)
      BY <2>1, PlanFacts
    <3>2. indexes' \subseteq IndexNames
      BY <2>1, <2>3, AppliedTyped DEF BootTypeOK
    <3>3. QED
      BY <1>5, <2>3, <3>1, <3>2 DEF IndexStep, BootTypeOK
  <2>4. QED
    BY <1>5, <2>2, <2>3 DEF IndexStep
<1>6. CASE RegisterPlugins(i)
  <2>1. PICK q \in {"starting", "failed"} : Move(i, "indexing", q)
    BY <1>6 DEF RegisterPlugins
  <2>2. q \in Phases
    BY DEF Phases, Booting
  <2>3. QED
    BY <1>6, <2>1, <2>2, MoveTyped DEF RegisterPlugins, BootTypeOK
<1>7. CASE Listen(i)
  <2>1. Move(i, "starting", "listening") /\ "listening" \in Phases
    BY <1>7 DEF Listen, Phases, Serving
  <2>2. QED
    BY <1>7, <2>1, MoveTyped DEF Listen, BootTypeOK
<1>8. CASE Stop(i)
  <2>1. Move(i, "listening", "draining") /\ "draining" \in Phases
    BY <1>8 DEF Stop, Phases, Serving
  <2>2. QED
    BY <1>8, <2>1, MoveTyped DEF Stop, BootTypeOK
<1>9. CASE Exit(i)
  <2>1. PICK p \in Booting \cup {"draining"} : Move(i, p, "off")
    BY <1>9 DEF Exit
  <2>2. "off" \in Phases
    BY DEF Phases
  <2>3. QED
    BY <1>9, <2>1, <2>2, MoveTyped DEF Exit, BootTypeOK
<1>10. CASE Crash(i)
  <2>1. PICK p \in Booting \cup Serving : Move(i, p, "crashed")
    BY <1>10 DEF Crash
  <2>2. "crashed" \in Phases
    BY DEF Phases
  <2>3. faults' \in 0..MaxFaults
    BY <1>10, BootAssumption DEF Crash, BootTypeOK
  <2>4. indexes' \subseteq IndexNames
    <3>1. CASE UNCHANGED indexes
      BY <3>1 DEF BootTypeOK
    <3>2. CASE at[i] <= Len(Plan) /\ indexes' = Applied(Plan[at[i]])
      <4>1. at[i] \in 1..13
        BY <3>2, PlanFacts DEF BootTypeOK
      <4>2. QED
        BY <3>2, <4>1, AppliedTyped DEF BootTypeOK
    <3>3. QED
      BY <1>10, <3>1, <3>2 DEF Crash
  <2>5. QED
    BY <1>0, <1>10, <2>1, <2>2, <2>3, <2>4, MoveTyped DEF Crash, BootTypeOK
<1>11. QED
  BY <1>1, <1>2, <1>3, <1>4, <1>5, <1>6, <1>7, <1>8, <1>9, <1>10
     DEF Instance, BootStep

LEMMA WithTyped ==
  ASSUME NEW was \in [Uniques -> [Keys -> Nat]], NEW u \in Uniques, NEW k \in Keys
  PROVE  /\ With(was, u, k) \in [Uniques -> [Keys -> Nat]]
         /\ \A v \in Uniques, l \in Keys :
              With(was, u, k)[v][l] =
                IF v = u /\ l = k THEN was[u][k] + 1 ELSE was[v][l]
BY DEF With

\* A nonce that a token proves is one that somebody has signed with the secret.
LEMMA NonceProved ==
  ASSUME NEW t \in JourneyTokens \cup {NoToken}, NEW secret,
         VerifiedNonce(t, secret) # NoToken
  PROVE  /\ t \in JourneyTokens /\ secret # Unset /\ t.secret = secret
         /\ VerifiedNonce(t, secret) = t.nonce
         /\ t.nonce \in Nonces /\ t.nonce \in Keys
BY AccessAssumption, ServiceAssumption DEF VerifiedNonce, JourneyTokenRecords

\* What a request can be answered with.
LEMMA StatusTyped ==
  ASSUME NEW s, NEW t, NEW keys, NEW valid \in BOOLEAN, NEW found,
         NEW otherwise \in Statuses
  PROVE  /\ OfficerStatus(s, keys, t, valid) \in Statuses
         /\ BeaconStatus(s, t) \in Statuses
         /\ JourneyStatus(s, t, otherwise) \in Statuses
         /\ LinkStatus(s, t, valid) \in Statuses
         /\ CurrentStatus(s, t) \in Statuses
         /\ RegisterStatus(s, t, valid, found) \in Statuses
<1>1. \A o : JourneyStatus(s, t, o) \in {503, 401, o}
  BY DEF JourneyStatus
<1>2. {200, 201, 202, 204, 400, 401, 403, 404, 409, 410, 503} = Statuses
  BY DEF Statuses
<1>3. LinkStatus(s, t, valid) \in Statuses
  BY <1>1, <1>2 DEF LinkStatus
<1>4. RegisterStatus(s, t, valid, found) \in {400, 201, 503, 401, 403}
  BY <1>1 DEF RegisterStatus
<1>5. CurrentStatus(s, t) \in Statuses
  BY <1>1, <1>2 DEF CurrentStatus
<1>6. QED
  BY <1>1, <1>2, <1>3, <1>4, <1>5
     DEF OfficerStatus, BeaconStatus, Statuses

\* A link that works is a live one, and only a journey with a link has one.
LEMMA VerifyTyped ==
  ASSUME NEW journey \in Nonces, NEW valid \in BOOLEAN, NEW link \in LinkStates(journey)
  PROVE  /\ VerifyStatus(valid, link) \in Statuses
         /\ VerifyStatus(valid, link) = 200 => journey \in linked
<1>1. CASE ~valid
  BY <1>1 DEF VerifyStatus, Statuses
<1>2. CASE valid /\ link = "unknown"
  BY <1>2 DEF VerifyStatus, Statuses
<1>3. CASE valid /\ link = "used"
  BY <1>3 DEF VerifyStatus, Statuses
<1>4. CASE valid /\ link = "over"
  BY <1>4 DEF VerifyStatus, Statuses
<1>5. CASE valid /\ link = "live"
  BY <1>5 DEF VerifyStatus, Statuses, LinkStates
<1>6. QED
  BY <1>1, <1>2, <1>3, <1>4, <1>5 DEF LinkStates

\* A link is sent only for a journey that the token proves.
LEMMA LinkProved ==
  ASSUME NEW s, NEW t, NEW valid, LinkStatus(s, t, valid) = 202
  PROVE  VerifiedNonce(t, s.secret) # NoToken
BY DEF LinkStatus, JourneyStatus

LEMMA AnswerTyped ==
  ASSUME NEW i \in Instances, NEW route \in Routes, NEW status \in Statuses,
         NEW t \in Bearers \cup JourneyTokens \cup {NoToken},
         Answer(i, route, t, status)
  PROVE  answer' \in Answers
BY DEF Answer, Answers

\* VerifyCalls, of one journey and link.
Verifies(i, journey, valid, link) ==
  LET status == VerifyStatus(valid, link)
  IN  /\ Answer(i, "verify", NoToken, status)
      /\ verified' = IF status = 200 THEN verified \cup {journey} ELSE verified
      /\ UNCHANGED <<bootVars, published, cached, linked>>

LEMMA RequestTyped ==
  ASSUME TypeOK, NEW i \in Instances, Request(i)
  PROVE  TypeOK'
<1>0. {"officer", "beacon", "link", "verify", "current", "register"} = Routes
  BY DEF Routes
<1>1. CASE OfficerCalls(i)
  <2>1. PICK t \in Bearers \cup {NoToken}, valid \in BOOLEAN :
          \E ks \in KeySets(i, t) :
            /\ Answer(i, "officer", t, OfficerStatus(settings[i], ks, t, valid))
            /\ cached' = [cached EXCEPT ![i] = ks]
            /\ UNCHANGED <<bootVars, published, linked, verified>>
    BY <1>1 DEF OfficerCalls
  <2>a. PICK keys \in KeySets(i, t) :
          /\ Answer(i, "officer", t, OfficerStatus(settings[i], keys, t, valid))
          /\ cached' = [cached EXCEPT ![i] = keys]
          /\ UNCHANGED <<bootVars, published, linked, verified>>
    BY <2>1
  <2>2. keys \subseteq SigningKeys
    BY DEF KeySets, TypeOK
  <2>3. OfficerStatus(settings[i], keys, t, valid) \in Statuses
    BY StatusTyped DEF Statuses
  <2>4. answer' \in Answers
    BY <1>0, <2>a, <2>3, AnswerTyped
  <2>5. QED
    BY <2>a, <2>2, <2>4 DEF TypeOK, BootTypeOK, bootVars
<1>2. CASE BeaconCalls(i)
  <2>1. PICK t \in JourneyTokens \cup {NoToken}, event \in {"startNonce", "endNonce"} :
          LET nonce == VerifiedNonce(t, settings[i].secret)
          IN  /\ Answer(i, "beacon", t, BeaconStatus(settings[i], t))
              /\ StoredAs(IF nonce # NoToken /\ Admits(event, nonce)
                          THEN With(stored, event, nonce) ELSE stored)
              /\ UNCHANGED accessVars
    BY <1>2 DEF BeaconCalls
  <2>2. stored' \in [Uniques -> [Keys -> Nat]]
    <3>1. CASE VerifiedNonce(t, settings[i].secret) # NoToken
      <4>1. event \in Uniques
        BY DEF Uniques
      <4>2. VerifiedNonce(t, settings[i].secret) \in Keys
        BY <3>1, NonceProved
      <4>3. stored \in [Uniques -> [Keys -> Nat]]
        BY DEF TypeOK, BootTypeOK
      <4>4. With(stored, event, VerifiedNonce(t, settings[i].secret))
              \in [Uniques -> [Keys -> Nat]]
        BY <4>1, <4>2, <4>3, WithTyped
      <4>5. QED
        BY <2>1, <4>3, <4>4 DEF StoredAs
    <3>2. CASE VerifiedNonce(t, settings[i].secret) = NoToken
      BY <2>1, <3>2 DEF StoredAs, TypeOK, BootTypeOK
    <3>3. QED
      BY <3>1, <3>2
  <2>3. BeaconStatus(settings[i], t) \in Statuses
    BY DEF Statuses, BeaconStatus
  <2>4. answer' \in Answers
    BY <1>0, <2>1, <2>3, AnswerTyped
  <2>5. QED
    BY <2>1, <2>2, <2>4 DEF TypeOK, BootTypeOK, StoredAs, accessVars
<1>3. CASE LinkCalls(i)
  <2>1. PICK t \in JourneyTokens \cup {NoToken}, valid \in BOOLEAN, hash \in Hashes :
          LET status == LinkStatus(settings[i], t, valid)
          IN  /\ Answer(i, "link", t, status)
              /\ IF status = 202
                 THEN /\ Admits("tokenHash", hash)
                      /\ StoredAs(With(stored, "tokenHash", hash))
                      /\ linked' = linked \cup {VerifiedNonce(t, settings[i].secret)}
                 ELSE UNCHANGED <<bootVars, linked>>
              /\ UNCHANGED <<published, cached, verified>>
    BY <1>3 DEF LinkCalls
  <2>2. LinkStatus(settings[i], t, valid) \in Statuses
    BY StatusTyped DEF Statuses
  <2>3. answer' \in Answers
    BY <1>0, <2>1, <2>2, AnswerTyped
  <2>4. CASE LinkStatus(settings[i], t, valid) = 202
    <3>1. VerifiedNonce(t, settings[i].secret) \in Nonces
      BY <2>4, LinkProved, NonceProved
    <3>2. "tokenHash" \in Uniques /\ hash \in Keys
      BY ServiceAssumption DEF Uniques
    <3>3. stored' \in [Uniques -> [Keys -> Nat]]
      BY <2>1, <2>4, <3>2, WithTyped DEF StoredAs, TypeOK, BootTypeOK
    <3>4. QED
      BY <2>1, <2>3, <2>4, <3>1, <3>3 DEF StoredAs, TypeOK, BootTypeOK
  <2>5. CASE LinkStatus(settings[i], t, valid) # 202
    BY <2>1, <2>3, <2>5 DEF TypeOK, BootTypeOK, bootVars
  <2>6. QED
    BY <2>4, <2>5
<1>4. CASE VerifyCalls(i)
  <2>1. PICK journey \in Nonces, valid \in BOOLEAN :
          \E link \in LinkStates(journey) : Verifies(i, journey, valid, link)
    BY <1>4 DEF VerifyCalls, Verifies
  <2>a. PICK link \in LinkStates(journey) : Verifies(i, journey, valid, link)
    BY <2>1
  <2>2. VerifyStatus(valid, link) \in Statuses
    BY VerifyTyped
  <2>3. answer' \in Answers
    BY <1>0, <2>a, <2>2, AnswerTyped DEF Verifies
  <2>4. QED
    BY <2>a, <2>3 DEF Verifies, TypeOK, BootTypeOK, bootVars
<1>5. CASE CurrentCalls(i)
  <2>1. PICK t \in JourneyTokens \cup {NoToken} :
          /\ Answer(i, "current", t, CurrentStatus(settings[i], t))
          /\ UNCHANGED <<bootVars, accessVars>>
    BY <1>5 DEF CurrentCalls
  <2>2. CurrentStatus(settings[i], t) \in Statuses
    BY DEF Statuses, CurrentStatus, JourneyStatus
  <2>3. answer' \in Answers
    BY <1>0, <2>1, <2>2, AnswerTyped
  <2>4. QED
    BY <2>1, <2>3 DEF TypeOK, BootTypeOK, bootVars, accessVars
<1>6. CASE RegisterCalls(i)
  <2>1. PICK t \in JourneyTokens \cup {NoToken}, valid \in BOOLEAN, r \in References,
             found \in {verified, {}} :
          LET status == RegisterStatus(settings[i], t, valid, found)
          IN  /\ Answer(i, "register", t, status)
              /\ IF status = 201
                 THEN /\ Admits("reference", r) /\ Admits("version", r)
                      /\ StoredAs(With(With(stored, "reference", r), "version", r))
                 ELSE UNCHANGED bootVars
              /\ UNCHANGED accessVars
    BY <1>6 DEF RegisterCalls
  <2>2. RegisterStatus(settings[i], t, valid, found) \in Statuses
    BY StatusTyped DEF Statuses
  <2>3. answer' \in Answers
    BY <1>0, <2>1, <2>2, AnswerTyped
  <2>4. {"reference", "version"} \subseteq Uniques /\ r \in Keys
    BY ServiceAssumption DEF Uniques
  <2>5. stored \in [Uniques -> [Keys -> Nat]]
    BY DEF TypeOK, BootTypeOK
  <2>6. With(With(stored, "reference", r), "version", r) \in [Uniques -> [Keys -> Nat]]
    BY <2>4, <2>5, WithTyped
  <2>7. QED
    BY <2>1, <2>3, <2>6 DEF StoredAs, TypeOK, BootTypeOK, bootVars, accessVars
<1>7. QED
  BY <1>1, <1>2, <1>3, <1>4, <1>5, <1>6 DEF Request

LEMMA SeedTyped ==
  ASSUME TypeOK, Seed
  PROVE  TypeOK'
<1>1. CASE StartSeed
  BY <1>1, UniqueNames DEF Seed, StartSeed, TypeOK, BootTypeOK, accessVars
<1>2. CASE EndSeed
  BY <1>2 DEF Seed, EndSeed, TypeOK, BootTypeOK, accessVars
<1>3. ASSUME NEW r \in References, SeedOne(r) PROVE TypeOK'
  <2>1. "reference" \in Uniques /\ r \in Keys
    BY ServiceAssumption DEF Uniques
  <2>2. stored' \in [Uniques -> [Keys -> Nat]]
    BY <1>3, <2>1, WithTyped DEF SeedOne, TypeOK, BootTypeOK
  <2>3. QED
    BY <1>3, <2>2 DEF Seed, SeedOne, TypeOK, BootTypeOK, accessVars
<1>4. QED
  BY <1>1, <1>2, <1>3 DEF Seed

LEMMA LifecycleTyped ==
  ASSUME TypeOK, NEW i \in Instances, Lifecycle(i)
  PROVE  TypeOK'
<1>1. BootTypeOK'
  BY InstanceTyped DEF TypeOK, Lifecycle
<1>2. cached' \in [Instances -> SUBSET SigningKeys]
  BY DEF TypeOK, Lifecycle
<1>3. QED
  BY <1>1, <1>2 DEF TypeOK, Lifecycle

LEMMA RotateTyped ==
  ASSUME TypeOK, NEW t \in Tenants, Rotate(t)
  PROVE  TypeOK'
<1>1. PICK ks \in SUBSET OwnKeys[t] : published' = [published EXCEPT ![t] = ks]
  BY DEF Rotate
<1>2. ks \in SUBSET SigningKeys
  BY AccessAssumption
<1>3. published \in [Tenants -> SUBSET SigningKeys]
  BY DEF TypeOK
<1>4. published' \in [Tenants -> SUBSET SigningKeys]
  BY <1>1, <1>2, <1>3
<1>5. answer' = NoAnswer /\ UNCHANGED <<bootVars, cached, linked, verified>>
  BY DEF Rotate
<1>6. QED
  BY <1>4, <1>5 DEF TypeOK, BootTypeOK, bootVars

LEMMA StepTyped == TypeOK /\ [Next]_vars => TypeOK'
<1>1. SUFFICES ASSUME TypeOK, [Next]_vars PROVE TypeOK'
  OBVIOUS
<1>2. CASE UNCHANGED vars
  BY <1>1, <1>2 DEF vars, bootVars, accessVars, TypeOK, BootTypeOK
<1>3. QED
  BY <1>1, <1>2, LifecycleTyped, RequestTyped, SeedTyped, RotateTyped DEF Next

\* The state keeps its shape, whatever boots, stops, fails and calls.
THEOREM TypeCorrect == Spec => []TypeOK
<1>1. QED
  BY InitTyped, StepTyped, PTL DEF Spec

-----------------------------------------------------------------------------
(* The indexes and what they keep unique.                                  *)

\* An operation of the plan has had its effect.
Done(op) == IF op.does = "drop" THEN op.index \notin indexes
            ELSE op.index \in indexes

Ready == {"starting"} \cup Serving

\* An instance that is indexing has done every operation before `at`, and one
\* that is past it all of them, and nobody has undone one since.
PlanFollowed ==
  \A i \in Instances, n \in 1..13 :
    \/ phase[i] = "indexing" /\ n < at[i]
    \/ phase[i] \in Ready
    => Done(Plan[n])

SeedIndexed == seeding => "reference" \in indexes

\* All that an instance's own steps may do.
LEMMA InstanceSteps ==
  ASSUME TypeOK, NEW i \in Instances, Instance(i)
  PROVE  /\ \A j \in Instances \ {i} :
              phase'[j] = phase[j] /\ at'[j] = at[j] /\ settings'[j] = settings[j]
         /\ stored' = stored /\ seeding' = seeding
         /\ \/ indexes' = indexes
            \/ \E n \in 1..13 : indexes' = Applied(Plan[n])
         /\ phase'[i] = "indexing" =>
              \/ at'[i] = 1
              \/ /\ phase[i] = "indexing" /\ at[i] \in 1..13 /\ at'[i] = at[i] + 1
                 /\ ~Throws(Plan[at[i]]) /\ indexes' = Applied(Plan[at[i]])
         /\ phase'[i] = "starting" =>
              /\ phase[i] = "indexing" /\ at[i] > 13 /\ ~RefusesMock(settings[i])
              /\ indexes' = indexes
         /\ phase'[i] \in Serving => phase[i] \in Ready /\ indexes' = indexes
         /\ phase'[i] = "failed" =>
              \/ ~Sound(settings[i])
              \/ phase[i] = "indexing" /\ at[i] \in 1..13 /\ Throws(Plan[at[i]])
         /\ settings'[i] = settings[i] \/ phase'[i] \in {"loading", "off"}
<1> DEFINE Rest ==
      /\ phase' \in [Instances -> Phases]
      /\ \A j \in Instances \ {i} : phase'[j] = phase[j] /\ at'[j] = at[j]
      /\ stored' = stored /\ seeding' = seeding
<1>0. BootTypeOK /\ Len(Plan) = 13 /\ \A n \in 1..13 : n \in Nat
  BY PlanFacts DEF TypeOK
<1>1. ASSUME NEW p, NEW q \in Phases, Move(i, p, q)
      PROVE  Rest /\ phase[i] = p /\ phase'[i] = q /\ at'[i] = 1
  BY <1>0, <1>1, MoveTyped
<1>2. {"loading", "connecting", "indexing", "starting", "listening", "draining",
       "off", "failed", "crashed"} = Phases
  BY DEF Phases, Booting, Serving
<1>3. ASSUME NEW s \in Settings, Deploy(i, s)
      PROVE  /\ Rest /\ phase'[i] = "loading" /\ indexes' = indexes
             /\ \A j \in Instances \ {i} : settings'[j] = settings[j]
  BY <1>0, <1>1, <1>2, <1>3 DEF Deploy, BootTypeOK
<1>4. ASSUME Restart(i)
      PROVE  /\ Rest /\ phase'[i] = "loading"
             /\ indexes' = indexes /\ settings' = settings
  BY <1>1, <1>2, <1>4 DEF Restart
<1>5. ASSUME Load(i)
      PROVE  /\ Rest /\ phase'[i] \in {"connecting", "failed"}
             /\ phase'[i] = "failed" => ~Loads(settings[i])
             /\ indexes' = indexes /\ settings' = settings
  BY <1>1, <1>2, <1>5 DEF Load
<1>6. ASSUME Connect(i)
      PROVE  /\ Rest /\ phase'[i] = "indexing" /\ at'[i] = 1
             /\ indexes' = indexes /\ settings' = settings
  BY <1>1, <1>2, <1>6 DEF Connect
<1>7. ASSUME IndexStep(i)
      PROVE  /\ Rest /\ settings' = settings
             /\ phase[i] = "indexing" /\ at[i] \in 1..13
             /\ \/ /\ Throws(Plan[at[i]]) /\ phase'[i] = "failed"
                   /\ indexes' = indexes
                \/ /\ ~Throws(Plan[at[i]]) /\ phase' = phase
                   /\ at'[i] = at[i] + 1
                   /\ indexes' = Applied(Plan[at[i]])
  <2>1. at[i] \in 1..13 /\ settings' = settings
    BY <1>0, <1>7 DEF IndexStep, BootTypeOK
  <2>2. CASE Throws(Plan[at[i]]) /\ Move(i, "indexing", "failed") /\ UNCHANGED indexes
    BY <1>1, <1>2, <2>1, <2>2
  <2>3. CASE /\ ~Throws(Plan[at[i]]) /\ phase[i] = "indexing"
             /\ at' = [at EXCEPT ![i] = @ + 1]
             /\ indexes' = Applied(Plan[at[i]])
             /\ UNCHANGED <<phase, stored, seeding>>
    BY <1>0, <2>1, <2>3 DEF BootTypeOK
  <2>4. QED
    BY <1>7, <2>2, <2>3 DEF IndexStep
<1>8. ASSUME RegisterPlugins(i)
      PROVE  /\ Rest /\ phase[i] = "indexing" /\ at[i] > 13
             /\ phase'[i] \in {"starting", "failed"}
             /\ phase'[i] = "failed" <=> RefusesMock(settings[i])
             /\ indexes' = indexes /\ settings' = settings
  BY <1>0, <1>1, <1>2, <1>8 DEF RegisterPlugins, IndexesMade
<1>9. ASSUME Listen(i)
      PROVE  /\ Rest /\ phase[i] = "starting" /\ phase'[i] = "listening"
             /\ indexes' = indexes /\ settings' = settings
  BY <1>1, <1>2, <1>9 DEF Listen
<1>10. ASSUME Stop(i)
       PROVE  /\ Rest /\ phase[i] = "listening" /\ phase'[i] = "draining"
              /\ indexes' = indexes /\ settings' = settings
  BY <1>1, <1>2, <1>10 DEF Stop
<1>11. ASSUME Exit(i)
       PROVE  /\ Rest /\ phase'[i] = "off" /\ indexes' = indexes
              /\ \A j \in Instances \ {i} : settings'[j] = settings[j]
  BY <1>0, <1>1, <1>2, <1>11 DEF Exit, BootTypeOK
<1>12. ASSUME Crash(i)
       PROVE  /\ Rest /\ phase'[i] = "crashed" /\ settings' = settings
              /\ \/ indexes' = indexes
                 \/ \E n \in 1..13 : indexes' = Applied(Plan[n])
  <2>1. Rest /\ phase'[i] = "crashed"
    BY <1>1, <1>2, <1>12 DEF Crash
  <2>2. at[i] <= Len(Plan) => at[i] \in 1..13
    BY <1>0 DEF BootTypeOK
  <2>3. QED
    BY <1>12, <2>1, <2>2 DEF Crash
<1>13. CASE \E s \in Settings : Deploy(i, s)
  BY <1>3, <1>13 DEF Serving
<1>14. CASE Restart(i) \/ Load(i) \/ Connect(i)
  BY <1>4, <1>5, <1>6, <1>14 DEF Serving, Sound
<1>15. CASE IndexStep(i)
  BY <1>7, <1>15 DEF Serving
<1>16. CASE RegisterPlugins(i)
  BY <1>8, <1>16 DEF Serving, Sound
<1>17. CASE Listen(i) \/ Stop(i)
  BY <1>9, <1>10, <1>17 DEF Serving, Ready
<1>18. CASE Exit(i) \/ Crash(i)
  BY <1>11, <1>12, <1>18 DEF Serving
<1>19. QED
  BY <1>13, <1>14, <1>15, <1>16, <1>17, <1>18 DEF Instance, BootStep

\* Nobody undoes an operation of the plan: what it drops nobody makes again,
\* and what it makes nobody drops.
LEMMA NothingUndone ==
  ASSUME TypeOK, [Next]_vars, NEW n \in 1..13, Done(Plan[n])
  PROVE  Done(Plan[n])'
<1>1. Plan[n].does = "drop" <=> Plan[n].index = "submittedAt"
  BY PlanFacts
<1>2. CASE indexes' = indexes
  BY <1>2 DEF Done
<1>3. CASE \E m \in 1..13 : indexes' = Applied(Plan[m])
  <2>1. PICK m \in 1..13 : indexes' = Applied(Plan[m])
    BY <1>3
  <2>2. Plan[m].does = "drop" <=> Plan[m].index = "submittedAt"
    BY PlanFacts
  <2>3. QED
    BY <1>1, <2>1, <2>2 DEF Done, Applied
<1>4. CASE indexes' = indexes \cup {"reference"}
  BY <1>1, <1>4 DEF Done
<1>5. ASSUME NEW i \in Instances, Lifecycle(i)
      PROVE  indexes' = indexes \/ \E m \in 1..13 : indexes' = Applied(Plan[m])
  BY <1>5, InstanceSteps DEF Lifecycle
<1>6. ASSUME NEW i \in Instances, Request(i) PROVE indexes' = indexes
  BY <1>6 DEF Request, OfficerCalls, BeaconCalls, LinkCalls, VerifyCalls,
             CurrentCalls, RegisterCalls, StoredAs, bootVars
<1>7. ASSUME Seed PROVE indexes' = indexes \/ indexes' = indexes \cup {"reference"}
  BY <1>7 DEF Seed, StartSeed, SeedOne, EndSeed, SeedIndexes
<1>8. ASSUME NEW t \in Tenants, Rotate(t) PROVE indexes' = indexes
  BY <1>8 DEF Rotate, bootVars
<1>9. UNCHANGED vars => indexes' = indexes
  BY DEF vars, bootVars
<1>10. QED
  BY <1>2, <1>3, <1>4, <1>5, <1>6, <1>7, <1>8, <1>9 DEF Next

\* Requests, the seed script and Entra leave the instances where they are.
LEMMA OthersKeepPhases ==
  ASSUME \/ \E i \in Instances : Request(i)
         \/ Seed
         \/ \E t \in Tenants : Rotate(t)
         \/ UNCHANGED vars
  PROVE  UNCHANGED <<phase, at, settings>>
<1>1. ASSUME NEW i \in Instances, Request(i) PROVE UNCHANGED <<phase, at, settings>>
  BY <1>1 DEF Request, OfficerCalls, BeaconCalls, LinkCalls, VerifyCalls,
             CurrentCalls, RegisterCalls, StoredAs, bootVars
<1>2. ASSUME Seed PROVE UNCHANGED <<phase, at, settings>>
  BY <1>2 DEF Seed, StartSeed, SeedOne, EndSeed
<1>3. ASSUME NEW t \in Tenants, Rotate(t) PROVE UNCHANGED <<phase, at, settings>>
  BY <1>3 DEF Rotate, bootVars
<1>4. UNCHANGED vars => UNCHANGED <<phase, at, settings>>
  BY DEF vars, bootVars
<1>5. QED
  BY <1>1, <1>2, <1>3, <1>4

LEMMA PlanFollowedKept ==
  ASSUME TypeOK, PlanFollowed, [Next]_vars
  PROVE  PlanFollowed'
<1>1. SUFFICES ASSUME NEW j \in Instances, NEW n \in 1..13,
                      \/ phase'[j] = "indexing" /\ n < at'[j]
                      \/ phase'[j] \in Ready
               PROVE  Done(Plan[n])'
  BY DEF PlanFollowed, Ready, Serving
<1>2. CASE \/ phase[j] = "indexing" /\ n < at[j]
           \/ phase[j] \in Ready
  BY <1>2, NothingUndone DEF PlanFollowed
<1>3. CASE phase'[j] = phase[j] /\ at'[j] = at[j]
  BY <1>1, <1>2, <1>3
<1>4. CASE Lifecycle(j)
  <2>1. Instance(j)
    BY <1>4 DEF Lifecycle
  <2>2. CASE phase'[j] = "indexing"
    <3>1. CASE at'[j] = 1
      BY <1>1, <2>2, <3>1 DEF Ready, Serving
    <3>2. CASE /\ phase[j] = "indexing" /\ at[j] \in 1..13 /\ at'[j] = at[j] + 1
               /\ ~Throws(Plan[at[j]]) /\ indexes' = Applied(Plan[at[j]])
      <4>1. CASE n < at[j]
        BY <1>2, <3>2, <4>1
      <4>2. CASE n = at[j]
        <5>1. Plan[n].does \in {"create", "drop"}
          BY PlanFacts DEF Operations
        <5>2. QED
          BY <3>2, <4>2, <5>1 DEF Done, Throws, Applied, IndexAnswer
      <4>3. n <= at[j]
        BY <1>1, <2>2, <3>2 DEF Ready, Serving
      <4>4. QED
        BY <3>2, <4>1, <4>2, <4>3
    <3>3. QED
      BY <2>1, <2>2, <3>1, <3>2, InstanceSteps
  <2>3. CASE phase'[j] = "starting"
    <3>1. phase[j] = "indexing" /\ at[j] > 13
      BY <2>1, <2>3, InstanceSteps
    <3>2. at[j] \in Nat
      BY PlanFacts DEF TypeOK, BootTypeOK
    <3>3. QED
      BY <1>2, <3>1, <3>2
  <2>4. CASE phase'[j] \in Serving
    BY <1>2, <2>1, <2>4, InstanceSteps
  <2>5. QED
    BY <1>1, <2>2, <2>3, <2>4 DEF Ready
<1>5. ASSUME NEW i \in Instances, Lifecycle(i), i # j PROVE Done(Plan[n])'
  BY <1>3, <1>5, InstanceSteps DEF Lifecycle
<1>6. QED
  BY <1>3, <1>4, <1>5, OthersKeepPhases DEF Next

LEMMA SeedIndexedKept ==
  ASSUME TypeOK, SeedIndexed, [Next]_vars
  PROVE  SeedIndexed'
<1>1. CASE seeding' = seeding
  <2>1. "reference" \in indexes => "reference" \in indexes'
    <3>1. Done(Plan[2]) <=> "reference" \in indexes
      BY PlanFacts DEF Done
    <3>2. Done(Plan[2])' <=> "reference" \in indexes'
      BY PlanFacts DEF Done
    <3>3. QED
      BY <3>1, <3>2, NothingUndone
  <2>2. QED
    BY <1>1, <2>1 DEF SeedIndexed
<1>2. CASE StartSeed
  BY <1>2 DEF StartSeed, SeedIndexes, SeedIndexed
<1>3. CASE EndSeed
  BY <1>3 DEF EndSeed, SeedIndexed
<1>4. ASSUME NEW i \in Instances, Lifecycle(i) PROVE seeding' = seeding
  BY <1>4, InstanceSteps DEF Lifecycle
<1>5. ASSUME NEW i \in Instances, Request(i) PROVE seeding' = seeding
  BY <1>5 DEF Request, OfficerCalls, BeaconCalls, LinkCalls, VerifyCalls,
             CurrentCalls, RegisterCalls, StoredAs, bootVars
<1>6. ASSUME NEW r \in References, SeedOne(r) PROVE seeding' = seeding
  BY <1>6 DEF SeedOne
<1>7. ASSUME NEW t \in Tenants, Rotate(t) PROVE seeding' = seeding
  BY <1>7 DEF Rotate, bootVars
<1>8. UNCHANGED vars => seeding' = seeding
  BY DEF vars, bootVars
<1>9. QED
  BY <1>1, <1>2, <1>3, <1>4, <1>5, <1>6, <1>7, <1>8 DEF Next, Seed

\* An instance that is past the plan has exactly its indexes.
LEMMA AllIndexed ==
  ASSUME TypeOK, PlanFollowed, NEW i \in Instances, phase[i] \in Ready
  PROVE  indexes = IndexNames \ {"submittedAt"}
<1>1. \A n \in 1..13 : Done(Plan[n])
  BY DEF PlanFollowed
<1>2. \A x \in IndexNames : \E n \in 1..13 : Plan[n].index = x
  BY PlanFacts DEF IndexNames
<1>3. \A n \in 1..13 : Plan[n].does = "drop" <=> Plan[n].index = "submittedAt"
  BY PlanFacts
<1>4. Plan[4].index = "submittedAt"
  BY DEF Plan, Drop
<1>5. indexes \subseteq IndexNames
  BY DEF TypeOK, BootTypeOK
<1>6. "submittedAt" \notin indexes
  BY <1>1, <1>3, <1>4 DEF Done
<1>7. \A x \in IndexNames \ {"submittedAt"} : x \in indexes
  BY <1>1, <1>2, <1>3 DEF Done
<1>8. QED
  BY <1>5, <1>6, <1>7

\* A unique index in place lets a key in once.
LEMMA AdmittedOnce ==
  ASSUME NEW u \in Uniques, NEW k \in Keys, u \in indexes,
         stored \in [Uniques -> [Keys -> Nat]], Admits(u, k),
         \A v \in Uniques, l \in Keys : stored[v][l] <= 1
  PROVE  \A v \in Uniques, l \in Keys : With(stored, u, k)[v][l] <= 1
<1>1. stored[u][k] = 0
  BY DEF Admits
<1>2. \A v \in Uniques, l \in Keys :
        With(stored, u, k)[v][l] =
          IF v = u /\ l = k THEN stored[u][k] + 1 ELSE stored[v][l]
  BY WithTyped
<1>3. QED
  BY <1>1, <1>2

LEMMA KeysUniqueKept ==
  ASSUME TypeOK, PlanFollowed, SeedIndexed, KeysUnique, [Next]_vars
  PROVE  KeysUnique'
<1>0. stored \in [Uniques -> [Keys -> Nat]]
  BY DEF TypeOK, BootTypeOK
<1>1. CASE stored' = stored
  BY <1>1 DEF KeysUnique
<1>2. ASSUME NEW i \in Instances, phase[i] \in Serving
      PROVE  Uniques \subseteq indexes
  BY <1>2, AllIndexed, UniqueNames DEF Ready
<1>3. ASSUME NEW i \in Instances, Request(i), BeaconCalls(i) PROVE KeysUnique'
  <2>1. PICK t \in JourneyTokens \cup {NoToken}, event \in {"startNonce", "endNonce"} :
          StoredAs(IF /\ VerifiedNonce(t, settings[i].secret) # NoToken
                      /\ Admits(event, VerifiedNonce(t, settings[i].secret))
                   THEN With(stored, event, VerifiedNonce(t, settings[i].secret))
                   ELSE stored)
    BY <1>3 DEF BeaconCalls
  <2>2. event \in Uniques
    BY DEF Uniques
  <2>3. CASE /\ VerifiedNonce(t, settings[i].secret) # NoToken
             /\ Admits(event, VerifiedNonce(t, settings[i].secret))
    <3>1. VerifiedNonce(t, settings[i].secret) \in Keys
      BY <2>3, NonceProved
    <3>2. event \in indexes
      BY <1>2, <1>3, <2>2 DEF Request
    <3>3. stored' = With(stored, event, VerifiedNonce(t, settings[i].secret))
      BY <2>1, <2>3 DEF StoredAs
    <3>4. QED
      BY <1>0, <2>2, <2>3, <3>1, <3>2, <3>3, AdmittedOnce DEF KeysUnique
  <2>4. CASE ~ /\ VerifiedNonce(t, settings[i].secret) # NoToken
               /\ Admits(event, VerifiedNonce(t, settings[i].secret))
    BY <1>1, <2>1, <2>4 DEF StoredAs
  <2>5. QED
    BY <2>3, <2>4
<1>4. ASSUME NEW i \in Instances, Request(i), LinkCalls(i) PROVE KeysUnique'
  <2>1. PICK hash \in Hashes :
          \/ Admits("tokenHash", hash) /\ stored' = With(stored, "tokenHash", hash)
          \/ stored' = stored
    BY <1>4 DEF LinkCalls, StoredAs, bootVars
  <2>2. "tokenHash" \in Uniques /\ hash \in Keys
    BY ServiceAssumption DEF Uniques
  <2>3. "tokenHash" \in indexes
    BY <1>2, <1>4, <2>2 DEF Request
  <2>4. QED
    BY <1>0, <1>1, <2>1, <2>2, <2>3, AdmittedOnce DEF KeysUnique
<1>5. ASSUME NEW i \in Instances, Request(i), RegisterCalls(i) PROVE KeysUnique'
  <2>1. PICK r \in References :
          \/ /\ Admits("reference", r) /\ Admits("version", r)
             /\ stored' = With(With(stored, "reference", r), "version", r)
          \/ stored' = stored
    BY <1>5 DEF RegisterCalls, StoredAs, bootVars
  <2>2. "reference" \in Uniques /\ "version" \in Uniques /\ r \in Keys
    BY ServiceAssumption DEF Uniques
  <2>3. "reference" \in indexes /\ "version" \in indexes
    BY <1>2, <1>5, <2>2 DEF Request
  <2>4. CASE /\ Admits("reference", r) /\ Admits("version", r)
             /\ stored' = With(With(stored, "reference", r), "version", r)
    <3>1. stored["reference"][r] = 0 /\ stored["version"][r] = 0
      BY <2>3, <2>4 DEF Admits
    <3>2. PICK was : was = With(stored, "reference", r)
      OBVIOUS
    <3>3. /\ was \in [Uniques -> [Keys -> Nat]]
          /\ \A v \in Uniques, l \in Keys :
               was[v][l] = IF v = "reference" /\ l = r THEN stored["reference"][r] + 1
                           ELSE stored[v][l]
      BY <1>0, <2>2, <3>2, WithTyped
    <3>4. \A v \in Uniques, l \in Keys :
            With(was, "version", r)[v][l] =
              IF v = "version" /\ l = r THEN was["version"][r] + 1 ELSE was[v][l]
      BY <2>2, <3>3, WithTyped
    <3>5. was["version"][r] = 0
      BY <2>2, <3>1, <3>3
    <3>6. \A v \in Uniques, l \in Keys : With(was, "version", r)[v][l] <= 1
      BY <3>1, <3>3, <3>4, <3>5 DEF KeysUnique
    <3>7. QED
      BY <2>4, <3>2, <3>6 DEF KeysUnique
  <2>5. QED
    BY <1>1, <2>1, <2>4
<1>6. ASSUME Seed PROVE KeysUnique'
  <2>1. ASSUME NEW r \in References, SeedOne(r) PROVE KeysUnique'
    <3>1. "reference" \in Uniques /\ r \in Keys /\ "reference" \in indexes
      BY <2>1, ServiceAssumption DEF Uniques, SeedOne, SeedIndexed
    <3>2. QED
      BY <1>0, <2>1, <3>1, AdmittedOnce DEF SeedOne, KeysUnique
  <2>2. QED
    BY <1>1, <1>6, <2>1 DEF Seed, StartSeed, EndSeed
<1>7. ASSUME NEW i \in Instances, OfficerCalls(i) \/ VerifyCalls(i) \/ CurrentCalls(i)
      PROVE  stored' = stored
  BY <1>7 DEF OfficerCalls, VerifyCalls, CurrentCalls, bootVars
<1>8. ASSUME NEW i \in Instances, Lifecycle(i) PROVE stored' = stored
  BY <1>8, InstanceSteps DEF Lifecycle
<1>9. ASSUME NEW t \in Tenants, Rotate(t) PROVE stored' = stored
  BY <1>9 DEF Rotate, bootVars
<1>10. UNCHANGED vars => stored' = stored
  BY DEF vars, bootVars
<1>11. QED
  BY <1>1, <1>3, <1>4, <1>5, <1>6, <1>7, <1>8, <1>9, <1>10 DEF Next, Request

\* No operation of the plan throws: the keys are unique, and the register's
\* collection is there by the time the old index is dropped.
LEMMA PlanNeverThrows ==
  ASSUME TypeOK, PlanFollowed, KeysUnique,
         NEW i \in Instances, phase[i] = "indexing", at[i] \in 1..13
  PROVE  ~Throws(Plan[at[i]])
<1>1. CASE Plan[at[i]].does = "drop"
  <2>1. at[i] > 2
    BY <1>1, PlanFacts
  <2>2. Done(Plan[2])
    BY <2>1 DEF PlanFollowed
  <2>3. "reference" \in indexes
    BY <2>2, PlanFacts DEF Done
  <2>4. RegistrationsExist
    BY <2>3 DEF RegistrationsExist, OfRegistrations
  <2>5. QED
    BY <1>1, <2>4 DEF Throws, IndexAnswer
<1>2. CASE Plan[at[i]].does # "drop"
  <2>1. Plan[at[i]].unique => Plan[at[i]].index \in Uniques
    BY PlanFacts
  <2>2. \A u \in Uniques, k \in Keys : ~(stored[u][k] > 1)
    BY DEF KeysUnique, TypeOK, BootTypeOK
  <2>3. QED
    BY <1>2, <2>1, <2>2 DEF Throws, IndexAnswer
<1>3. QED
  BY <1>1, <1>2

LEMMA BootFailsForCauseKept ==
  ASSUME TypeOK, PlanFollowed, KeysUnique, BootFailsForCause, [Next]_vars
  PROVE  BootFailsForCause'
<1>1. SUFFICES ASSUME NEW j \in Instances, phase'[j] = "failed"
               PROVE  ~Sound(settings'[j])
  BY DEF BootFailsForCause
<1>2. CASE phase'[j] = phase[j] /\ settings'[j] = settings[j]
  BY <1>1, <1>2 DEF BootFailsForCause
<1>3. CASE Lifecycle(j)
  <2>1. settings'[j] = settings[j]
    BY <1>1, <1>3, InstanceSteps DEF Lifecycle
  <2>2. ~Sound(settings[j])
    BY <1>1, <1>3, InstanceSteps, PlanNeverThrows DEF Lifecycle
  <2>3. QED
    BY <2>1, <2>2
<1>4. ASSUME NEW i \in Instances, Lifecycle(i), i # j PROVE ~Sound(settings'[j])
  BY <1>2, <1>4, InstanceSteps DEF Lifecycle
<1>5. QED
  BY <1>2, <1>3, <1>4, OthersKeepPhases DEF Next

IndexInv ==
  TypeOK /\ PlanFollowed /\ SeedIndexed /\ KeysUnique /\ BootFailsForCause

LEMMA IndexInvInvariant == Spec => []IndexInv
<1>1. Init => IndexInv
  <2>1. SUFFICES ASSUME Init PROVE IndexInv
    OBVIOUS
  <2>2. InitBoot /\ \A i \in Instances : phase[i] = "off"
    BY <2>1 DEF Init, InitBoot
  <2>3. PlanFollowed /\ BootFailsForCause
    BY <2>2 DEF PlanFollowed, Ready, Serving, BootFailsForCause
  <2>4. SeedIndexed /\ KeysUnique
    BY <2>2 DEF InitBoot, SeedIndexed, KeysUnique
  <2>5. QED
    BY <2>1, <2>3, <2>4, InitTyped DEF IndexInv
<1>2. IndexInv /\ [Next]_vars => IndexInv'
  BY StepTyped, PlanFollowedKept, SeedIndexedKept, KeysUniqueKept,
     BootFailsForCauseKept DEF IndexInv
<1>3. QED
  BY <1>1, <1>2, PTL DEF Spec

\* ListensIndexed: whoever listens has all the indexes, for any number of
\* instances that boot, fail and start over at once.
THEOREM IndexedBeforeListening == Spec => []ListensIndexed
<1>1. IndexInv => ListensIndexed
  BY AllIndexed DEF IndexInv, ListensIndexed, Ready
<1>2. QED
  BY <1>1, IndexInvInvariant, PTL

\* KeysUnique: nothing is ever stored twice, for any number of instances and
\* documents, the seeds included.
THEOREM NothingStoredTwice == Spec => []KeysUnique
<1>1. IndexInv => KeysUnique
  BY DEF IndexInv
<1>2. QED
  BY <1>1, IndexInvInvariant, PTL

\* BootFailsForCause: only its settings can make an instance throw.
THEOREM ThrowsForItsSettings == Spec => []BootFailsForCause
<1>1. IndexInv => BootFailsForCause
  BY DEF IndexInv
<1>2. QED
  BY <1>1, IndexInvInvariant, PTL

-----------------------------------------------------------------------------
(* Who is served.                                                          *)

OwnKeysOf(s) == IF JwksUri(s) \in Tenants THEN OwnKeys[JwksUri(s)] ELSE {}

NoMockReady ==
  \A i \in Instances : phase[i] \in Ready => ~RefusesMock(settings[i])

\* Only a serving instance has keys, and they are its tenant's.
KeysOwn ==
  /\ \A t \in Tenants : published[t] \subseteq OwnKeys[t]
  /\ \A i \in Instances : cached[i] # {} =>
       phase[i] \in Serving /\ cached[i] \subseteq OwnKeysOf(settings[i])

LEMMA NoMockReadyKept ==
  ASSUME TypeOK, NoMockReady, [Next]_vars
  PROVE  NoMockReady'
<1>1. SUFFICES ASSUME NEW j \in Instances, phase'[j] \in Ready
               PROVE  ~RefusesMock(settings'[j])
  BY DEF NoMockReady, Ready, Serving
<1>2. CASE phase'[j] = phase[j] /\ settings'[j] = settings[j]
  BY <1>1, <1>2 DEF NoMockReady
<1>3. CASE Lifecycle(j)
  <2>1. settings'[j] = settings[j]
    BY <1>1, <1>3, InstanceSteps DEF Lifecycle, Ready, Serving
  <2>2. phase[j] \in Ready \/ ~RefusesMock(settings[j])
    BY <1>1, <1>3, InstanceSteps DEF Lifecycle, Ready
  <2>3. QED
    BY <2>1, <2>2 DEF NoMockReady
<1>4. ASSUME NEW i \in Instances, Lifecycle(i), i # j PROVE ~RefusesMock(settings'[j])
  BY <1>2, <1>4, InstanceSteps DEF Lifecycle
<1>5. QED
  BY <1>2, <1>3, <1>4, OthersKeepPhases DEF Next

\* What an instance may take a token's key from are its tenant's keys.
LEMMA KeySetsOwn ==
  ASSUME KeysOwn, NEW i \in Instances, NEW t, NEW keys \in KeySets(i, t)
  PROVE  keys \subseteq OwnKeysOf(settings[i])
<1>1. cached[i] \subseteq OwnKeysOf(settings[i])
  BY DEF KeysOwn
<1>2. QED
  BY <1>1 DEF KeysOwn, KeySets, OwnKeysOf

LEMMA KeysOwnKept ==
  ASSUME TypeOK, KeysOwn, [Next]_vars
  PROVE  KeysOwn'
<1>0. cached \in [Instances -> SUBSET SigningKeys]
  BY DEF TypeOK
<1>1. CASE published' = published /\ UNCHANGED <<cached, phase, settings>>
  BY <1>1 DEF KeysOwn, OwnKeysOf
<1>2. ASSUME NEW i \in Instances, Lifecycle(i) PROVE KeysOwn'
  <2>1. ASSUME NEW j \in Instances, cached'[j] # {}
        PROVE  phase'[j] \in Serving /\ cached'[j] \subseteq OwnKeysOf(settings'[j])
    <3>1. CASE j # i
      BY <1>0, <1>2, <2>1, <3>1, InstanceSteps DEF Lifecycle, KeysOwn
    <3>2. CASE j = i
      <4>1. phase'[i] \in Serving /\ cached' = cached
        BY <1>0, <1>2, <2>1, <3>2 DEF Lifecycle
      <4>2. settings'[i] = settings[i]
        BY <1>2, <4>1, InstanceSteps DEF Lifecycle, Serving
      <4>3. QED
        BY <2>1, <3>2, <4>1, <4>2 DEF KeysOwn
    <3>3. QED
      BY <3>1, <3>2
  <2>2. published' = published
    BY <1>2 DEF Lifecycle
  <2>3. QED
    BY <2>1, <2>2 DEF KeysOwn, OwnKeysOf, Serving
<1>3. ASSUME NEW i \in Instances, Request(i), OfficerCalls(i) PROVE KeysOwn'
  <2>0. PICK t \in Bearers \cup {NoToken} :
          \E keys \in KeySets(i, t) : cached' = [cached EXCEPT ![i] = keys]
    BY <1>3 DEF OfficerCalls
  <2>1. PICK keys \in KeySets(i, t) : cached' = [cached EXCEPT ![i] = keys]
    BY <2>0
  <2>2. keys \subseteq OwnKeysOf(settings[i])
    BY <2>1, KeySetsOwn
  <2>3. UNCHANGED <<phase, settings, published>>
    BY <1>3 DEF OfficerCalls, bootVars
  <2>4. phase[i] \in Serving
    BY <1>3 DEF Request
  <2>5. ASSUME NEW j \in Instances, cached'[j] # {}
        PROVE  phase[j] \in Serving /\ cached'[j] \subseteq OwnKeysOf(settings[j])
    BY <1>0, <2>1, <2>2, <2>4, <2>5 DEF KeysOwn
  <2>6. QED
    BY <2>3, <2>5 DEF KeysOwn, OwnKeysOf
<1>4. ASSUME NEW i \in Instances, Request(i), ~OfficerCalls(i)
      PROVE  published' = published /\ UNCHANGED <<cached, phase, settings>>
  BY <1>4 DEF Request, BeaconCalls, LinkCalls, VerifyCalls, CurrentCalls,
             RegisterCalls, StoredAs, bootVars, accessVars
<1>5. ASSUME Seed PROVE published' = published /\ UNCHANGED <<cached, phase, settings>>
  BY <1>5 DEF Seed, StartSeed, SeedOne, EndSeed, accessVars
<1>6. ASSUME NEW t \in Tenants, Rotate(t) PROVE KeysOwn'
  <2>1. PICK ks \in SUBSET OwnKeys[t] : published' = [published EXCEPT ![t] = ks]
    BY <1>6 DEF Rotate
  <2>2. UNCHANGED <<cached, phase, settings>>
    BY <1>6 DEF Rotate, bootVars
  <2>3. published \in [Tenants -> SUBSET SigningKeys]
    BY DEF TypeOK
  <2>4. \A u \in Tenants : published'[u] \subseteq OwnKeys[u]
    BY <2>1, <2>3 DEF KeysOwn
  <2>5. QED
    BY <2>2, <2>4 DEF KeysOwn, OwnKeysOf
<1>7. UNCHANGED vars => published' = published /\ UNCHANGED <<cached, phase, settings>>
  BY DEF vars, bootVars, accessVars
<1>8. QED
  BY <1>1, <1>2, <1>3, <1>4, <1>5, <1>6, <1>7 DEF Next

\* Of an officer who is served the code has checked everything, except on a
\* developer's machine.
LEMMA ServedIsVouched ==
  ASSUME TypeOK, NoMockReady, KeysOwn, NEW i \in Instances, phase[i] \in Serving,
         NEW t \in Bearers \cup {NoToken}, NEW valid \in BOOLEAN,
         NEW keys \in KeySets(i, t),
         OfficerStatus(settings[i], keys, t, valid) = 200
  PROVE  settings[i].local \/ Vouched(settings[i], t)
<1>1. SUFFICES ASSUME ~settings[i].local PROVE Vouched(settings[i], t)
  OBVIOUS
<1>2. settings[i] \in SettingsRecords
  <2>1. phase[i] # "off"
    BY DEF Serving
  <2>2. QED
    BY <2>1, AccessAssumption DEF TypeOK, BootTypeOK
<1>3. settings[i].mode = "live"
  BY <1>1, <1>2 DEF NoMockReady, Ready, RefusesMock, SettingsRecords
<1>4. /\ Authenticated(settings[i], keys, t)
      /\ HasScope(settings[i], t) /\ HasRole(settings[i], t)
  BY DEF OfficerStatus
<1>5. Configured(settings[i]) /\ JwtVerified(settings[i], keys, t)
  BY <1>3, <1>4 DEF Authenticated
<1>6. t.key \in OwnKeysOf(settings[i])
  BY <1>5, KeySetsOwn DEF JwtVerified
<1>7. JwksUri(settings[i]) \in Tenants /\ t.key \in OwnKeys[JwksUri(settings[i])]
  BY <1>6 DEF OwnKeysOf
<1>8. QED
  BY <1>4, <1>5, <1>7 DEF Vouched, Configured, JwtVerified, HasScope, HasRole

LEMMA OnlyVouchedKept ==
  ASSUME TypeOK, NoMockReady, KeysOwn, OnlyVouched, [Next]_vars
  PROVE  OnlyVouched'
<1>1. ASSUME NEW i \in Instances, Request(i), OfficerCalls(i) PROVE OnlyVouched'
  <2>0. PICK t \in Bearers \cup {NoToken}, valid \in BOOLEAN :
          \E keys \in KeySets(i, t) :
            Answer(i, "officer", t, OfficerStatus(settings[i], keys, t, valid))
    BY <1>1 DEF OfficerCalls
  <2>1. PICK keys \in KeySets(i, t) :
          Answer(i, "officer", t, OfficerStatus(settings[i], keys, t, valid))
    BY <2>0
  <2>2. phase[i] \in Serving /\ settings' = settings
    BY <1>1 DEF Request, OfficerCalls, bootVars
  <2>3. /\ answer'.by = i /\ answer'.token = t
        /\ answer'.status = OfficerStatus(settings[i], keys, t, valid)
    BY <2>1 DEF Answer
  <2>4. ASSUME answer'.status = 200
        PROVE  settings[i].local \/ Vouched(settings[i], t)
    <3>1. OfficerStatus(settings[i], keys, t, valid) = 200
      BY <2>3, <2>4
    <3>2. QED
      BY <2>2, <3>1, ServedIsVouched
  <2>5. QED
    BY <2>2, <2>3, <2>4 DEF OnlyVouched, Vouched, JwksUri, Issuer
<1>2. ASSUME NEW i \in Instances, Request(i), ~OfficerCalls(i)
      PROVE  answer'.route # "officer"
  BY <1>2 DEF Request, BeaconCalls, LinkCalls, VerifyCalls, CurrentCalls,
             RegisterCalls, Answer
<1>3. ASSUME \/ \E i \in Instances : Lifecycle(i)
             \/ Seed
             \/ \E t \in Tenants : Rotate(t)
      PROVE  answer' = NoAnswer
  BY <1>3 DEF Lifecycle, Seed, Rotate
<1>4. CASE UNCHANGED vars
  BY <1>4 DEF vars, bootVars, OnlyVouched, Vouched
<1>5. QED
  BY <1>1, <1>2, <1>3, <1>4 DEF Next, OnlyVouched

AuthInv == TypeOK /\ NoMockReady /\ KeysOwn /\ OnlyVouched

\* OnlyVouched: off a developer's machine an officer is served only with a
\* token that everything has been checked of, whatever the settings, however
\* keys rotate and instances come and go.
THEOREM ServedOnlyVouched == Spec => []OnlyVouched
<1>1. Init => AuthInv
  <2>1. SUFFICES ASSUME Init PROVE AuthInv
    OBVIOUS
  <2>2. /\ \A i \in Instances : phase[i] = "off" /\ cached[i] = {}
        /\ \A t \in Tenants : published[t] \subseteq OwnKeys[t]
        /\ answer = NoAnswer
    BY <2>1 DEF Init, InitBoot
  <2>3. QED
    BY <2>1, <2>2, InitTyped
       DEF AuthInv, NoMockReady, Ready, Serving, KeysOwn, OnlyVouched
<1>2. AuthInv /\ [Next]_vars => AuthInv'
  BY StepTyped, NoMockReadyKept, KeysOwnKept, OnlyVouchedKept DEF AuthInv
<1>3. AuthInv => OnlyVouched
  BY DEF AuthInv
<1>4. QED
  BY <1>1, <1>2, <1>3, PTL DEF Spec

-----------------------------------------------------------------------------
(* Journeys.                                                               *)

Recorded == {j \in Nonces : \/ j \in linked \cup verified
                            \/ stored["startNonce"][j] > 0
                            \/ stored["endNonce"][j] > 0}

\* A nonce that an instance takes from a token is one the frontend has signed.
LEMMA TakenIsSigned ==
  ASSUME TypeOK, NEW i \in Instances, phase[i] \in Serving,
         NEW t \in JourneyTokens \cup {NoToken},
         VerifiedNonce(t, settings[i].secret) # NoToken
  PROVE  /\ Signed(VerifiedNonce(t, settings[i].secret))
         /\ t # NoToken /\ t.secret = settings[i].secret
         /\ VerifiedNonce(t, settings[i].secret) = t.nonce
<1>1. phase[i] # "off"
  BY DEF Serving
<1>2. settings[i] \in Settings
  BY <1>1 DEF TypeOK, BootTypeOK
<1>3. /\ t \in JourneyTokens /\ settings[i].secret # Unset
      /\ t # NoToken /\ t.secret = settings[i].secret
      /\ VerifiedNonce(t, settings[i].secret) = t.nonce
  BY NonceProved, AccessAssumption
<1>4. Signed(t.nonce)
  BY <1>2, <1>3 DEF Signed
<1>5. QED
  BY <1>3, <1>4

\* Registering behind the gate takes a verified journey's token.
LEMMA RegisteredIsVerified ==
  ASSUME TypeOK, NEW i \in Instances, phase[i] \in Serving, settings[i].gate,
         NEW t \in JourneyTokens \cup {NoToken}, NEW valid \in BOOLEAN,
         NEW found \in {verified, {}},
         RegisterStatus(settings[i], t, valid, found) = 201
  PROVE  /\ t # NoToken /\ t.secret = settings[i].secret
         /\ t.nonce \in verified
<1>0. found \subseteq verified
  OBVIOUS
<1>1. VerifiedNonce(t, settings[i].secret) # NoToken
  BY DEF RegisterStatus, JourneyStatus
<1>2. VerifiedNonce(t, settings[i].secret) \in verified
  BY <1>0 DEF RegisterStatus, JourneyStatus
<1>3. QED
  BY <1>1, <1>2, TakenIsSigned

AllSigned == \A j \in Recorded : Signed(j)

LEMMA VerifyLinked ==
  ASSUME NEW i \in Instances, VerifyCalls(i)
  PROVE  verified' \subseteq verified \cup linked
<1>1. PICK journey \in Nonces, valid \in BOOLEAN :
        \E link \in LinkStates(journey) : Verifies(i, journey, valid, link)
  BY DEF VerifyCalls, Verifies
<1>2. PICK link \in LinkStates(journey) : Verifies(i, journey, valid, link)
  BY <1>1
<1>3. VerifyStatus(valid, link) = 200 => journey \in linked
  BY VerifyTyped
<1>4. QED
  BY <1>2, <1>3 DEF Verifies

LEMMA AllSignedKept ==
  ASSUME TypeOK, AllSigned, [Next]_vars
  PROVE  AllSigned'
<1>0. stored \in [Uniques -> [Keys -> Nat]] /\ Nonces \subseteq Keys
      /\ "startNonce" \in Uniques /\ "endNonce" \in Uniques
  BY ServiceAssumption DEF TypeOK, BootTypeOK, Uniques
<1>1. CASE Recorded' \subseteq Recorded
  BY <1>1 DEF AllSigned, Signed
<1>2. ASSUME UNCHANGED <<stored, linked, verified>> PROVE Recorded' \subseteq Recorded
  BY <1>2 DEF Recorded
<1>3. ASSUME NEW i \in Instances, Lifecycle(i) PROVE Recorded' \subseteq Recorded
  BY <1>2, <1>3, InstanceSteps DEF Lifecycle
<1>4. ASSUME NEW i \in Instances, Request(i), BeaconCalls(i) PROVE AllSigned'
  <2>1. PICK t \in JourneyTokens \cup {NoToken}, event \in {"startNonce", "endNonce"} :
          /\ stored' = IF /\ VerifiedNonce(t, settings[i].secret) # NoToken
                          /\ Admits(event, VerifiedNonce(t, settings[i].secret))
                       THEN With(stored, event, VerifiedNonce(t, settings[i].secret))
                       ELSE stored
          /\ UNCHANGED <<linked, verified>>
    BY <1>4 DEF BeaconCalls, StoredAs, accessVars
  <2>2. CASE stored' = stored
    BY <1>1, <1>2, <2>1, <2>2
  <2>3. CASE /\ VerifiedNonce(t, settings[i].secret) # NoToken
             /\ stored' = With(stored, event, VerifiedNonce(t, settings[i].secret))
    <3>1. PICK nonce : nonce = VerifiedNonce(t, settings[i].secret)
      OBVIOUS
    <3>2. nonce \in Nonces /\ Signed(nonce)
      BY <1>4, <2>3, <3>1, NonceProved, TakenIsSigned DEF Request
    <3>3. event \in Uniques /\ nonce \in Keys
      BY <1>0, <3>2
    <3>4. \A v \in Uniques, l \in Keys :
            stored'[v][l] = IF v = event /\ l = nonce THEN stored[event][nonce] + 1
                            ELSE stored[v][l]
      BY <1>0, <2>3, <3>1, <3>3, WithTyped
    <3>5. Recorded' \subseteq Recorded \cup {nonce}
      BY <1>0, <2>1, <3>4 DEF Recorded
    <3>6. QED
      BY <3>2, <3>5 DEF AllSigned, Signed
  <2>4. QED
    BY <2>1, <2>2, <2>3
<1>5. ASSUME NEW i \in Instances, Request(i), LinkCalls(i) PROVE AllSigned'
  <2>1. PICK t \in JourneyTokens \cup {NoToken}, valid \in BOOLEAN, hash \in Hashes :
          /\ IF LinkStatus(settings[i], t, valid) = 202
             THEN /\ stored' = With(stored, "tokenHash", hash)
                  /\ linked' = linked \cup {VerifiedNonce(t, settings[i].secret)}
             ELSE UNCHANGED <<stored, linked>>
          /\ UNCHANGED verified
    BY <1>5 DEF LinkCalls, StoredAs, bootVars
  <2>2. CASE LinkStatus(settings[i], t, valid) # 202
    BY <1>1, <1>2, <2>1, <2>2
  <2>3. CASE LinkStatus(settings[i], t, valid) = 202
    <3>1. PICK nonce : nonce = VerifiedNonce(t, settings[i].secret)
      OBVIOUS
    <3>2. Signed(nonce)
      BY <1>5, <2>3, <3>1, LinkProved, TakenIsSigned DEF Request
    <3>3. "startNonce" \in Uniques \ {"tokenHash"} /\ "endNonce" \in Uniques \ {"tokenHash"}
      BY DEF Uniques
    <3>4. \A v \in Uniques \ {"tokenHash"} : stored'[v] = stored[v]
      BY <1>0, <2>1, <2>3 DEF With
    <3>5. Recorded' \subseteq Recorded \cup {nonce}
      BY <2>1, <2>3, <3>1, <3>3, <3>4 DEF Recorded
    <3>6. QED
      BY <3>2, <3>5 DEF AllSigned, Signed
  <2>4. QED
    BY <2>2, <2>3
<1>6. ASSUME NEW i \in Instances, VerifyCalls(i) PROVE Recorded' \subseteq Recorded
  <2>2. verified' \subseteq verified \cup linked
    BY <1>6, VerifyLinked
  <2>3. UNCHANGED <<stored, linked>>
    BY <1>6 DEF VerifyCalls, bootVars
  <2>4. QED
    BY <2>2, <2>3 DEF Recorded
<1>7. ASSUME NEW i \in Instances, RegisterCalls(i) PROVE Recorded' \subseteq Recorded
  <2>1. PICK r \in References :
          \/ stored' = With(With(stored, "reference", r), "version", r)
          \/ stored' = stored
    BY <1>7 DEF RegisterCalls, StoredAs, bootVars
  <2>2. UNCHANGED <<linked, verified>>
    BY <1>7 DEF RegisterCalls, accessVars
  <2>3. CASE stored' = With(With(stored, "reference", r), "version", r)
    <3>1. \A v \in Uniques \ {"reference", "version"} : stored'[v] = stored[v]
      BY <1>0, <2>3 DEF With
    <3>2. "startNonce" \in Uniques \ {"reference", "version"}
          /\ "endNonce" \in Uniques \ {"reference", "version"}
      BY DEF Uniques
    <3>3. QED
      BY <2>2, <3>1, <3>2 DEF Recorded
  <2>4. QED
    BY <1>2, <2>1, <2>2, <2>3
<1>8. ASSUME NEW i \in Instances, OfficerCalls(i) \/ CurrentCalls(i)
      PROVE  Recorded' \subseteq Recorded
  BY <1>2, <1>8 DEF OfficerCalls, CurrentCalls, bootVars, accessVars
<1>9. ASSUME Seed PROVE Recorded' \subseteq Recorded
  <2>1. UNCHANGED <<linked, verified>>
    BY <1>9 DEF Seed, accessVars
  <2>2. CASE stored' = stored
    BY <1>2, <2>1, <2>2
  <2>3. ASSUME NEW r \in References, stored' = With(stored, "reference", r)
        PROVE  Recorded' \subseteq Recorded
    <3>1. \A v \in Uniques \ {"reference"} : stored'[v] = stored[v]
      BY <1>0, <2>3 DEF With
    <3>2. "startNonce" \in Uniques \ {"reference"}
          /\ "endNonce" \in Uniques \ {"reference"}
      BY DEF Uniques
    <3>3. QED
      BY <2>1, <3>1, <3>2 DEF Recorded
  <2>4. QED
    BY <1>9, <2>2, <2>3 DEF Seed, StartSeed, SeedOne, EndSeed
<1>10. ASSUME NEW t \in Tenants, Rotate(t) PROVE Recorded' \subseteq Recorded
  BY <1>2, <1>10 DEF Rotate, bootVars
<1>11. UNCHANGED vars => Recorded' \subseteq Recorded
  BY <1>2 DEF vars, bootVars, accessVars
<1>12. QED
  BY <1>1, <1>3, <1>4, <1>5, <1>6, <1>7, <1>8, <1>9, <1>10, <1>11
     DEF Next, Request

\* Only a journey with a link has a verification.
VerifiedLinked == verified \subseteq linked

LEMMA VerifiedLinkedKept ==
  ASSUME VerifiedLinked, [Next]_vars
  PROVE  VerifiedLinked'
<1>1. ASSUME UNCHANGED <<linked, verified>> PROVE VerifiedLinked'
  BY <1>1 DEF VerifiedLinked
<1>2. ASSUME NEW i \in Instances, LinkCalls(i) PROVE VerifiedLinked'
  <2>1. linked \subseteq linked' /\ verified' = verified
    BY <1>2 DEF LinkCalls
  <2>2. QED
    BY <2>1 DEF VerifiedLinked
<1>3. ASSUME NEW i \in Instances, VerifyCalls(i) PROVE VerifiedLinked'
  <2>1. linked' = linked
    BY <1>3 DEF VerifyCalls
  <2>2. QED
    BY <1>3, <2>1, VerifyLinked DEF VerifiedLinked
<1>4. ASSUME NEW i \in Instances,
             \/ OfficerCalls(i) \/ BeaconCalls(i)
             \/ CurrentCalls(i) \/ RegisterCalls(i) \/ Lifecycle(i)
      PROVE  VerifiedLinked'
  BY <1>1, <1>4
     DEF OfficerCalls, BeaconCalls, CurrentCalls, RegisterCalls, Lifecycle,
         accessVars
<1>5. ASSUME Seed \/ (\E t \in Tenants : Rotate(t)) \/ UNCHANGED vars
      PROVE  VerifiedLinked'
  BY <1>1, <1>5 DEF Seed, Rotate, vars, accessVars
<1>6. QED
  BY <1>2, <1>3, <1>4, <1>5 DEF Next, Request

\* What the answer says of a registration.
RegisteredVerified ==
  answer # NoAnswer /\ answer.route = "register" /\ answer.status = 201 =>
    \/ ~settings[answer.by].gate
    \/ /\ answer.token # NoToken
       /\ answer.token.secret = settings[answer.by].secret
       /\ answer.token.nonce \in linked \cap verified

LEMMA RegisteredVerifiedKept ==
  ASSUME TypeOK, VerifiedLinked, RegisteredVerified, [Next]_vars
  PROVE  RegisteredVerified'
<1>1. ASSUME NEW i \in Instances, Request(i), RegisterCalls(i)
      PROVE  RegisteredVerified'
  <2>1. PICK t \in JourneyTokens \cup {NoToken}, valid \in BOOLEAN,
             found \in {verified, {}} :
          Answer(i, "register", t, RegisterStatus(settings[i], t, valid, found))
    BY <1>1 DEF RegisterCalls
  <2>2. phase[i] \in Serving /\ UNCHANGED <<settings, verified, linked>>
    BY <1>1 DEF Request, RegisterCalls, StoredAs, bootVars, accessVars
  <2>3. /\ answer'.by = i /\ answer'.token = t
        /\ answer'.status = RegisterStatus(settings[i], t, valid, found)
    BY <2>1 DEF Answer
  <2>4. ASSUME answer'.status = 201, settings[i].gate
        PROVE  t # NoToken /\ t.secret = settings[i].secret /\ t.nonce \in verified
    <3>1. RegisterStatus(settings[i], t, valid, found) = 201
      BY <2>3, <2>4
    <3>2. QED
      BY <2>2, <2>4, <3>1, RegisteredIsVerified
  <2>5. QED
    BY <2>2, <2>3, <2>4 DEF RegisteredVerified, VerifiedLinked
<1>2. ASSUME NEW i \in Instances, Request(i), ~RegisterCalls(i)
      PROVE  answer'.route # "register"
  BY <1>2 DEF Request, OfficerCalls, BeaconCalls, LinkCalls, VerifyCalls,
             CurrentCalls, Answer
<1>3. ASSUME \/ \E i \in Instances : Lifecycle(i)
             \/ Seed
             \/ \E t \in Tenants : Rotate(t)
      PROVE  answer' = NoAnswer
  BY <1>3 DEF Lifecycle, Seed, Rotate
<1>4. CASE UNCHANGED vars
  BY <1>4 DEF vars, bootVars, accessVars, RegisteredVerified
<1>5. QED
  BY <1>1, <1>2, <1>3, <1>4 DEF Next, RegisteredVerified

\* JourneysSigned: no journey that the frontend has not signed leaves a trace,
\* and the gate registers only for the journey that was sent a link and has
\* used it, whichever instance is asked.
THEOREM OnlySignedJourneys == Spec => []JourneysSigned
<1> DEFINE Inv == TypeOK /\ AllSigned /\ VerifiedLinked /\ RegisteredVerified
<1>1. Init => Inv
  <2>1. SUFFICES ASSUME Init PROVE Inv
    OBVIOUS
  <2>2. /\ linked = {} /\ verified = {} /\ answer = NoAnswer
        /\ stored = [u \in Uniques |-> [k \in Keys |-> 0]]
        /\ "startNonce" \in Uniques /\ "endNonce" \in Uniques
    BY <2>1 DEF Init, InitBoot, Uniques
  <2>3. QED
    BY <2>1, <2>2, InitTyped, ServiceAssumption
       DEF AllSigned, Recorded, VerifiedLinked, RegisteredVerified
<1>2. Inv /\ [Next]_vars => Inv'
  BY StepTyped, AllSignedKept, VerifiedLinkedKept, RegisteredVerifiedKept
<1>3. Inv => JourneysSigned
  BY DEF AllSigned, Recorded, RegisteredVerified, JourneysSigned
<1>4. QED
  BY <1>1, <1>2, <1>3, PTL DEF Spec

=============================================================================
