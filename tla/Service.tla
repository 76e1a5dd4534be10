------------------------------- MODULE Service --------------------------------
(***************************************************************************)
(* The service as its callers meet it: instances that boot and stop with   *)
(* settings of their own (Boot), the routes that each serves while it      *)
(* listens (Access), and the one database that all of them write to.       *)
(*                                                                         *)
(* A request is one step here: the settings it is decided by never change  *)
(* while an instance runs, and what happens between the operations of one  *)
(* is the subject of the other modules.  A request that is cut off has     *)
(* either taken its step or not.                                           *)
(***************************************************************************)
EXTENDS Boot

CONSTANTS References, Hashes, NoAnswer

ASSUME ServiceAssumption == Keys = References \cup Hashes \cup Nonces

VARIABLES
  published,  \* the keys in each tenant's JWKS
  cached,     \* the keys each instance has fetched
  linked,     \* the journeys that a link has been sent for
  verified,   \* the journeys whose link has been used
  answer      \* what the last step has answered, if it was a request

accessVars == <<published, cached, linked, verified>>
vars == <<bootVars, accessVars, answer>>

Routes == {"officer", "beacon", "link", "verify", "current", "register"}
Statuses == {200, 201, 202, 204, 400, 401, 403, 404, 409, 410, 503}

Answers ==
  [by : Instances, route : Routes, status : Statuses,
   token : Bearers \cup JourneyTokens \cup {NoToken}]

\* The one type invariant.
TypeOK ==
  /\ BootTypeOK
  /\ published \in [Tenants -> SUBSET SigningKeys]
  /\ cached \in [Instances -> SUBSET SigningKeys]
  /\ linked \subseteq Nonces
  /\ verified \subseteq Nonces
  /\ answer \in Answers \cup {NoAnswer}

Init ==
  /\ InitBoot
  /\ published \in [Tenants -> SUBSET SigningKeys]
  /\ \A t \in Tenants : published[t] \subseteq OwnKeys[t]
  /\ cached = [i \in Instances |-> {}]
  /\ linked = {} /\ verified = {}
  /\ answer = NoAnswer

-----------------------------------------------------------------------------
(* The routes.                                                             *)

Answer(i, route, t, status) ==
  answer' = [by |-> i, route |-> route, status |-> status, token |-> t]

\* Entra publishes other keys of the tenant.
Rotate(t) ==
  /\ \E ks \in SUBSET OwnKeys[t] : published' = [published EXCEPT ![t] = ks]
  /\ answer' = NoAnswer
  /\ UNCHANGED <<bootVars, cached, linked, verified>>

\* The key set goes by what it has cached or fetches what is published; it
\* fetches for an unknown key, unless it has just done so, and from time to
\* time anyway.  A fetch may fail.  Nobody asks it without a token to verify.
KeySets(i, t) ==
  LET s == settings[i]
      asked == t # NoToken /\ s.mode = "live" /\ Configured(s)
      fetched == {published[u] : u \in Tenants \cap {JwksUri(s)}}
  IN  {cached[i]} \cup (IF asked THEN fetched ELSE {})

\* GET /search, /export, /metrics/... and /whoami.
OfficerCalls(i) ==
  \E t \in Bearers \cup {NoToken}, valid \in BOOLEAN :
    \E keys \in KeySets(i, t) :
      /\ Answer(i, "officer", t, OfficerStatus(settings[i], keys, t, valid))
      /\ cached' = [cached EXCEPT ![i] = keys]
      /\ UNCHANGED <<bootVars, published, linked, verified>>

StoredAs(was) ==
  /\ stored' = was
  /\ UNCHANGED <<phase, settings, at, indexes, seeding, faults>>

\* POST /metrics/journey-starts and /metrics/journey-not-eligible: without a
\* secret the event has no nonce, and a replayed nonce changes nothing.
BeaconCalls(i) ==
  \E t \in JourneyTokens \cup {NoToken}, event \in {"startNonce", "endNonce"} :
    LET s == settings[i]
        nonce == VerifiedNonce(t, s.secret)
    IN  /\ Answer(i, "beacon", t, BeaconStatus(s, t))
        /\ StoredAs(IF nonce # NoToken /\ Admits(event, nonce)
                    THEN With(stored, event, nonce) ELSE stored)
        /\ UNCHANGED accessVars

\* POST /email-verifications, within the rate limits.
LinkCalls(i) ==
  \E t \in JourneyTokens \cup {NoToken}, valid \in BOOLEAN, hash \in Hashes :
    LET s == settings[i]
        status == LinkStatus(s, t, valid)
    IN  /\ Answer(i, "link", t, status)
        /\ IF status = 202
           THEN /\ Admits("tokenHash", hash)
                /\ StoredAs(With(stored, "tokenHash", hash))
                /\ linked' = linked \cup {VerifiedNonce(t, s.secret)}
           ELSE UNCHANGED <<bootVars, linked>>
        /\ UNCHANGED <<published, cached, verified>>

\* What a link may be that is said to be of the journey: only one that was
\* sent works, or has ceased to.
LinkStates(journey) ==
  {"unknown"} \cup (IF journey \in linked THEN {"live", "over"} ELSE {})
              \cup (IF journey \in verified THEN {"used"} ELSE {})

\* POST /email-verifications/verify: anybody with the link of a journey.
VerifyCalls(i) ==
  \E journey \in Nonces, valid \in BOOLEAN :
    \E link \in LinkStates(journey) :
      LET status == VerifyStatus(valid, link)
      IN  /\ Answer(i, "verify", NoToken, status)
          /\ verified' = IF status = 200 THEN verified \cup {journey} ELSE verified
          /\ UNCHANGED <<bootVars, published, cached, linked>>

\* GET /email-verifications/current.
CurrentCalls(i) ==
  \E t \in JourneyTokens \cup {NoToken} :
    /\ Answer(i, "current", t, CurrentStatus(settings[i], t))
    /\ UNCHANGED <<bootVars, accessVars>>

\* POST /register: a registration and its first version together, under a
\* reference that is free.  The gate finds a journey's verification unless it
\* was too long ago or of another address, or the copy it reads lacks it.
RegisterCalls(i) ==
  \E t \in JourneyTokens \cup {NoToken}, valid \in BOOLEAN, r \in References,
     found \in {verified, {}} :
    LET status == RegisterStatus(settings[i], t, valid, found)
    IN  /\ Answer(i, "register", t, status)
        /\ IF status = 201
           THEN /\ Admits("reference", r) /\ Admits("version", r)
                /\ StoredAs(With(With(stored, "reference", r), "version", r))
           ELSE UNCHANGED bootVars
        /\ UNCHANGED accessVars

Request(i) ==
  /\ phase[i] \in Serving
  /\ \/ OfficerCalls(i) \/ BeaconCalls(i) \/ LinkCalls(i)
     \/ VerifyCalls(i) \/ CurrentCalls(i) \/ RegisterCalls(i)

-----------------------------------------------------------------------------

\* A process starts with an empty key cache.
Lifecycle(i) ==
  /\ Instance(i)
  /\ cached' = IF phase'[i] \in Serving THEN cached ELSE [cached EXCEPT ![i] = {}]
  /\ answer' = NoAnswer
  /\ UNCHANGED <<published, linked, verified>>

Seed ==
  /\ StartSeed \/ EndSeed \/ \E r \in References : SeedOne(r)
  /\ answer' = NoAnswer
  /\ UNCHANGED accessVars

Next ==
  \/ \E i \in Instances : Lifecycle(i) \/ Request(i)
  \/ Seed
  \/ \E t \in Tenants : Rotate(t)

\* An instance's operations are answered, and the platform starts again what
\* has exited.
Fairness ==
  \A i \in Instances :
    WF_vars(Lifecycle(i) /\ (BootStep(i) \/ Restart(i)))

Spec == Init /\ [][Next]_vars

FairSpec == Spec /\ Fairness

-----------------------------------------------------------------------------
(* Properties.                                                             *)

\* An instance takes requests only with every index of createIndexes in place
\* and the obsolete one gone, however many instances boot at once, fail half
\* way and start over.
ListensIndexed ==
  \A i \in Instances : phase[i] \in Serving =>
    indexes = IndexNames \ {"submittedAt"}

\* No reference, version, session's event or link token is stored twice, by
\* any instance or by the seed script, before the first boot or after it.
KeysUnique ==
  \A u \in Uniques, k \in Keys : stored[u][k] <= 1

\* An instance throws while it boots only because of its settings: neither
\* what other instances have done to the indexes, nor what is stored, nor an
\* earlier boot that failed can keep it from starting.
BootFailsForCause ==
  \A i \in Instances : phase[i] = "failed" => ~Sound(settings[i])

\* An instance with sound settings comes to listen, through crashes and
\* restarts, unless it is stopped.
Serves ==
  \A i \in Instances :
    phase[i] = "loading" /\ Sound(settings[i]) ~> phase[i] \in Serving \cup {"off"}

\* Off a developer's machine an officer is served only with an unexpired token
\* for this API, from the issuer and with a key of the tenant that the
\* settings name, with the role, and with the scope where one is required.
Vouched(s, t) ==
  /\ JwksUri(s) \in Tenants /\ t.key \in OwnKeys[JwksUri(s)]
  /\ t.issuer = Issuer(s) /\ t.audience = s.audience /\ ~t.expired
  /\ s.roles \cap t.roles # {}
  /\ s.requiredScope \in t.scopes \cup {Unset}

OnlyVouched ==
  answer # NoAnswer /\ answer.route = "officer" /\ answer.status = 200 =>
    \/ settings[answer.by].local
    \/ Vouched(settings[answer.by], answer.token)

\* Journeys that the frontend has signed: with a secret that is deployed.
Signed(j) ==
  \E t \in JourneyTokens, s \in Settings :
    t.nonce = j /\ t.secret = s.secret /\ s.secret # Unset

\* Only journeys that the frontend has signed are counted, sent a link or
\* verified, on whichever instance, and a tier with the gate registers only
\* for the very journey that has been verified, with a link sent for it.
JourneysSigned ==
  /\ \A j \in Nonces :
       \/ j \in linked \cup verified
       \/ stored["startNonce"][j] > 0
       \/ stored["endNonce"][j] > 0
       => Signed(j)
  /\ answer # NoAnswer /\ answer.route = "register" /\ answer.status = 201 =>
       \/ ~settings[answer.by].gate
       \/ /\ answer.token # NoToken
          /\ answer.token.secret = settings[answer.by].secret
          /\ answer.token.nonce \in linked \cap verified

=============================================================================
