------------------------------- MODULE MCService -------------------------------
(***************************************************************************)
(* Instances of Service for TLC.                                           *)
(***************************************************************************)
EXTENDS Service, FiniteSets

CONSTANTS i1, i2, ours, theirs, k1, k2, k3, api, other, officer, clerk, scope,
          x1, x2, x3, n1, n2, n3, ref, hash

Live ==
  [local |-> FALSE, mode |-> "live", tenant |-> ours, audience |-> api,
   issuer |-> Unset, jwksUri |-> Unset, roles |-> {officer},
   requiredScope |-> scope, secret |-> x1, linkBase |-> "https",
   mailer |-> TRUE, gate |-> TRUE, formats |-> TRUE]

\* A tier whose Entra and frontend are still to come, and one that sets the
\* issuer and the JWKS URI itself.
Onboarding ==
  [Live EXCEPT !.audience = Unset, !.secret = Unset, !.gate = FALSE]
Explicit ==
  [Live EXCEPT !.tenant = Unset, !.issuer = ours, !.jwksUri = ours,
               !.requiredScope = Unset, !.secret = x2]
Incomplete == [Live EXCEPT !.tenant = Unset, !.mailer = FALSE]
Developer ==
  [Live EXCEPT !.local = TRUE, !.mode = "mock", !.tenant = Unset,
               !.audience = Unset, !.linkBase = "http", !.secret = Unset]

\* Settings that must not start.
MockDeployed == [Live EXCEPT !.mode = "mock"]
NoRoles == [Live EXCEPT !.roles = {}]
PlainHttp == [Live EXCEPT !.linkBase = "http"]

AllSettings ==
  {Live, Onboarding, Explicit, Incomplete, Developer, MockDeployed, NoRoles,
   PlainHttp}

Good == [key |-> k1, issuer |-> ours, audience |-> api, expired |-> FALSE,
         roles |-> {officer}, scopes |-> {scope}]

\* One token for each thing that can be wrong with one.
AllBearers ==
  {Good, [Good EXCEPT !.key = k2], [Good EXCEPT !.key = k3],
   [Good EXCEPT !.issuer = theirs], [Good EXCEPT !.audience = other],
   [Good EXCEPT !.expired = TRUE], [Good EXCEPT !.roles = {clerk}],
   [Good EXCEPT !.scopes = {}]}

KeysOf == [t \in {ours, theirs} |-> IF t = ours THEN {k1, k2} ELSE {k3}]

FirstKeys == [t \in {ours, theirs} |-> IF t = ours THEN {k1} ELSE {k3}]

\* One journey for each secret that is deployed, and one that is signed only
\* with a secret from elsewhere and with none.
AllJourneyTokens ==
  {[nonce |-> n1, secret |-> x1], [nonce |-> n2, secret |-> x2],
   [nonce |-> n3, secret |-> x3], [nonce |-> n3, secret |-> Unset]}

AllKeys == {n1, n2, n3, ref, hash}

\* An answer that may come with a change: a document stored, a journey
\* verified, keys fetched.  What fetches keys is any officer's call with a
\* token, so one of the tokens stands for all.  After any other answer, what
\* can happen is what could happen before it.
Changes(a) ==
  \/ a.status \in {201, 202, 204}
  \/ a.route = "verify" /\ a.status = 200
  \/ a.route = "officer" /\ a.token = Good /\ cached[a.by] # {}

\* Bound: scenarios that have nothing to do with each other come apart.
\*   - an answer that changes nothing ends a behaviour (it is still checked);
\*   - officers call, and keys change, with one instance and no document;
\*   - of two instances, one has the settings Live;
\*   - at most three documents: a link's and a registration's two; no fault;
\*   - with documents other than one seed, one instance boots, and it is Live.
Apart ==
  LET up == {i \in Instances : phase[i] # "off"}
      booting == {i \in up : phase[i] \notin Serving}
      documents == {<<u, k>> \in Uniques \X Keys : stored[u][k] > 0}
      onlySeeds == \A d \in documents : d[1] = "reference"
      keysMoved == published # FirstKeys \/ \E i \in Instances : cached[i] # {}
  IN  /\ answer # NoAnswer => Changes(answer)
      /\ keysMoved => /\ Cardinality(up) = 1 /\ booting = {}
                      /\ faults = 0 /\ ~seeding /\ documents = {}
      /\ Cardinality(up) = 2 => \E i \in up : settings[i] = Live
      /\ Cardinality(documents) <= 3
      /\ ~onlySeeds => /\ faults = 0
                       /\ booting # {} => /\ up = {i1} /\ settings[i1] = Live
                                          /\ linked = {}

=============================================================================
