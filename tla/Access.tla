-------------------------------- MODULE Access --------------------------------
(***************************************************************************)
(* Who may do what: the decisions of the routes, each in the order the     *)
(* code takes them, as operators over an instance's settings and what a    *)
(* caller presents.                                                        *)
(*                                                                         *)
(* Case officers present a bearer token (auth/).  Everybody else presents  *)
(* at most the frontend's signed journey token, or a link's.               *)
(***************************************************************************)
EXTENDS Naturals

CONSTANTS
  Unset,          \* the empty string, the default of the settings without one
  Settings,       \* the settings an instance may be deployed with
  Tenants,        \* Entra tenants: a tenant's issuer and JWKS URI go by its name
  SigningKeys,
  OwnKeys,        \* the keys each tenant signs with
  Audiences, Roles, Scopes,
  Secrets,        \* values of JOURNEY_TOKEN_SECRET
  Nonces,         \* journeys
  Bearers,        \* the tokens officers and others may send
  JourneyTokens,  \* likewise
  NoToken         \* no header, or nothing that parses

\* What the environment sets; the defaults are part of the values.  `formats`
\* stands for the settings' formats and the retention check, `mailer` for the
\* hash secret, the Notify key and the template.
SettingsRecords ==
  [local : BOOLEAN, mode : {"mock", "live"},
   tenant : Tenants \cup {Unset}, audience : Audiences \cup {Unset},
   issuer : Tenants \cup {Unset}, jwksUri : Tenants \cup {Unset},
   roles : SUBSET Roles, requiredScope : Scopes \cup {Unset},
   secret : Secrets \cup {Unset}, linkBase : {Unset, "http", "https", "path"},
   mailer : BOOLEAN, gate : BOOLEAN, formats : BOOLEAN]

BearerRecords ==
  [key : SigningKeys, issuer : Tenants, audience : Audiences, expired : BOOLEAN,
   roles : SUBSET Roles, scopes : SUBSET Scopes]

\* A journey token is the nonce and its HMAC under a secret, whoever made it.
JourneyTokenRecords == [nonce : Nonces, secret : Secrets \cup {Unset}]

ASSUME AccessAssumption ==
  /\ Settings \subseteq SettingsRecords
  /\ Bearers \subseteq BearerRecords
  /\ JourneyTokens \subseteq JourneyTokenRecords
  /\ OwnKeys \in [Tenants -> SUBSET SigningKeys]
  /\ Unset \notin Tenants \cup Audiences \cup Scopes \cup Secrets
  /\ NoToken \notin Bearers \cup JourneyTokens
  /\ NoToken \notin Nonces

-----------------------------------------------------------------------------
(* What keeps an instance from starting.                                   *)

\* Links must be https, except on a developer's machine.
LinkBaseAllowed(s) ==
  s.linkBase \in {Unset, "https"} \cup (IF s.local THEN {"http"} ELSE {})

\* config.js validates as it loads, and the routes ask for their roles as they
\* load: either throws before anything else has happened.
Loads(s) == s.formats /\ LinkBaseAllowed(s) /\ s.roles # {}

\* The auth plugin never decodes unverified tokens on a deployed tier.
RefusesMock(s) == s.mode = "mock" /\ ~s.local

Sound(s) == Loads(s) /\ ~RefusesMock(s)

-----------------------------------------------------------------------------
(* Case officers.                                                          *)

\* The issuer and the JWKS URI follow from the tenant unless they are set.  A
\* derived one is never empty: without a tenant it is one that nobody issues
\* for, which is Unset here.
Issuer(s) == IF s.issuer # Unset THEN s.issuer ELSE s.tenant
JwksUri(s) == IF s.jwksUri # Unset THEN s.jwksUri ELSE s.tenant

\* Mutant: an audience that is not set is left to the JWT library.
IssuerOnly(s) == TRUE

\* Live mode trusts nothing without an audience; the issuer always is there.
Configured(s) == s.audience # Unset

\* What jwtVerify makes of a token: a check whose option is empty is skipped.
JwtVerified(s, keys, t) ==
  /\ t.key \in keys
  /\ t.issuer = Issuer(s)
  /\ s.audience # Unset => t.audience = s.audience
  /\ ~t.expired

Authenticated(s, keys, t) ==
  /\ t # NoToken
  /\ s.mode = "live" => Configured(s) /\ JwtVerified(s, keys, t)

HasScope(s, t) == s.requiredScope # Unset => s.requiredScope \in t.scopes

HasRole(s, t) == t.roles \cap s.roles # {}

\* Authentication and the role come before the query's validation.
OfficerStatus(s, keys, t, valid) ==
  IF ~Authenticated(s, keys, t) THEN 401
  ELSE IF ~HasScope(s, t) \/ ~HasRole(s, t) THEN 403
  ELSE IF ~valid THEN 400 ELSE 200

-----------------------------------------------------------------------------
(* Journeys.                                                               *)

\* The nonce that a token proves, or NoToken for none.
VerifiedNonce(t, secret) ==
  IF t # NoToken /\ secret # Unset /\ t.secret = secret THEN t.nonce ELSE NoToken

\* Mutant: only the secret is asked for.
SecretStatus(s, t, otherwise) == IF s.secret = Unset THEN 503 ELSE otherwise

\* requireJourneyId fails closed: 503 without a secret, 401 without a nonce.
JourneyStatus(s, t, otherwise) ==
  IF s.secret = Unset THEN 503
  ELSE IF VerifiedNonce(t, s.secret) = NoToken THEN 401 ELSE otherwise

\* Settings that email verification cannot work without.
MissingSettings(s) == s.secret = Unset \/ s.linkBase = Unset \/ ~s.mailer

\* A beacon fails open: without a secret it needs no token.
BeaconStatus(s, t) ==
  IF s.secret # Unset /\ VerifiedNonce(t, s.secret) = NoToken THEN 401 ELSE 204

LinkStatus(s, t, valid) ==
  IF ~valid THEN 400
  ELSE IF MissingSettings(s) THEN 503 ELSE JourneyStatus(s, t, 202)

\* A link works in any browser: it needs no journey token, and no settings.
\* "over" is a link that has expired or been superseded.
VerifyStatus(valid, link) ==
  IF ~valid THEN 400
  ELSE CASE link = "unknown" -> 404
         [] link = "used" -> 409
         [] link = "over" -> 410
         [] link = "live" -> 200

CurrentStatus(s, t) == JourneyStatus(s, t, 200)

\* Mutant: the gate finds a verification of whatever journey.
OfAnyJourney(s, t, valid, found) ==
  IF ~valid THEN 400
  ELSE IF ~s.gate THEN 201
  ELSE IF MissingSettings(s) THEN 503
  ELSE JourneyStatus(s, t, IF found # {} THEN 201 ELSE 403)

\* The gate, then the saving.  `found` are the journeys with a verification
\* that the gate would find.
RegisterStatus(s, t, valid, found) ==
  IF ~valid THEN 400
  ELSE IF ~s.gate THEN 201
  ELSE IF MissingSettings(s) THEN 503
  ELSE JourneyStatus(s, t,
         IF VerifiedNonce(t, s.secret) \in found THEN 201 ELSE 403)

=============================================================================
