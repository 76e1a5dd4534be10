SPECIFICATION FairSpec
CONSTANTS
  i1 = i1
  i2 = i2
  ours = ours
  theirs = theirs
  k1 = k1
  k2 = k2
  k3 = k3
  api = api
  other = other
  officer = officer
  clerk = clerk
  scope = scope
  x1 = x1
  x2 = x2
  x3 = x3
  n1 = n1
  n2 = n2
  n3 = n3
  ref = ref
  hash = hash
  Instances = {i1, i2}
  Unset = Unset
  NoToken = NoToken
  NotDeployed = NotDeployed
  NoAnswer = NoAnswer
  Settings <- AllSettings
  Tenants = {ours, theirs}
  SigningKeys = {k1, k2, k3}
  OwnKeys <- KeysOf
  Audiences = {api, other}
  Roles = {officer, clerk}
  Scopes = {scope}
  Secrets = {x1, x2, x3}
  Nonces = {n1, n2, n3}
  Bearers <- AllBearers
  JourneyTokens <- AllJourneyTokens
  References = {ref}
  Hashes = {hash}
  Keys <- AllKeys
  MaxFaults = 1
INVARIANTS
  TypeOK
  ListensIndexed
  KeysUnique
  BootFailsForCause
  OnlyVouched
  JourneysSigned
PROPERTIES
  Serves
CONSTRAINT Apart
CHECK_DEADLOCK FALSE
