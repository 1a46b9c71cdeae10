SPECIFICATION AgentsSpec
CONSTANTS
  Requester = q
  Responders = {r1, r2}
  NoCall = NoCall
  NoContext <- NoCallSecret
  Preferences = {"disabled", "preferred", "required"}
  MaxMessages = 1
  Readers = {}
  Identities <- StrangersAndBoth
  IdentityOf <- Strangers
  Secrets <- CallSecrets
  Registrants = {n1, n2}
  RegistrationCost = 3
  MaxCredits = 8
  MaxSpending = 2
  Goroutines = {g1, g2}
  Keys = {k1}
  Bearer = Bearer
  NoValue = NoValue
  StateTopics = {2, 3}
  StateMembers = {1}
  PublishTopic = 3
  MaxChanges17 = 2
  MaxAnchored = 1
  FloraMembers = {f1, f2, f3}
  Proposer = f1
  MaxDiscovery = 5
  MaxFloras = 2
SYMMETRY Crowd
INVARIANTS
  NoMixedModes
  SecretsAgree
  NoMessageInClear
  RegistersOnce
  HeadersAreTheCallers
  HashMeansState
  CompletedFloraIsWhole
CHECK_DEADLOCK FALSE
