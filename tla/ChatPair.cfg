SPECIFICATION FairHistorySpec
CONSTANTS
  Requester = q
  Responders = {r1}
  NoCall = NoCall
  NoContext <- NoCallSecret
  Preferences = {"disabled", "preferred", "required"}
  MaxMessages = 2
  Readers = {reader1}
  Identities <- StrangersAndBoth
  IdentityOf <- Strangers
  Secrets <- CallSecrets
INVARIANTS
  ChatInv
  EverythingOpens
  HistoryInv
PROPERTIES
  CallsReturn
CHECK_DEADLOCK FALSE
