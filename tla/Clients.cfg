SPECIFICATION ClientsSpec
CONSTANTS
  Names = {1, 2, 3}
  Secrets = {s1, s2}
  NoContext = NoContext
  Readers = {reader1}
  Identities <- Agents
  MaxTree = 6
  Streams = {log1, log2}
  MaxCheckpoints = 3
  MaxFiles = 1
  MaxChanges = 3
  MaxZoneChanges = 1
  ProfileCallers = {a1}
  MaxInscribed = 2
  MaxMemos = 2
INVARIANTS
  NewestWins
  ResolutionCurrent
  ProofsAreRight
  CheckpointsAreWhole
  ResolvesCurrentSkill
  ResolvedIsConfirmed
  ProfileIsInscribed
CHECK_DEADLOCK FALSE
