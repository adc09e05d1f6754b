SPECIFICATION Spec
CONSTANTS
  NoCap = NoCap
  FreeLimits <- OneTier
  Requests = {r1, r2}
  Scenarios <- SeveralScenarios
  Role <- RoleOfUser
  Sockets <- SocketOfUser
  MaxFiles = 2
  HistoryCap = 2
  Providers = 2
SYMMETRY Interchangeable
CHECK_DEADLOCK FALSE
INVARIANTS
  TypeOK
  FinalizedHasFile
  RollbackRestoresFiles
  AttachmentsAreFinal
  StrandedTasks
  RoomsSignalled
  AssigneeNotified
  PushMatchesList
  OneBoardPerSocket
  HistoryHasQuestion
PROPERTIES
  CompletedIsFinal
  WorkspaceQuota
