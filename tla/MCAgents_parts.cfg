CONSTANTS
  search = search
  Request <- MCRequest
  Registry = {search}
  Tools = {search}
  NoTool = NoTool
  MaxSteps = 3
  Nothing = Nothing
  MaximumRevisionRounds = 2
  manager = manager
  reader = reader
  critic = critic
  Agent = {manager, reader, critic}
  Manager = manager
  Specialist = {reader}
  MaxMessages = 2
  Priority = {1, 2}
  MaxLimit = 1
  MaxChanges = 2
  Url = {"plain", "other", "best"}
  SourceQuality <- MCQuality
  MaximumQualityGap = 0
  InitialQueries <- MCQueries
  MaximumSources = 2
  MaximumCandidates = 2
  MaximumProviderCalls = 4
  MaximumEvidence = 1
  IncrementalBuilder = TRUE
  ClaimBudget = 2
  RelevanceBudget = 1
SPECIFICATION MCSpec
INVARIANTS
  ProposalChecksExact
  DependenciesGuardSteps
  EnoughCyclesFinish
  ApprovedReportIsGrounded
  DeliveriesMatchPublish
  AssembledSetsFit
  AnswerOfOneRound
  ResultNeverAlone
PROPERTIES
  FinishedStays
  LoopEnds
  SupplementKeepsSources
CHECK_DEADLOCK FALSE
