SPECIFICATION FocusSpec
CONSTANTS
  None = None
  Foci = {"serial", "api", "plans", "bundle", "authority", "agents", "sidecars", "deploys", "workflows", "backends", "bridge", "doors"}
  Permissions = {"read", "write"}
  Resources = {"net", "disk"}
  BudgetKeys = {"timeoutMs"}
  LimitValues = {1, 2}
  Scopes = {"agent"}
  Capabilities <- SomeCapabilities
  Authorizers <- SomeAuthorizers
  Layers <- SomeLayers
  Requests <- SomeRequests
  Calls = {k1, k2}
  MaxChanges = 4
  t1 = t1
  t2 = t2
  t3 = t3
  s1 = s1
  s2 = s2
  pipeline = pipeline
  document = document
  fact = fact
  ahead = ahead
  middle = middle
  behind = behind
  keeper = keeper
  PlannedPipelines = {ahead, middle, behind}
  Definitions <- PipelineCalls
  RoleDefs <- SomeRoles
  ProviderDefs <- SomeProviders
  Taken = {"taken"}
  Order <- ForkFirst
  Transports <- TransportsOf
  Inputs <- SomeInputs
  MaxRuns = 2
  MaxRoleChanges = 4
  MaxFailures = 1
  PipelineDefs <- SidecarPipelines
  Owners = {keeper}
  Grants <- Granted
  TurnIds = {None, t1}
  Results <- LongResult
  OutputLimit = 10
  NoticeSize = 6
  MaxJobs = 2
  MaxEdits = 1
  Names <- NativeNames
  Hidden = {"s2"}
  Trust <- TrustOf
  Kinds <- KindsOf
  Demands <- DemandsOf
  BridgeCalls <- FewCalls
  Contested <- ContestedNames
  MaxBridgeChanges = 2
INVARIANTS
  TurnsAreSound
  PlansAreSound
  ExperiencesAreClosed
  AuthorityNeverWidens
  AgentsAreSound
  SidecarsAreSound
  WorkflowsAreSound
  BridgeIsSound
CHECK_DEADLOCK FALSE
