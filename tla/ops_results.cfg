SPECIFICATION Spec
CONSTANTS
  MaxInstances = 1
  Environments = {1, 2}
  ComposeFiles = {"v1"}
  Targets <- ListOnly
  OperationTypes = {"deploy", "redeploy", "start", "stop", "restart"}
  Requests = {"build"}
  Clients = {c1, c2}
  Foreign <- NoForeign
  Membership <- Fixed
  MaxOperations = 2
  MaxStacks = 2
SYMMETRY ClientSymmetry
INVARIANTS FailFast ParallelReportsAll SuccessIsReal OneStackPerTarget
PROPERTIES KeepsJournal
