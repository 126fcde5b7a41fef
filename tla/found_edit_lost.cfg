SPECIFICATION Spec
CONSTANTS
  MaxInstances = 1
  Environments = {1}
  ComposeFiles = {"v1", "v2"}
  Targets <- ListOnly
  OperationTypes = {"deploy"}
  Requests = {"update"}
  Clients = {c1}
  Foreign <- NoForeign
  Membership <- Fixed
  MaxOperations = 1
  MaxStacks = 1
PROPERTIES EditsSurvive
