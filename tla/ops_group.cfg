SPECIFICATION Spec
CONSTANTS
  MaxInstances = 1
  Environments = {1, 2}
  ComposeFiles = {"v1"}
  Targets <- GroupOnly
  OperationTypes = {"deploy"}
  Requests = {"update", "delete", "refresh"}
  Clients = {c1, c2}
  Foreign <- ForeignOnTwo
  Membership <- Moving
  MaxOperations = 1
  MaxStacks = 2
SYMMETRY ClientSymmetry
INVARIANTS RunningIsOwned WorkersOwnTheirStack
PROPERTIES ForeignUntouched
