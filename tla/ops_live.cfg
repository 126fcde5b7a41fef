SPECIFICATION FairSpec
CONSTANTS
  MaxInstances = 1
  Environments = {1, 2}
  ComposeFiles = {"v1"}
  Targets <- ListOnly
  OperationTypes = {"deploy"}
  Requests = {}
  Clients = {c1, c2}
  Foreign <- NoForeign
  Membership <- Leaving
  MaxOperations = 2
  MaxStacks = 2
INVARIANTS GuardExact
PROPERTIES ImplementsJournal GuardReleased
