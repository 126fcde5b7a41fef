SPECIFICATION LiveSpec
CONSTANTS
  Instances = {i1}
  i1 = i1
  c1 = c1
  Environments = {1, 2}
  ComposeFiles = {"v1"}
  Targets <- ListOnly
  Requests = {"operation"}
  Clients = {c1}
  Membership <- Fixed
  MaxBuilds = 2
INVARIANTS TypeOK UnfinishedIsOwned ResultsAgree DeployedWherePulled
PROPERTIES BuildsFinish
