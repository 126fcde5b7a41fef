SPECIFICATION Spec
CONSTANTS
  Instances = {i1}
  i1 = i1
  c1 = c1
  c2 = c2
  Environments = {1, 2}
  ComposeFiles = {"v1"}
  Targets <- GroupOnly
  Requests = {"cancel", "edit", "delete"}
  Clients = {c1, c2}
  Membership <- Moving
  MaxBuilds = 1
SYMMETRY ClientSymmetry
PROPERTIES EndedIsFinal
