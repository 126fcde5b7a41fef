SPECIFICATION Spec
CONSTANTS
  Envs = {e1, e2}
  Ports = {1, 2}
  Clients = {c1}
  Mortal = {e2}
  MaxOpens = 2
INVARIANTS TypeOK CacheIsCurrent ProxiesFollowTunnels
PROPERTIES OpenTunnelsAreHeard IdleTunnelsClose
CHECK_DEADLOCK FALSE
