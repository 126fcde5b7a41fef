SPECIFICATION Spec
CONSTANTS
  Sources = {s1, s2}
  Stacks = {k1, k2}
  Handlers = {h1, h2}
  Intervals = {5, 10}
  JobIds = {1, 2, 3}
SYMMETRY Symmetry
INVARIANTS JobsAreTracked PollingMatches
PROPERTIES TimersGoOn
