SPECIFICATION Spec
CONSTANTS
  Polls = {p1, p2}
  Clients = {c1}
  Requests = {"redeploy", "stop", "start", "settings", "delete"}
  Webhook = FALSE
  MayForce = TRUE
  MaxCommits = 3
  MaxRestarts = 1
SYMMETRY PollSymmetry
INVARIANTS TypeOK NothingSkipped StoppedIsDown
CHECK_DEADLOCK FALSE
