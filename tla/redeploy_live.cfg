SPECIFICATION FairSpec
CONSTANTS
  Polls = {p1, p2}
  Clients = {c1}
  Requests = {"redeploy"}
  Webhook = FALSE
  MayForce = FALSE
  MaxCommits = 2
  MaxRestarts = 1
PROPERTIES CommitsArrive
CHECK_DEADLOCK FALSE
