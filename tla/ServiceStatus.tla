--------------------------- MODULE ServiceStatus ---------------------------
(***************************************************************************)
(* The status values of stacks, service instances, operations and their    *)
(* targets (api/portainer.go), and the two functions that condense many    *)
(* statuses into one: AggregateStatus for an instance, Outcome for an      *)
(* operation.  Both loops of the code only count, so the order of the      *)
(* targets is irrelevant and a status per target is a function.            *)
(***************************************************************************)

StackStatus    == {"Active", "Inactive", "Deploying", "Error"}
InstanceStatus == {"Unknown", "Deploying", "Running", "Stopped", "Partial",
                   "Failed"}
OperationStatus == {"Running", "Success", "PartialSuccess", "Failed"}
TerminalStatus  == OperationStatus \ {"Running"}
TargetStatus    == {"Pending", "Running", "Success", "Failed", "Skipped"}

\* AggregateStatus(statuses): st maps each target to its stack status.
AggregateStatus(st) ==
  LET all(s) == \A e \in DOMAIN st : st[e] = s
  IN  IF DOMAIN st = {} THEN "Unknown"
      ELSE IF \E e \in DOMAIN st : st[e] = "Deploying" THEN "Deploying"
      ELSE IF all("Active") THEN "Running"
      ELSE IF all("Inactive") THEN "Stopped"
      ELSE IF all("Error") THEN "Failed"
      ELSE "Partial"

\* The switch of finalizeOperation over the results of the targets.
Outcome(results) ==
  LET some(s) == \E e \in DOMAIN results : results[e] = s
  IN  IF ~some("Failed") THEN "Success"
      ELSE IF some("Success") THEN "PartialSuccess"
      ELSE "Failed"
=============================================================================
