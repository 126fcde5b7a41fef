-------------------------- MODULE OperationJournal --------------------------
(***************************************************************************)
(* What the operation history of service instances promises to a client    *)
(* that polls /service-instances/{id}/operations (SERVICE_INSTANCE_DESIGN, *)
(* sections 3, 6 and 16), with nothing of how it is done: no guard, no     *)
(* goroutine, no stack.  ServiceOperations implements it.                  *)
(***************************************************************************)
EXTENDS Tables, ServiceStatus

CONSTANTS Operations, Instances, Environments

VARIABLE journal    \* operation id -> instance, status, result per target

Open(i) == {o \in DOMAIN journal : journal[o].id = i /\ journal[o].status = "Running"}

Init == journal = EmptyTable

\* A second operation of an instance is refused while one is open.
Begin(o, i, envs) ==
  /\ o \notin DOMAIN journal
  /\ envs # {}
  /\ Open(i) = {}
  /\ journal' = Put(journal, o,
       [id |-> i, status |-> "Running", results |-> [e \in envs |-> "Pending"]])

IsOpen(o) == o \in DOMAIN journal /\ journal[o].status = "Running"

\* One target gets under way, or is finished one way or the other.
Progress(o, e) ==
  /\ IsOpen(o)
  /\ e \in DOMAIN journal[o].results
  /\ LET old == journal[o].results[e]
     IN  \E new \in CASE old = "Pending" -> {"Running"}
                      [] old = "Running" -> {"Success", "Failed"}
                      [] OTHER           -> {} :
           journal' = [journal EXCEPT ![o].results[e] = new]

\* The operation ends.  Targets are left out only because another one failed.
Finish(o) ==
  /\ IsOpen(o)
  /\ LET res == journal[o].results
         end == [e \in DOMAIN res |-> IF res[e] = "Pending" THEN "Skipped" ELSE res[e]]
     IN  /\ \A e \in DOMAIN res : res[e] # "Running"
         /\ (\E e \in DOMAIN res : res[e] = "Pending")
              => \E e \in DOMAIN res : res[e] = "Failed"
         /\ journal' = [journal EXCEPT ![o].results = end,
                                       ![o].status = Outcome(end)]

Interrupted(r) ==
  IF r.status # "Running" THEN r
  ELSE [r EXCEPT !.status = "Failed",
                 !.results = [e \in DOMAIN @ |->
                    IF @[e] \in {"Success", "Failed"} THEN @[e] ELSE "Skipped"]]

\* The server restarts: whatever was open has failed.
Interrupt == journal' = [o \in DOMAIN journal |-> Interrupted(journal[o])]

Work(o) == (\E e \in Environments : Progress(o, e)) \/ Finish(o)

Next ==
  \/ \E o \in Operations, i \in Instances, envs \in SUBSET Environments : Begin(o, i, envs)
  \/ \E o \in Operations : Work(o)
  \/ Interrupt

Safety == Init /\ [][Next]_journal

\* An open operation does not stay as it is forever.
Spec == /\ Safety
        /\ \A o \in Operations : WF_journal(Work(o) \/ (IsOpen(o) /\ Interrupt))
=============================================================================
