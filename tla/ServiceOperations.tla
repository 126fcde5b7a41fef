------------------------- MODULE ServiceOperations -------------------------
(***************************************************************************)
(* Service instances and their lifecycle operations                        *)
(* (api/serviceinstance/service.go, api/http/handler/serviceinstances).    *)
(*                                                                         *)
(* A service instance deploys one compose file as one stack on each of its *)
(* target environments.  HTTP handlers run concurrently, each a sequence   *)
(* of separate database transactions; an accepted lifecycle request starts *)
(* a goroutine (runOperation) that works through the targets on its own    *)
(* copy of the instance.  Only the in-memory guard `running' keeps two     *)
(* operations of an instance apart.  The process may die at any point: the *)
(* database, the compose files on disk and the containers survive it.      *)
(***************************************************************************)
EXTENDS Naturals, Sequences, FiniteSets, Tables, ServiceStatus

CONSTANTS
  MaxInstances,    \* service instance ids are 1..MaxInstances
  Environments,    \* environments (endpoints) an instance can target
  ComposeFiles,    \* contents of a compose file
  Targets,         \* target specifications a request may carry
  OperationTypes,  \* lifecycle operations requested, a subset of Lifecycle
  Requests,        \* what else happens: Edits, and "build": a scheduled build's
                   \*   time comes
  Clients,         \* concurrent requests
  Foreign,         \* sequence of <<id, env>>: stacks not deployed by Portainer's
                   \*   service instances that carry the stack name of id on env
  Membership,      \* <<from, to>>: how environments move between groups
  MaxOperations,   \* bound on operation ids
  MaxStacks        \* bound on stack ids

Lifecycle == {"deploy", "redeploy", "start", "stop", "restart"}
Edits     == {"update", "delete", "refresh"}
Places    == {"in", "out", "gone"}

Instances  == 1..MaxInstances
Operations == 1..MaxOperations
StackIds   == 1..MaxStacks
NoOwner    == 0

ASSUME BoundsAssumption ==
  /\ MaxInstances \in Nat /\ MaxOperations \in Nat /\ MaxStacks \in Nat

ASSUME WorkloadAssumption ==
  /\ OperationTypes \subseteq Lifecycle
  /\ Requests \subseteq Edits \cup {"build"}
  /\ Targets \subseteq [group : BOOLEAN, envs : SUBSET Environments]
  /\ Foreign \in Seq(Instances \X Environments) /\ Len(Foreign) <= MaxStacks
  /\ Membership \subseteq Places \X Places
  /\ {"down", "broken"} \cap ComposeFiles = {}

VARIABLES
  up,          \* the server process is serving requests
  place,       \* environment -> in the targeted group, out of it, or gone
  instances,   \* bucket service_instances
  operations,  \* bucket service_instance_operations
  stacks,      \* bucket stacks
  nextInstance, nextOperation, nextStack,  \* bucket sequences
  files,       \* stack id -> compose file stored in its project path
  engine,      \* containers of the instance's project on an environment
  running,     \* Service.running, the guard
  calls,       \* handlers in flight, by client
  runners      \* runOperation goroutines, by operation id

dbVars   == <<instances, operations, stacks>>
seqVars  == <<nextInstance, nextOperation, nextStack>>
memVars  == <<running, calls, runners>>
worldVars == <<place, files, engine>>
vars == <<up, place, instances, operations, stacks, nextInstance,
          nextOperation, nextStack, files, engine, running, calls, runners>>

-----------------------------------------------------------------------------
(* The shape of the state.                                                 *)

Instance  == [compose : ComposeFiles,
              target  : [group : BOOLEAN, envs : SUBSET Environments],
              status  : InstanceStatus]
Operation == [id      : Instances,        \* ServiceInstanceID
              type    : Lifecycle,
              status  : OperationStatus,
              results : Table(Environments, TargetStatus)]
Stack     == [id     : Instances,         \* whose StackName it carries
              env    : Environments,
              owner  : Instances \cup {NoOwner},
              status : StackStatus]

\* A handler in flight: inside ExecuteOperation, or editing the instance.
Call     == [req : Lifecycle, id : Instances, pc : {"read", "launch"},
             parallel : BOOLEAN, copy : Instance]
       \cup [req : Edits, id : Instances,
             pc : {"resolve", "statuses", "write", "purged"},
             parallel : BOOLEAN, copy : Instance]

WorkPC == {"idle", "find", "create", "store", "deploy", "saveActive",
           "saveError", "undeploy", "saveInactive", "ok", "err", "done"}
Runner == [copy     : Instance,           \* the instance read at the start
           op       : Operation,          \* the record held in memory
           parallel : BOOLEAN,
           work     : Table(Environments, WorkPC),
           stack    : Table(Environments, StackIds),
           phase    : {"targets", "statuses", "write"}]

TypeOK ==
  /\ up \in BOOLEAN
  /\ place \in [Environments -> Places]
  /\ IsTable(instances, Instances, Instance)
  /\ IsTable(operations, Operations, Operation)
  /\ IsTable(stacks, StackIds, Stack)
  /\ nextInstance \in 1..(MaxInstances + 1)
  /\ nextOperation \in 1..(MaxOperations + 1)
  /\ nextStack \in 1..(MaxStacks + 1)
  /\ IsTable(files, StackIds, ComposeFiles)
  /\ engine \in [Instances -> [Environments -> ComposeFiles \cup {"down", "broken"}]]
  /\ running \subseteq Instances
  /\ IsTable(calls, Clients, Call)
  /\ IsTable(runners, Operations, Runner)

-----------------------------------------------------------------------------
(* Reading the database.                                                   *)

\* ResolveTargets: current members of the group, or the listed environments
\* that still exist.
Resolve(target) ==
  IF target.group THEN {e \in Environments : place[e] = "in"}
  ELSE {e \in target.envs : place[e] # "gone"}

\* findStackOnEndpoint: the stacks with the name of instance i on e, and the
\* one it settles on, the first in bucket order (none or one).
StacksNamed(i, e) == {k \in DOMAIN stacks : stacks[k].id = i /\ stacks[k].env = e}

Found(i, e) == {k \in StacksNamed(i, e) : \A l \in StacksNamed(i, e) : k <= l}

\* Mutation: a stack found by its name is taken for the instance's own.
Conflict_NameIsEnough(i, e) == FALSE

\* ErrStackOwnershipConflict: that stack belongs to somebody else.
Conflict(i, e) == \E k \in Found(i, e) : stacks[k].owner # i

\* targetStackStatuses: a target without a stack counts as stopped.
TargetStatuses(i, target) ==
  [e \in Resolve(target) |->
     IF Found(i, e) = {} THEN "Inactive"
     ELSE stacks[CHOOSE k \in Found(i, e) : TRUE].status]

StatusesFail(i, target) == \E e \in Resolve(target) : Conflict(i, e)

\* Handlers inside ExecuteOperation: each will need an operation id, which the
\* bound MaxOperations has to leave.
Executing == {c \in DOMAIN calls : calls[c].pc \in {"read", "launch"}}

Purged(i) == {o \in DOMAIN operations : operations[o].id = i}

-----------------------------------------------------------------------------
Init ==
  /\ up = TRUE
  /\ place \in [Environments -> {"in", "out"}]
  /\ instances = EmptyTable
  /\ operations = EmptyTable
  /\ stacks = [k \in 1..Len(Foreign) |->
                 [id |-> Foreign[k][1], env |-> Foreign[k][2],
                  owner |-> NoOwner, status |-> "Active"]]
  /\ nextInstance = 1
  /\ nextOperation = 1
  /\ nextStack = Len(Foreign) + 1
  /\ files = EmptyTable
  /\ engine = [i \in Instances |-> [e \in Environments |-> "down"]]
  /\ running = {}
  /\ calls = EmptyTable
  /\ runners = EmptyTable

-----------------------------------------------------------------------------
(* Handlers that edit service instances.                                   *)

\* serviceInstanceCreate and Service.Create.
Create(compose, target) ==
  /\ up
  /\ nextInstance <= MaxInstances
  /\ Resolve(target) # {}
  /\ instances' = Put(instances, nextInstance,
       [compose |-> compose, target |-> target, status |-> "Unknown"])
  /\ nextInstance' = nextInstance + 1
  /\ UNCHANGED <<up, worldVars, operations, stacks, nextOperation, nextStack,
                 memVars>>

Return(c) == calls' = Drop(calls, {c})

\* serviceInstanceUpdate, up to the payload applied to the copy it read.
BeginUpdate(c, i, compose, target) ==
  /\ up /\ c \notin DOMAIN calls /\ i \in DOMAIN instances
  /\ calls' = Put(calls, c,
       [req |-> "update", id |-> i, pc |-> "resolve", parallel |-> FALSE,
        copy |-> [instances[i] EXCEPT !.compose = compose, !.target = target]])
  /\ UNCHANGED <<up, worldVars, dbVars, seqVars, running, runners>>

\* ... the targets are resolved: no target, no update.
ResolveUpdate(c) ==
  /\ c \in DOMAIN calls /\ calls[c].pc = "resolve"
  /\ IF Resolve(calls[c].copy.target) = {}
     THEN Return(c)
     ELSE calls' = [calls EXCEPT ![c].pc = "write"]
  /\ UNCHANGED <<up, worldVars, dbVars, seqVars, running, runners>>

\* RefreshStatus reads the instance,
BeginRefresh(c, i) ==
  /\ up /\ c \notin DOMAIN calls /\ i \in DOMAIN instances
  /\ calls' = Put(calls, c,
       [req |-> "refresh", id |-> i, pc |-> "statuses", parallel |-> FALSE,
        copy |-> instances[i]])
  /\ UNCHANGED <<up, worldVars, dbVars, seqVars, running, runners>>

\* ... then the stacks of its targets.
RefreshStatuses(c) ==
  /\ c \in DOMAIN calls /\ calls[c].pc = "statuses"
  /\ LET r == calls[c]
     IN  IF StatusesFail(r.id, r.copy.target)
         THEN Return(c)
         ELSE calls' = [calls EXCEPT ![c] =
                [r EXCEPT !.pc = "write",
                          !.copy.status =
                            AggregateStatus(TargetStatuses(r.id, r.copy.target))]]
  /\ UNCHANGED <<up, worldVars, dbVars, seqVars, running, runners>>

\* The last step of both: the whole record is written back.
WriteInstance(c) ==
  /\ c \in DOMAIN calls /\ calls[c].pc = "write"
  /\ instances' = Put(instances, calls[c].id, calls[c].copy)
  /\ Return(c)
  /\ UNCHANGED <<up, worldVars, operations, stacks, seqVars, running, runners>>

\* serviceInstanceDelete: the operation history goes first,
BeginDelete(c, i) ==
  /\ up /\ c \notin DOMAIN calls /\ i \in DOMAIN instances
  /\ operations' = Drop(operations, Purged(i))
  /\ calls' = Put(calls, c,
       [req |-> "delete", id |-> i, pc |-> "purged", parallel |-> FALSE,
        copy |-> instances[i]])
  /\ UNCHANGED <<up, worldVars, instances, stacks, seqVars, running, runners>>

\* ... then the instance; the stacks stay.
EndDelete(c) ==
  /\ c \in DOMAIN calls /\ calls[c].pc = "purged"
  /\ instances' = Drop(instances, {calls[c].id})
  /\ Return(c)
  /\ UNCHANGED <<up, worldVars, operations, stacks, seqVars, running, runners>>

-----------------------------------------------------------------------------
(* ExecuteOperation.  Its caller is an HTTP client, whose operation takes   *)
(* the targets in sequence, or a scheduled build, which deploys to all of   *)
(* them in parallel.                                                        *)

\* Mutation: the guard is set without being tested.
Acquire_Unguarded(c, i, type, parallel) ==
  /\ up /\ c \notin DOMAIN calls /\ i \in DOMAIN instances
  /\ nextOperation + Cardinality(Executing) <= MaxOperations
  /\ running' = running \cup {i}
  /\ calls' = Put(calls, c,
       [req |-> type, id |-> i, pc |-> "read", parallel |-> parallel,
        copy |-> instances[i]])
  /\ UNCHANGED <<up, worldVars, dbVars, seqVars, runners>>

\* startOperation's checks, then the guard.  When it is taken the request is
\* answered with 409 Conflict and nothing changes.
Acquire(c, i, type, parallel) ==
  /\ up /\ c \notin DOMAIN calls /\ i \in DOMAIN instances
  /\ nextOperation + Cardinality(Executing) <= MaxOperations
  /\ i \notin running
  /\ running' = running \cup {i}
  /\ calls' = Put(calls, c,
       [req |-> type, id |-> i, pc |-> "read", parallel |-> parallel,
        copy |-> instances[i]])
  /\ UNCHANGED <<up, worldVars, dbVars, seqVars, runners>>

\* ServiceInstance().Read under the guard.
ReadForOperation(c) ==
  /\ c \in DOMAIN calls /\ calls[c].pc = "read"
  /\ calls[c].id \in DOMAIN instances
  /\ calls' = [calls EXCEPT ![c].copy = instances[calls[c].id],
                            ![c].pc = "launch"]
  /\ UNCHANGED <<up, worldVars, dbVars, seqVars, running, runners>>

\* Mutation: an error path returns without releaseOperation.
AbortOperation_Leaks(c) ==
  /\ c \in DOMAIN calls
  /\ \/ calls[c].pc = "read" /\ calls[c].id \notin DOMAIN instances
     \/ calls[c].pc = "launch" /\ Resolve(calls[c].copy.target) = {}
  /\ Return(c)
  /\ UNCHANGED <<up, worldVars, dbVars, seqVars, running, runners>>

\* The error paths: the instance is gone, or it has no target left.
AbortOperation(c) ==
  /\ c \in DOMAIN calls
  /\ \/ calls[c].pc = "read" /\ calls[c].id \notin DOMAIN instances
     \/ calls[c].pc = "launch" /\ Resolve(calls[c].copy.target) = {}
  /\ running' = running \ {calls[c].id}
  /\ Return(c)
  /\ UNCHANGED <<up, worldVars, dbVars, seqVars, runners>>

\* The operation record is created and its goroutine started.
Launch(c) ==
  /\ c \in DOMAIN calls /\ calls[c].pc = "launch"
  /\ nextOperation <= MaxOperations
  /\ LET r    == calls[c]
         envs == Resolve(r.copy.target)
         op   == [id |-> r.id, type |-> r.req, status |-> "Running",
                  results |-> [e \in envs |-> "Pending"]]
     IN  /\ envs # {}
         /\ operations' = Put(operations, nextOperation, op)
         /\ runners' = Put(runners, nextOperation,
              [copy |-> r.copy, op |-> op, parallel |-> r.parallel,
               work |-> [e \in envs |-> "idle"], stack |-> EmptyTable,
               phase |-> "targets"])
  /\ nextOperation' = nextOperation + 1
  /\ Return(c)
  /\ UNCHANGED <<up, worldVars, instances, stacks, nextInstance, nextStack,
                 running>>

-----------------------------------------------------------------------------
(* runOperation: one worker per target.  Run in sequence, a worker starts   *)
(* when the others are finished and none has failed; in parallel they are   *)
(* goroutines of their own.                                                 *)

At(o, e, pc) ==
  /\ o \in DOMAIN runners
  /\ e \in DOMAIN runners[o].work
  /\ runners[o].work[e] = pc

Goto(o, e, pc) == runners' = [runners EXCEPT ![o].work[e] = pc]

\* The result of a target is set in memory, then the record is persisted.
Report(o, e, result, pc) ==
  LET r == [runners[o] EXCEPT !.op.results[e] = result, !.work[e] = pc]
  IN  /\ runners' = [runners EXCEPT ![o] = r]
      /\ operations' = Put(operations, o, r.op)
      /\ UNCHANGED <<up, worldVars, instances, stacks, seqVars, running, calls>>

\* Mutation: the loop goes on after a failure.
MayStart_KeepsGoing(r) ==
  \/ r.parallel
  \/ \A f \in DOMAIN r.work : r.work[f] \in {"idle", "done"}

\* Mutation: the operation does not look at `parallel'.
MayStart_InSequence(r) ==
  \A f \in DOMAIN r.work : /\ r.work[f] \in {"idle", "done"}
                           /\ r.op.results[f] # "Failed"

\* No target failed yet and nobody else is at work.
MayStart(r) ==
  \/ r.parallel
  \/ \A f \in DOMAIN r.work : /\ r.work[f] \in {"idle", "done"}
                              /\ r.op.results[f] # "Failed"

StartTarget(o, e) ==
  /\ At(o, e, "idle")
  /\ MayStart(runners[o])
  /\ Report(o, e, "Running", "find")

EndTarget(o, e) ==
  \/ At(o, e, "ok")  /\ Report(o, e, "Success", "done")
  \/ At(o, e, "err") /\ Report(o, e, "Failed", "done")

\* Where each operation type goes with the stack it found.
AfterFind(type) == IF type \in {"deploy", "redeploy"} THEN "store"
                   ELSE IF type = "start" THEN "deploy"
                   ELSE "undeploy"

\* A worker goes on with stack k in hand.
TakeStack(o, e, k, pc) ==
  LET r == [runners[o] EXCEPT !.work[e] = pc, !.stack = Put(runners[o].stack, e, k)]
  IN  runners' = [runners EXCEPT ![o] = r]

\* Mutation: a deployment creates its record without looking for one.
FindStack_AlwaysCreates(o, e) ==
  /\ At(o, e, "find")
  /\ Goto(o, e, IF runners[o].op.type \in {"deploy", "redeploy"}
                THEN "create" ELSE "err")
  /\ UNCHANGED <<up, worldVars, dbVars, seqVars, running, calls>>

\* findStackOnEndpoint: a stack of this instance, of somebody else, or none.
FindStack(o, e) ==
  /\ At(o, e, "find")
  /\ LET r == runners[o]
         i == r.op.id
     IN  \/ Conflict(i, e) /\ Goto(o, e, "err")
         \/ /\ Found(i, e) = {}
            /\ Goto(o, e, IF r.op.type \in {"deploy", "redeploy"}
                          THEN "create" ELSE "err")
         \/ /\ ~Conflict(i, e)
            /\ \E k \in Found(i, e) :
                 TakeStack(o, e, k, AfterFind(r.op.type))
  /\ UNCHANGED <<up, worldVars, dbVars, seqVars, running, calls>>

\* createStackRecord: PrepareStackStatusForDeployment sets Deploying.
CreateStackRecord(o, e) ==
  /\ At(o, e, "create")
  /\ nextStack <= MaxStacks
  /\ stacks' = Put(stacks, nextStack,
       [id |-> runners[o].op.id, env |-> e, owner |-> runners[o].op.id,
        status |-> "Deploying"])
  /\ TakeStack(o, e, nextStack, "store")
  /\ nextStack' = nextStack + 1
  /\ UNCHANGED <<up, worldVars, instances, operations, nextInstance,
                 nextOperation, running, calls>>

\* storeComposeFile writes the project file and the stack's ProjectPath; the
\* write to disk may fail.
StoreComposeFile(o, e) ==
  /\ At(o, e, "store")
  /\ \/ /\ files' = Put(files, runners[o].stack[e], runners[o].copy.compose)
        /\ Goto(o, e, "deploy")
     \/ /\ Goto(o, e, "err")
        /\ UNCHANGED files
  /\ UNCHANGED <<up, place, engine, dbVars, seqVars, running, calls>>

\* deployStack up to the return of config.Deploy.  Building the configuration
\* may fail before anything is deployed; the deployment may fail having
\* changed nothing or having left the project half up.
DeployStack(o, e) ==
  /\ At(o, e, "deploy")
  /\ LET i == runners[o].op.id
         k == runners[o].stack[e]
     IN  \/ /\ Goto(o, e, "err")
            /\ UNCHANGED engine
         \/ /\ k \in DOMAIN files
            /\ engine' = [engine EXCEPT ![i][e] = files[k]]
            /\ Goto(o, e, "saveActive")
         \/ /\ \E s \in {engine[i][e], "broken"} :
                 engine' = [engine EXCEPT ![i][e] = s]
            /\ Goto(o, e, "saveError")
  /\ UNCHANGED <<up, place, files, dbVars, seqVars, running, calls>>

\* undeployStack up to the return of UndeployComposeStack.
UndeployStack(o, e) ==
  /\ At(o, e, "undeploy")
  /\ LET i == runners[o].op.id
     IN  \/ /\ engine' = [engine EXCEPT ![i][e] = "down"]
            /\ Goto(o, e, "saveInactive")
         \/ /\ \E s \in {engine[i][e], "broken"} :
                 engine' = [engine EXCEPT ![i][e] = s]
            /\ Goto(o, e, "err")
  /\ UNCHANGED <<up, place, files, dbVars, seqVars, running, calls>>

\* Mutation: a restart stops after the undeployment.
SaveStack_RestartStops(o, e) ==
  /\ o \in DOMAIN runners
  /\ e \in DOMAIN runners[o].work
  /\ LET pc  == runners[o].work[e]
         k   == runners[o].stack[e]
         set(status, next) ==
           /\ stacks' = Put(stacks, k, [stacks[k] EXCEPT !.status = status])
           /\ Goto(o, e, next)
     IN  \/ pc = "saveActive" /\ set("Active", "ok")
         \/ pc = "saveError" /\ set("Error", "err")
         \/ pc = "saveInactive" /\ set("Inactive", "ok")
  /\ UNCHANGED <<up, worldVars, instances, operations, seqVars, running, calls>>

\* The stack status that follows; a restart goes on to deploy.
SaveStack(o, e) ==
  /\ o \in DOMAIN runners
  /\ e \in DOMAIN runners[o].work
  /\ LET pc  == runners[o].work[e]
         k   == runners[o].stack[e]
         set(status, next) ==
           /\ stacks' = Put(stacks, k, [stacks[k] EXCEPT !.status = status])
           /\ Goto(o, e, next)
     IN  \/ pc = "saveActive" /\ set("Active", "ok")
         \/ pc = "saveError" /\ set("Error", "err")
         \/ /\ pc = "saveInactive"
            /\ set("Inactive", IF runners[o].op.type = "restart"
                               THEN "deploy" ELSE "ok")
  /\ UNCHANGED <<up, worldVars, instances, operations, seqVars, running, calls>>

\* Every worker is through, or the sequential loop skips the rest.
TargetsDone(r) ==
  /\ r.phase = "targets"
  /\ \A e \in DOMAIN r.work : r.work[e] \in {"idle", "done"}
  /\ (\E e \in DOMAIN r.work : r.work[e] = "idle") => ~MayStart(r)

\* finalizeOperation: first the operation's final status,
FinalizeOperation(o) ==
  /\ o \in DOMAIN runners
  /\ TargetsDone(runners[o])
  /\ LET r       == runners[o]
         results == [e \in DOMAIN r.op.results |->
                       IF r.work[e] = "idle" THEN "Skipped" ELSE r.op.results[e]]
         op      == [r.op EXCEPT !.results = results, !.status = Outcome(results)]
     IN  /\ operations' = Put(operations, o, op)
         /\ runners' = [runners EXCEPT ![o] =
              [r EXCEPT !.op = op, !.phase = "statuses"]]
  /\ UNCHANGED <<up, worldVars, instances, stacks, seqVars, running, calls>>

\* The goroutine returns and releases the guard.
Finish(o) ==
  /\ runners' = Drop(runners, {o})
  /\ running' = running \ {runners[o].op.id}

\* ... then the stacks of the targets, resolved anew for the copy; on an
\* ownership conflict the instance is not updated,
ReadStatuses(o) ==
  /\ o \in DOMAIN runners /\ runners[o].phase = "statuses"
  /\ LET r == runners[o]
     IN  IF StatusesFail(r.op.id, r.copy.target)
         THEN Finish(o)
         ELSE /\ runners' = [runners EXCEPT ![o] =
                   [r EXCEPT !.phase = "write",
                             !.copy.status = AggregateStatus(
                               TargetStatuses(r.op.id, r.copy.target))]]
              /\ UNCHANGED running
  /\ UNCHANGED <<up, worldVars, dbVars, seqVars, calls>>

\* ... then the whole copy of the instance.
FinishOperation(o) ==
  /\ o \in DOMAIN runners /\ runners[o].phase = "write"
  /\ instances' = Put(instances, runners[o].op.id, runners[o].copy)
  /\ Finish(o)
  /\ UNCHANGED <<up, worldVars, operations, stacks, seqVars, calls>>

-----------------------------------------------------------------------------
(* The process and the environments.                                       *)

\* The process dies: what is in memory is gone.
Crash ==
  /\ up
  /\ up' = FALSE
  /\ running' = {}
  /\ calls' = EmptyTable
  /\ runners' = EmptyTable
  /\ UNCHANGED <<worldVars, dbVars, seqVars>>

\* recoverStaleDeployingStacks
RecoverStack(stack) ==
  IF stack.status = "Deploying" THEN [stack EXCEPT !.status = "Error"] ELSE stack

\* Mutation: the recovery forgets the targets that had not started.
RecoverOperation_RunningOnly(op) ==
  IF op.status = "Running"
  THEN [op EXCEPT !.status = "Failed",
                  !.results = [e \in DOMAIN @ |->
                     IF @[e] = "Running" THEN "Skipped" ELSE @[e]]]
  ELSE op

\* recoverStaleServiceInstanceOperations
RecoverOperation(op) ==
  IF op.status = "Running"
  THEN [op EXCEPT !.status = "Failed",
                  !.results = [e \in DOMAIN @ |->
                     IF @[e] \in {"Running", "Pending"} THEN "Skipped" ELSE @[e]]]
  ELSE op

\* Mutation: only the stacks are recovered.
Restart_StacksOnly ==
  /\ ~up
  /\ up' = TRUE
  /\ stacks' = [k \in DOMAIN stacks |-> RecoverStack(stacks[k])]
  /\ UNCHANGED <<worldVars, instances, operations, seqVars, memVars>>

\* buildServer recovers before the server listens.
Restart ==
  /\ ~up
  /\ up' = TRUE
  /\ stacks' = [k \in DOMAIN stacks |-> RecoverStack(stacks[k])]
  /\ operations' = [o \in DOMAIN operations |-> RecoverOperation(operations[o])]
  /\ UNCHANGED <<worldVars, instances, seqVars, memVars>>

\* An administrator moves an environment to another group or deletes it.
MoveEnvironment(e) ==
  /\ \E p \in Places : /\ <<place[e], p>> \in Membership
                       /\ place' = [place EXCEPT ![e] = p]
  /\ UNCHANGED <<up, files, engine, dbVars, seqVars, memVars>>

-----------------------------------------------------------------------------
Handlers ==
  \/ \E compose \in ComposeFiles, target \in Targets : Create(compose, target)
  \/ \E c \in Clients, i \in Instances :
       \/ \E type \in OperationTypes : Acquire(c, i, type, FALSE)
       \/ "build" \in Requests /\ Acquire(c, i, "deploy", TRUE)
       \/ "refresh" \in Requests /\ BeginRefresh(c, i)
       \/ "delete" \in Requests /\ BeginDelete(c, i)
       \/ /\ "update" \in Requests
          /\ \E compose \in ComposeFiles, target \in Targets :
               BeginUpdate(c, i, compose, target)

HandlerStep(c) ==
  \/ ReadForOperation(c) \/ AbortOperation(c) \/ Launch(c)
  \/ ResolveUpdate(c) \/ RefreshStatuses(c) \/ WriteInstance(c) \/ EndDelete(c)

WorkStep(o, e) ==
  \/ StartTarget(o, e) \/ FindStack(o, e) \/ CreateStackRecord(o, e)
  \/ StoreComposeFile(o, e) \/ DeployStack(o, e) \/ UndeployStack(o, e)
  \/ SaveStack(o, e) \/ EndTarget(o, e)

RunnerStep(o) ==
  \/ \E e \in Environments : WorkStep(o, e)
  \/ FinalizeOperation(o) \/ ReadStatuses(o) \/ FinishOperation(o)

Next ==
  \/ Handlers
  \/ \E c \in Clients : HandlerStep(c)
  \/ \E o \in Operations : RunnerStep(o)
  \/ Crash
  \/ Restart
  \/ \E e \in Environments : MoveEnvironment(e)

Spec == Init /\ [][Next]_vars

\* The Go scheduler runs every goroutine; a deployment returns, at the latest
\* when runOperation's context expires after 30 minutes; a supervisor starts
\* the process again.
Fairness ==
  /\ \A c \in Clients : WF_vars(HandlerStep(c))
  /\ \A o \in Operations : WF_vars(RunnerStep(o))
  /\ WF_vars(Restart)

FairSpec == Spec /\ Fairness

-----------------------------------------------------------------------------
(* Safety.                                                                 *)

\* The guard of an instance is taken exactly while one handler is between
\* taking it and starting the goroutine, or one goroutine has not returned;
\* never two of them for the same instance (ExecuteOperation's mutual
\* exclusion, and every path that must release the guard).
Holders(i) == {<<"call", c>> : c \in {d \in Executing : calls[d].id = i}}
        \cup {<<"runner", o>> : o \in {p \in DOMAIN runners : runners[p].op.id = i}}

GuardExact ==
  \A i \in Instances :
    /\ i \in running <=> Holders(i) # {}
    /\ \A h, g \in Holders(i) : h = g

\* A record that says Running is being worked on: its goroutine has not
\* finalized it.  A crash leaves none behind once the server is up again.
RunningIsOwned ==
  up => \A o \in DOMAIN operations :
          operations[o].status = "Running" =>
            o \in DOMAIN runners /\ runners[o].phase = "targets"

\* Fail-fast: in the sequential operations that HTTP requests start, at most
\* one target was ever attempted without success, and the containers of the
\* others are not in anybody's hands.
FailFast ==
  \A o \in DOMAIN runners :
    ~runners[o].parallel =>
      Cardinality({e \in DOMAIN runners[o].work :
                     runners[o].op.results[e] \in {"Running", "Failed"}}) <= 1

\* In the parallel operations of scheduled builds every target reports for
\* itself: when the goroutine has finalized the operation, each of them has
\* succeeded or failed, whatever happened on the others, and none was skipped.
ParallelReportsAll ==
  \A o \in DOMAIN runners :
    runners[o].parallel /\ runners[o].phase # "targets" =>
      \A e \in DOMAIN runners[o].op.results :
        runners[o].op.results[e] \in {"Success", "Failed"}

\* While its goroutine is alive, a target reported as Success is in the state
\* the operation was to bring about: the containers run the compose file the
\* operation started from (deploy) or the stored one (start, restart), or are
\* down, and the stack record says so.  Nobody else may have touched them.
SuccessIsReal ==
  \A o \in DOMAIN runners : \A e \in DOMAIN runners[o].work :
    LET r == runners[o]
        i == r.op.id
        k == r.stack[e]
    IN  r.op.results[e] = "Success" =>
          CASE r.op.type \in {"deploy", "redeploy"} ->
                 engine[i][e] = r.copy.compose /\ stacks[k].status = "Active"
            [] r.op.type \in {"start", "restart"} ->
                 /\ k \in DOMAIN files
                 /\ engine[i][e] = files[k]
                 /\ stacks[k].status = "Active"
            [] r.op.type = "stop" ->
                 engine[i][e] = "down" /\ stacks[k].status = "Inactive"

\* A worker that has a stack in hand holds an existing record, of its own
\* environment, that its instance owns: an ownership conflict or a missing
\* stack never gets as far as a write.
HoldsStack == {"store", "deploy", "saveActive", "saveError", "undeploy",
               "saveInactive"}

WorkersOwnTheirStack ==
  \A o \in DOMAIN runners : \A e \in DOMAIN runners[o].work :
    runners[o].work[e] \in HoldsStack =>
      /\ e \in DOMAIN runners[o].stack
      /\ runners[o].stack[e] \in DOMAIN stacks
      /\ stacks[runners[o].stack[e]].env = e
      /\ stacks[runners[o].stack[e]].owner = runners[o].op.id

\* An instance has at most one stack record per environment: finding before
\* creating is enough, through crashes and repeated operations.
OneStackPerTarget ==
  \A k, l \in DOMAIN stacks :
    /\ stacks[k].owner # NoOwner
    /\ <<stacks[k].owner, stacks[k].env>> = <<stacks[l].owner, stacks[l].env>>
    => k = l

-----------------------------------------------------------------------------
(* What a step may never do.                                               *)

\* A stack of the same name that the instance does not own is never written,
\* and no containers on that environment are replaced.
ForeignUntouched ==
  [][\A k \in DOMAIN stacks :
       stacks[k].owner = NoOwner =>
         /\ k \in DOMAIN stacks' /\ stacks'[k] = stacks[k]
         /\ engine'[stacks[k].id][stacks[k].env] = engine[stacks[k].id][stacks[k].env]]_vars

\* Service.Update: "persists changes to an existing service instance".  The
\* compose file of an instance changes only when an update request writes it.
EditsSurvive ==
  [][\A i \in DOMAIN instances \cap DOMAIN instances' :
       instances'[i].compose # instances[i].compose =>
         \E c \in DOMAIN calls \ DOMAIN calls' :
           calls[c].req = "update" /\ calls[c].id = i]_vars

-----------------------------------------------------------------------------
(* Liveness.                                                               *)

\* The guard of an instance does not stay taken: a later request is accepted.
GuardReleased ==
  \A i \in Instances : i \in running ~> i \notin running

-----------------------------------------------------------------------------
(* Refinement.                                                             *)

\* What the operation bucket shows of each operation.
Journal == INSTANCE OperationJournal WITH
  journal <- [o \in DOMAIN operations |->
                [id      |-> operations[o].id,
                 status  |-> operations[o].status,
                 results |-> operations[o].results]]

\* At every step, in sequence and in parallel, the history moves as a journal
\* may: what is finished stays, a result once given stands, targets are left out
\* only where one failed, and a status follows from its results
\* (finalizeOperation, recoverStaleServiceInstanceOperations).
KeepsJournal == Journal!Safety

\* As long as no client deletes an instance, the bucket of operations behaves
\* as the journal: one open operation per instance, each moving target by
\* target to its end, through crashes and restarts, and reaching it.
ImplementsJournal == Journal!Spec
=============================================================================
