----------------------- MODULE ServiceOperationsProofs -----------------------
(***************************************************************************)
(* Theorems about ServiceOperations, for every value of its constants, in  *)
(* the order in which they rest on each other: types and identifiers, the  *)
(* guard (GuardInv), the records of the operations (RecordInv), the        *)
(* journal they implement, and the stacks and containers (StackInv).       *)
(***************************************************************************)
EXTENDS ServiceOperations, TablesTheorems, FiniteSetTheorems, WellFoundedInduction

\* The status derived from results is a status of an instance.
LEMMA AggregateType == ASSUME NEW st PROVE AggregateStatus(st) \in InstanceStatus
BY DEF AggregateStatus, InstanceStatus

\* The outcome derived from results is a terminal status.
LEMMA OutcomeType == ASSUME NEW results PROVE Outcome(results) \in TerminalStatus
BY DEF Outcome, TerminalStatus, OperationStatus

\* Operations resolve to known environments.
LEMMA ResolveType ==
  ASSUME NEW target \in [group : BOOLEAN, envs : SUBSET Environments]
  PROVE  Resolve(target) \in SUBSET Environments
BY DEF Resolve

-----------------------------------------------------------------------------
(* Type correctness, with the fact about stacks that it rests on.           *)

TypeInv == TypeOK /\ WorkersOwnTheirStack

\* Identifiers come from the buckets' sequences, so the next one is free.
Allocated ==
  /\ \A o \in DOMAIN operations \cup DOMAIN runners : o < nextOperation
  /\ \A k \in DOMAIN stacks : k < nextStack

\* The types hold at the start.
LEMMA InitType == Init => TypeInv
<1> SUFFICES ASSUME Init PROVE TypeInv
  OBVIOUS
<1>1. IsTable(instances, Instances, Instance) /\ IsTable(operations, Operations, Operation)
      /\ IsTable(files, StackIds, ComposeFiles) /\ IsTable(calls, Clients, Call)
      /\ IsTable(runners, Operations, Runner) /\ DOMAIN runners = {}
  BY EmptyIsTable DEF Init
<1>2. IsTable(stacks, StackIds, Stack)
  BY BoundsAssumption, WorkloadAssumption
     DEF Init, IsTable, StackIds, Stack, StackStatus, Instances, NoOwner
<1>3. /\ up \in BOOLEAN
      /\ place \in [Environments -> Places]
      /\ nextInstance \in 1..(MaxInstances + 1)
      /\ nextOperation \in 1..(MaxOperations + 1)
      /\ nextStack \in 1..(MaxStacks + 1)
      /\ engine \in [Instances -> [Environments -> ComposeFiles \cup {"down", "broken"}]]
      /\ running \subseteq Instances
  BY BoundsAssumption, WorkloadAssumption DEF Init, Places
<1>4. WorkersOwnTheirStack
  BY <1>1 DEF WorkersOwnTheirStack
<1> QED BY <1>1, <1>2, <1>3, <1>4 DEF TypeInv, TypeOK

\* Create keeps the types and the ownership.
LEMMA CreateType ==
  ASSUME TypeInv, NEW compose \in ComposeFiles, NEW target \in Targets,
         Create(compose, target)
  PROVE  TypeInv'
<1> DEFINE new == [compose |-> compose, target |-> target, status |-> "Unknown"]
<1>1. nextInstance \in Instances /\ nextInstance' \in 1..(MaxInstances + 1)
  BY BoundsAssumption DEF TypeInv, TypeOK, Create, Instances
<1>2. new \in Instance
  BY WorkloadAssumption DEF Instance, InstanceStatus
<1>3. IsTable(instances', Instances, Instance)
  BY <1>1, <1>2, PutTable DEF TypeInv, TypeOK, Create
<1> QED
  BY <1>1, <1>3 DEF TypeInv, TypeOK, WorkersOwnTheirStack, Create, worldVars, memVars

\* What a handler's record holds.
LEMMA CallFields ==
  ASSUME TypeInv, NEW c \in DOMAIN calls
  PROVE  /\ c \in Clients
         /\ calls[c] \in Call
         /\ calls[c].id \in Instances
         /\ calls[c].copy \in Instance
         /\ calls[c].parallel \in BOOLEAN
         /\ calls[c].pc \in {"read", "launch"} => calls[c].req \in Lifecycle
         /\ calls[c].pc \in {"resolve", "statuses", "write", "purged"}
              => calls[c].req \in Edits
         /\ calls[c].copy.target \in [group : BOOLEAN, envs : SUBSET Environments]
<1>1. c \in Clients /\ calls[c] \in Call
  BY TableValue DEF TypeInv, TypeOK
<1>2. calls[c].copy \in Instance
  BY <1>1 DEF Call
<1>3. calls[c].copy.target \in [group : BOOLEAN, envs : SUBSET Environments]
  BY <1>2 DEF Instance
<1> QED BY <1>1, <1>2, <1>3 DEF Call

\* Return keeps the types and the ownership.
LEMMA ReturnType ==
  ASSUME TypeInv, NEW c, Return(c)
  PROVE  IsTable(calls, Clients, Call)'
BY DropTable DEF TypeInv, TypeOK, Return

\* BeginUpdate keeps the types and the ownership.
LEMMA BeginUpdateType ==
  ASSUME TypeInv, NEW c \in Clients, NEW i \in Instances,
         NEW compose \in ComposeFiles, NEW target \in Targets,
         BeginUpdate(c, i, compose, target)
  PROVE  TypeInv'
<1> DEFINE call == [req |-> "update", id |-> i, pc |-> "resolve", parallel |-> FALSE,
        copy |-> [instances[i] EXCEPT !.compose = compose, !.target = target]]
<1>1. instances[i] \in Instance
  BY TableValue DEF TypeInv, TypeOK, BeginUpdate
<1>2. call.copy \in Instance
  BY <1>1, WorkloadAssumption DEF Instance
<1>3. call \in Call
  BY <1>2 DEF Call, Edits
<1>4. IsTable(calls', Clients, Call)
  BY <1>3, PutTable DEF TypeInv, TypeOK, BeginUpdate
<1> QED
  BY <1>4 DEF TypeInv, TypeOK, WorkersOwnTheirStack, BeginUpdate, worldVars, dbVars,
              seqVars

\* ResolveUpdate keeps the types and the ownership.
LEMMA ResolveUpdateType ==
  ASSUME TypeInv, NEW c, ResolveUpdate(c)
  PROVE  TypeInv'
<1>1. c \in DOMAIN calls /\ calls[c].pc = "resolve"
  BY DEF ResolveUpdate
<1>2. calls[c] \in Call
  BY <1>1, CallFields
<1>3. [calls[c] EXCEPT !.pc = "write"] \in Call
  BY <1>1, <1>2 DEF Call
<1>4. IsTable(calls', Clients, Call)
  <2>1. CASE Return(c)
    BY <2>1, ReturnType
  <2>2. CASE calls' = [calls EXCEPT ![c].pc = "write"]
    BY <1>1, <1>3, <2>2, ExceptTable DEF TypeInv, TypeOK
  <2> QED BY <2>1, <2>2 DEF ResolveUpdate
<1> QED
  BY <1>4 DEF TypeInv, TypeOK, WorkersOwnTheirStack, ResolveUpdate, worldVars, dbVars,
              seqVars

\* BeginRefresh keeps the types and the ownership.
LEMMA BeginRefreshType ==
  ASSUME TypeInv, NEW c \in Clients, NEW i \in Instances, BeginRefresh(c, i)
  PROVE  TypeInv'
<1> DEFINE call == [req |-> "refresh", id |-> i, pc |-> "statuses",
                    parallel |-> FALSE, copy |-> instances[i]]
<1>1. instances[i] \in Instance
  BY TableValue DEF TypeInv, TypeOK, BeginRefresh
<1>2. call \in Call
  BY <1>1 DEF Call, Edits
<1>3. IsTable(calls', Clients, Call)
  BY <1>2, PutTable DEF TypeInv, TypeOK, BeginRefresh
<1> QED
  BY <1>3 DEF TypeInv, TypeOK, WorkersOwnTheirStack, BeginRefresh, worldVars, dbVars,
              seqVars

\* RefreshStatuses keeps the types and the ownership.
LEMMA RefreshStatusesType ==
  ASSUME TypeInv, NEW c, RefreshStatuses(c)
  PROVE  TypeInv'
<1> DEFINE status == AggregateStatus(TargetStatuses(calls[c].id, calls[c].copy.target))
           new    == [calls[c] EXCEPT !.pc = "write", !.copy.status = status]
<1>1. c \in DOMAIN calls /\ calls[c].pc = "statuses"
  BY DEF RefreshStatuses
<1>2. calls[c] \in Call /\ calls[c].copy \in Instance
  BY <1>1, CallFields
<1>3. status \in InstanceStatus
  BY AggregateType
<1>4. [calls[c].copy EXCEPT !.status = status] \in Instance
  BY <1>2, <1>3 DEF Instance
<1>5. new \in Call
  BY <1>1, <1>2, <1>4 DEF Call
<1> HIDE DEF new
<1>6. IsTable(calls', Clients, Call)
  <2>1. CASE Return(c)
    BY <2>1, ReturnType
  <2>2. CASE calls' = [calls EXCEPT ![c] = new]
    BY <1>1, <1>5, <2>2, ExceptTable DEF TypeInv, TypeOK
  <2> QED BY <2>1, <2>2 DEF RefreshStatuses, new
<1> QED
  BY <1>6 DEF TypeInv, TypeOK, WorkersOwnTheirStack, RefreshStatuses, worldVars, dbVars,
              seqVars

\* WriteInstance keeps the types and the ownership.
LEMMA WriteInstanceType ==
  ASSUME TypeInv, NEW c, WriteInstance(c)
  PROVE  TypeInv'
<1>1. c \in DOMAIN calls
  BY DEF WriteInstance
<1>2. IsTable(instances', Instances, Instance)
  BY <1>1, CallFields, PutTable DEF TypeInv, TypeOK, WriteInstance
<1>3. IsTable(calls', Clients, Call)
  BY ReturnType DEF WriteInstance
<1> QED
  BY <1>2, <1>3 DEF TypeInv, TypeOK, WorkersOwnTheirStack, WriteInstance, worldVars,
                    seqVars

\* BeginDelete keeps the types and the ownership.
LEMMA BeginDeleteType ==
  ASSUME TypeInv, NEW c \in Clients, NEW i \in Instances, BeginDelete(c, i)
  PROVE  TypeInv'
<1> DEFINE call == [req |-> "delete", id |-> i, pc |-> "purged",
                    parallel |-> FALSE, copy |-> instances[i]]
<1>1. instances[i] \in Instance
  BY TableValue DEF TypeInv, TypeOK, BeginDelete
<1>2. call \in Call
  BY <1>1 DEF Call, Edits
<1>3. IsTable(calls', Clients, Call)
  BY <1>2, PutTable DEF TypeInv, TypeOK, BeginDelete
<1>4. IsTable(operations', Operations, Operation)
  BY DropTable DEF TypeInv, TypeOK, BeginDelete
<1> QED
  BY <1>3, <1>4 DEF TypeInv, TypeOK, WorkersOwnTheirStack, BeginDelete, worldVars,
                    seqVars

\* EndDelete keeps the types and the ownership.
LEMMA EndDeleteType ==
  ASSUME TypeInv, NEW c, EndDelete(c)
  PROVE  TypeInv'
<1>1. IsTable(instances', Instances, Instance)
  BY DropTable DEF TypeInv, TypeOK, EndDelete
<1>2. IsTable(calls', Clients, Call)
  BY ReturnType DEF EndDelete
<1> QED
  BY <1>1, <1>2 DEF TypeInv, TypeOK, WorkersOwnTheirStack, EndDelete, worldVars,
                    seqVars

\* Acquire keeps the types and the ownership.
LEMMA AcquireType ==
  ASSUME TypeInv, NEW c \in Clients, NEW i \in Instances, NEW type \in Lifecycle,
         NEW parallel \in BOOLEAN, Acquire(c, i, type, parallel)
  PROVE  TypeInv'
<1> DEFINE call == [req |-> type, id |-> i, pc |-> "read",
                    parallel |-> parallel, copy |-> instances[i]]
<1>1. instances[i] \in Instance
  BY TableValue DEF TypeInv, TypeOK, Acquire
<1>2. call \in Call
  BY <1>1 DEF Call
<1>3. IsTable(calls', Clients, Call)
  BY <1>2, PutTable DEF TypeInv, TypeOK, Acquire
<1> QED
  BY <1>3 DEF TypeInv, TypeOK, WorkersOwnTheirStack, Acquire, worldVars, dbVars, seqVars

\* ReadForOperation keeps the types and the ownership.
LEMMA ReadForOperationType ==
  ASSUME TypeInv, NEW c, ReadForOperation(c)
  PROVE  TypeInv'
<1> DEFINE new == [calls[c] EXCEPT !.copy = instances[calls[c].id], !.pc = "launch"]
<1>1. c \in DOMAIN calls /\ calls[c].pc = "read" /\ calls' = [calls EXCEPT ![c] = new]
  BY DEF ReadForOperation
<1>2. calls[c] \in Call /\ instances[calls[c].id] \in Instance
  BY <1>1, CallFields, TableValue DEF TypeInv, TypeOK, ReadForOperation
<1>3. new \in Call
  BY <1>1, <1>2 DEF Call
<1> HIDE DEF new
<1>4. IsTable(calls', Clients, Call)
  BY <1>1, <1>3, ExceptTable DEF TypeInv, TypeOK
<1> QED
  BY <1>4 DEF TypeInv, TypeOK, WorkersOwnTheirStack, ReadForOperation, worldVars,
              dbVars, seqVars

\* AbortOperation keeps the types and the ownership.
LEMMA AbortOperationType ==
  ASSUME TypeInv, NEW c, AbortOperation(c)
  PROVE  TypeInv'
<1>1. IsTable(calls', Clients, Call)
  BY ReturnType DEF AbortOperation
<1> QED
  BY <1>1 DEF TypeInv, TypeOK, WorkersOwnTheirStack, AbortOperation, worldVars,
              dbVars, seqVars

\* The targets of a record start out alike.
LEMMA ConstantTable ==
  ASSUME NEW K, NEW V, NEW D \in SUBSET K, NEW v \in V
  PROVE  [x \in D |-> v] \in Table(K, V)
BY TableIsTable DEF IsTable

\* Launch keeps the types and the ownership.
LEMMA LaunchType ==
  ASSUME TypeInv, NEW c, Launch(c)
  PROVE  TypeInv'
<1> DEFINE r    == calls[c]
           envs == Resolve(r.copy.target)
           op   == [id |-> r.id, type |-> r.req, status |-> "Running",
                    results |-> [e \in envs |-> "Pending"]]
           run  == [copy |-> r.copy, op |-> op, parallel |-> r.parallel,
                    work |-> [e \in envs |-> "idle"], stack |-> EmptyTable,
                    phase |-> "targets"]
<1>1. /\ c \in DOMAIN calls /\ r.pc = "launch" /\ nextOperation <= MaxOperations
      /\ operations' = Put(operations, nextOperation, op)
      /\ runners' = Put(runners, nextOperation, run)
      /\ nextOperation' = nextOperation + 1
      /\ Return(c)
      /\ UNCHANGED <<up, place, files, engine, instances, stacks, nextInstance,
                     nextStack, running>>
  BY DEF Launch, worldVars
<1>2. /\ r.id \in Instances /\ r.copy \in Instance /\ r.parallel \in BOOLEAN
      /\ r.req \in Lifecycle /\ envs \in SUBSET Environments
  BY <1>1, CallFields, ResolveType
<1> HIDE DEF r, envs
<1>3. nextOperation \in Operations /\ nextOperation' \in 1..(MaxOperations + 1)
  BY <1>1, BoundsAssumption DEF TypeInv, TypeOK, Operations
<1>4. op \in Operation
  <2>1. [e \in envs |-> "Pending"] \in Table(Environments, TargetStatus)
    BY <1>2, ConstantTable DEF TargetStatus
  <2> QED BY <1>2, <2>1 DEF Operation, OperationStatus
<1> HIDE DEF op
<1>5. run \in Runner
  <2>1. [e \in envs |-> "idle"] \in Table(Environments, WorkPC)
    BY <1>2, ConstantTable DEF WorkPC
  <2>2. EmptyTable \in Table(Environments, StackIds)
    BY EmptyIsTable, TableIsTable
  <2> QED BY <1>2, <1>4, <2>1, <2>2 DEF Runner
<1>6. run.work = [e \in envs |-> "idle"]
  OBVIOUS
<1> HIDE DEF run
<1>7. /\ IsTable(operations', Operations, Operation)
      /\ IsTable(runners', Operations, Runner)
  BY <1>1, <1>3, <1>4, <1>5, PutTable DEF TypeInv, TypeOK
<1>8. WorkersOwnTheirStack'
  <2> SUFFICES ASSUME NEW p \in DOMAIN runners', NEW e \in DOMAIN runners'[p].work,
                      runners'[p].work[e] \in HoldsStack
               PROVE  /\ e \in DOMAIN runners'[p].stack
                      /\ runners'[p].stack[e] \in DOMAIN stacks'
                      /\ stacks'[runners'[p].stack[e]].env = e
                      /\ stacks'[runners'[p].stack[e]].owner = runners'[p].op.id
    BY DEF WorkersOwnTheirStack
  <2>1. CASE p = nextOperation
    BY <1>1, <1>6, <2>1 DEF Put, HoldsStack
  <2>2. CASE p # nextOperation
    BY <1>1, <2>2 DEF Put, TypeInv, WorkersOwnTheirStack
  <2> QED BY <2>1, <2>2
<1>9. IsTable(calls', Clients, Call)
  BY <1>1, ReturnType
<1> QED
  BY <1>1, <1>3, <1>7, <1>8, <1>9 DEF TypeInv, TypeOK

-----------------------------------------------------------------------------
(* The steps of runOperation.                                              *)

\* What a goroutine's record holds.
LEMMA RunnerFields ==
  ASSUME TypeInv, NEW o \in DOMAIN runners
  PROVE  /\ o \in Operations
         /\ runners[o] \in Runner
         /\ runners[o].copy \in Instance
         /\ runners[o].copy.target \in [group : BOOLEAN, envs : SUBSET Environments]
         /\ runners[o].op \in Operation
         /\ runners[o].op.id \in Instances
         /\ runners[o].op.type \in Lifecycle
         /\ IsTable(runners[o].op.results, Environments, TargetStatus)
         /\ IsTable(runners[o].work, Environments, WorkPC)
         /\ IsTable(runners[o].stack, Environments, StackIds)
<1>1. o \in Operations /\ runners[o] \in Runner
  BY TableValue DEF TypeInv, TypeOK
<1>2. /\ runners[o].copy \in Instance /\ runners[o].op \in Operation
      /\ runners[o].work \in Table(Environments, WorkPC)
      /\ runners[o].stack \in Table(Environments, StackIds)
  BY <1>1 DEF Runner
<1>3. runners[o].copy.target \in [group : BOOLEAN, envs : SUBSET Environments]
  BY <1>2 DEF Instance
<1>4. /\ runners[o].op.id \in Instances /\ runners[o].op.type \in Lifecycle
      /\ runners[o].op.results \in Table(Environments, TargetStatus)
  BY <1>2 DEF Operation
<1> QED BY <1>1, <1>2, <1>3, <1>4, TableIsTable

\* The stacks a step leaves in place: none disappears or changes hands.
KeepsStacks ==
  \A k \in DOMAIN stacks : /\ k \in DOMAIN stacks'
                           /\ stacks'[k].env = stacks[k].env
                           /\ stacks'[k].owner = stacks[k].owner

\* One goroutine takes a step to a record r that owns the stacks it holds.
OwnsItsStacks(r) ==
  \A e \in DOMAIN r.work :
    r.work[e] \in HoldsStack =>
      /\ e \in DOMAIN r.stack
      /\ r.stack[e] \in DOMAIN stacks'
      /\ stacks'[r.stack[e]].env = e
      /\ stacks'[r.stack[e]].owner = r.op.id

\* A goroutine whose new record is well formed keeps the types.
LEMMA RunnerMove ==
  ASSUME TypeInv, KeepsStacks, NEW o \in DOMAIN runners, NEW r \in Runner,
         runners' = [runners EXCEPT ![o] = r], OwnsItsStacks(r)
  PROVE  IsTable(runners', Operations, Runner) /\ WorkersOwnTheirStack'
<1>1. IsTable(runners', Operations, Runner)
  BY ExceptTable DEF TypeInv, TypeOK
<1>2. DOMAIN runners' = DOMAIN runners /\ runners'[o] = r
      /\ \A p \in DOMAIN runners : p # o => runners'[p] = runners[p]
  BY ExceptTable DEF TypeInv, TypeOK
<1>3. WorkersOwnTheirStack'
  <2> SUFFICES ASSUME NEW p \in DOMAIN runners', NEW e \in DOMAIN runners'[p].work,
                      runners'[p].work[e] \in HoldsStack
               PROVE  /\ e \in DOMAIN runners'[p].stack
                      /\ runners'[p].stack[e] \in DOMAIN stacks'
                      /\ stacks'[runners'[p].stack[e]].env = e
                      /\ stacks'[runners'[p].stack[e]].owner = runners'[p].op.id
    BY DEF WorkersOwnTheirStack
  <2>1. CASE p = o
    BY <1>2, <2>1 DEF OwnsItsStacks
  <2>2. CASE p # o
    BY <1>2, <2>2 DEF TypeInv, WorkersOwnTheirStack, KeepsStacks
  <2> QED BY <2>1, <2>2
<1> QED BY <1>1, <1>3

\* A worker that only moves on: it lets go of its stack, or had one already.
LEMMA GotoMove ==
  ASSUME TypeInv, KeepsStacks, NEW o, NEW e, NEW old, NEW pc \in WorkPC,
         At(o, e, old), old \in HoldsStack \/ pc \notin HoldsStack, Goto(o, e, pc)
  PROVE  IsTable(runners', Operations, Runner) /\ WorkersOwnTheirStack'
<1> DEFINE r == [runners[o] EXCEPT !.work[e] = pc]
<1>1. o \in DOMAIN runners /\ e \in DOMAIN runners[o].work /\ runners[o].work[e] = old
  BY DEF At
<1>2. runners' = [runners EXCEPT ![o] = r]
  BY DEF Goto
<1>3. /\ runners[o] \in Runner
      /\ IsTable(runners[o].work, Environments, WorkPC)
  BY <1>1, RunnerFields
<1>4. /\ [runners[o].work EXCEPT ![e] = pc] \in Table(Environments, WorkPC)
      /\ DOMAIN [runners[o].work EXCEPT ![e] = pc] = DOMAIN runners[o].work
      /\ [runners[o].work EXCEPT ![e] = pc][e] = pc
      /\ \A f \in DOMAIN runners[o].work :
           f # e => [runners[o].work EXCEPT ![e] = pc][f] = runners[o].work[f]
  BY <1>1, <1>3, ExceptTable, TableIsTable
<1>5. /\ r \in Runner
      /\ r.work = [runners[o].work EXCEPT ![e] = pc]
      /\ r.stack = runners[o].stack /\ r.op = runners[o].op
  BY <1>3, <1>4 DEF Runner
<1> HIDE DEF r
<1>6. OwnsItsStacks(r)
  BY <1>1, <1>4, <1>5 DEF OwnsItsStacks, TypeInv, WorkersOwnTheirStack, KeepsStacks
<1> QED BY <1>1, <1>2, <1>5, <1>6, RunnerMove

\* A step that does not write the bucket of stacks.
LEMMA SameStacks == stacks' = stacks => KeepsStacks
BY DEF KeepsStacks

\* The results of a target: the record in memory and the persisted one.
LEMMA ReportType ==
  ASSUME TypeInv, NEW o, NEW e, NEW old, NEW result \in TargetStatus,
         NEW pc \in WorkPC, At(o, e, old), pc \notin HoldsStack,
         Report(o, e, result, pc)
  PROVE  TypeInv'
<1> DEFINE res == [runners[o].op.results EXCEPT ![e] = result]
           wrk == [runners[o].work EXCEPT ![e] = pc]
           r   == [runners[o] EXCEPT !.op.results[e] = result, !.work[e] = pc]
<1>1. /\ o \in DOMAIN runners /\ e \in DOMAIN runners[o].work
      /\ runners' = [runners EXCEPT ![o] = r]
      /\ operations' = Put(operations, o, r.op)
      /\ UNCHANGED <<up, place, files, engine, instances, stacks, nextInstance,
                     nextOperation, nextStack, running, calls>>
  BY DEF At, Report, worldVars, seqVars
<1>2. /\ o \in Operations /\ runners[o] \in Runner /\ runners[o].op \in Operation
      /\ IsTable(runners[o].op.results, Environments, TargetStatus)
      /\ IsTable(runners[o].work, Environments, WorkPC)
  BY <1>1, RunnerFields
<1>3. res \in Table(Environments, TargetStatus)
  BY <1>2, TableIsTable DEF IsTable
<1>4. /\ wrk \in Table(Environments, WorkPC)
      /\ DOMAIN wrk = DOMAIN runners[o].work
      /\ wrk[e] = pc
      /\ \A f \in DOMAIN runners[o].work : f # e => wrk[f] = runners[o].work[f]
  BY <1>1, <1>2, ExceptTable, TableIsTable
<1> HIDE DEF res, wrk
<1>5. [runners[o].op EXCEPT !.results = res] \in Operation
  BY <1>2, <1>3 DEF Operation
<1>6. r = [[runners[o] EXCEPT !.op = [runners[o].op EXCEPT !.results = res]]
             EXCEPT !.work = wrk]
  BY <1>2 DEF res, wrk, Runner, Operation
<1> HIDE DEF r
<1>7. /\ r \in Runner /\ r.work = wrk /\ r.stack = runners[o].stack
      /\ r.op \in Operation /\ r.op.id = runners[o].op.id
  BY <1>2, <1>4, <1>5, <1>6 DEF Runner, Operation
<1>8. KeepsStacks
  BY <1>1, SameStacks
<1>9. OwnsItsStacks(r)
  BY <1>1, <1>4, <1>7 DEF OwnsItsStacks, TypeInv, WorkersOwnTheirStack
<1>10. IsTable(runners', Operations, Runner) /\ WorkersOwnTheirStack'
  BY <1>1, <1>7, <1>8, <1>9, RunnerMove
<1>11. IsTable(operations', Operations, Operation)
  BY <1>1, <1>2, <1>7, PutTable DEF TypeInv, TypeOK
<1> QED BY <1>1, <1>10, <1>11 DEF TypeInv, TypeOK

\* StartTarget keeps the types and the ownership.
LEMMA StartTargetType ==
  ASSUME TypeInv, NEW o, NEW e, StartTarget(o, e)
  PROVE  TypeInv'
<1>1. "Running" \in TargetStatus /\ "find" \in WorkPC /\ "find" \notin HoldsStack
  BY DEF TargetStatus, WorkPC, HoldsStack
<1> QED BY <1>1, ReportType DEF StartTarget

\* EndTarget keeps the types and the ownership.
LEMMA EndTargetType ==
  ASSUME TypeInv, NEW o, NEW e, EndTarget(o, e)
  PROVE  TypeInv'
<1>1. {"Success", "Failed"} \subseteq TargetStatus /\ "done" \in WorkPC
      /\ "done" \notin HoldsStack
  BY DEF TargetStatus, WorkPC, HoldsStack
<1> QED BY <1>1, ReportType DEF EndTarget

\* The stack that findStackOnEndpoint settles on is the instance's own unless
\* there is a conflict.
LEMMA FoundStack ==
  ASSUME TypeInv, NEW i, NEW e, NEW k \in Found(i, e), ~Conflict(i, e)
  PROVE  /\ k \in StackIds /\ k \in DOMAIN stacks
         /\ stacks[k].env = e /\ stacks[k].owner = i
<1>1. k \in DOMAIN stacks /\ stacks[k].env = e /\ stacks[k].owner = i
  BY DEF Found, StacksNamed, Conflict
<1>2. k \in StackIds
  BY <1>1, TableValue DEF TypeInv, TypeOK
<1> QED BY <1>1, <1>2

\* Remembering one stack more.
LEMMA StackTable ==
  ASSUME NEW t, IsTable(t, Environments, StackIds), NEW e \in Environments,
         NEW k \in StackIds
  PROVE  /\ IsTable(Put(t, e, k), Environments, StackIds)
         /\ DOMAIN Put(t, e, k) = DOMAIN t \cup {e}
         /\ Put(t, e, k)[e] = k
         /\ \A f \in DOMAIN t : f # e => Put(t, e, k)[f] = t[f]
BY DEF Put, IsTable

\* A worker that takes a stack in hand: one that is there and is its own.
LEMMA TakeStackMove ==
  ASSUME TypeInv, KeepsStacks, NEW o, NEW e, NEW old, NEW pc \in WorkPC,
         At(o, e, old), NEW k \in StackIds, k \in DOMAIN stacks',
         stacks'[k].env = e, stacks'[k].owner = runners[o].op.id,
         TakeStack(o, e, k, pc)
  PROVE  IsTable(runners', Operations, Runner) /\ WorkersOwnTheirStack'
<1> DEFINE wrk == [runners[o].work EXCEPT ![e] = pc]
           stk == Put(runners[o].stack, e, k)
           r   == [runners[o] EXCEPT !.work[e] = pc,
                                     !.stack = Put(runners[o].stack, e, k)]
<1>1. o \in DOMAIN runners /\ e \in DOMAIN runners[o].work
  BY DEF At
<1>2. /\ runners[o] \in Runner
      /\ IsTable(runners[o].work, Environments, WorkPC)
      /\ IsTable(runners[o].stack, Environments, StackIds)
  BY <1>1, RunnerFields
<1>3. /\ wrk \in Table(Environments, WorkPC)
      /\ DOMAIN wrk = DOMAIN runners[o].work
      /\ \A f \in DOMAIN runners[o].work : f # e => wrk[f] = runners[o].work[f]
  BY <1>1, <1>2, ExceptTable, TableIsTable
<1>4. e \in Environments
  BY <1>1, <1>2, TableValue
<1>5. /\ stk \in Table(Environments, StackIds)
      /\ DOMAIN stk = DOMAIN runners[o].stack \cup {e}
      /\ stk[e] = k
      /\ \A f \in DOMAIN runners[o].stack : f # e => stk[f] = runners[o].stack[f]
  <2>1. /\ IsTable(stk, Environments, StackIds)
        /\ DOMAIN stk = DOMAIN runners[o].stack \cup {e}
        /\ stk[e] = k
        /\ \A f \in DOMAIN runners[o].stack : f # e => stk[f] = runners[o].stack[f]
    BY <1>2, <1>4, StackTable
  <2> QED BY <2>1, TableIsTable
<1>6. r = [[runners[o] EXCEPT !.work = wrk] EXCEPT !.stack = stk]
  BY <1>2 DEF Runner
<1> HIDE DEF wrk, stk, r
<1>7. /\ r \in Runner /\ r.work = wrk /\ r.stack = stk /\ r.op = runners[o].op
  BY <1>2, <1>3, <1>5, <1>6 DEF Runner
<1>8. OwnsItsStacks(r)
  <2> SUFFICES ASSUME NEW f \in DOMAIN r.work, r.work[f] \in HoldsStack
               PROVE  /\ f \in DOMAIN r.stack
                      /\ r.stack[f] \in DOMAIN stacks'
                      /\ stacks'[r.stack[f]].env = f
                      /\ stacks'[r.stack[f]].owner = r.op.id
    BY DEF OwnsItsStacks
  <2>1. CASE f = e
    BY <1>5, <1>7, <2>1
  <2>2. CASE f # e
    BY <1>1, <1>3, <1>5, <1>7, <2>2 DEF TypeInv, WorkersOwnTheirStack, KeepsStacks
  <2> QED BY <2>1, <2>2
<1>9. runners' = [runners EXCEPT ![o] = r]
  BY DEF TakeStack, r
<1> QED BY <1>1, <1>7, <1>8, <1>9, RunnerMove

\* FindStack keeps the types and the ownership.
LEMMA FindStackType ==
  ASSUME TypeInv, NEW o, NEW e, FindStack(o, e)
  PROVE  TypeInv'
<1> DEFINE i == runners[o].op.id
           t == runners[o].op.type
<1>1. /\ At(o, e, "find")
      /\ UNCHANGED <<up, place, files, engine, instances, operations, stacks,
                     nextInstance, nextOperation, nextStack, running, calls>>
  BY DEF FindStack, worldVars, dbVars, seqVars
<1>2. {"err", "create", "store", "deploy", "undeploy"} \subseteq WorkPC
      /\ "err" \notin HoldsStack /\ "create" \notin HoldsStack
  BY DEF WorkPC, HoldsStack
<1>3. KeepsStacks
  BY <1>1, SameStacks
<1>4. IsTable(runners', Operations, Runner) /\ WorkersOwnTheirStack'
  <2>1. CASE Goto(o, e, "err")
    BY <1>1, <1>2, <1>3, <2>1, GotoMove
  <2>2. CASE Goto(o, e, "create")
    BY <1>1, <1>2, <1>3, <2>2, GotoMove
  <2>3. ASSUME ~Conflict(i, e), NEW k \in Found(i, e),
               TakeStack(o, e, k, AfterFind(t))
        PROVE  IsTable(runners', Operations, Runner) /\ WorkersOwnTheirStack'
    <3>1. AfterFind(t) \in WorkPC
      BY <1>2 DEF AfterFind
    <3>2. /\ k \in StackIds /\ k \in DOMAIN stacks'
          /\ stacks'[k].env = e /\ stacks'[k].owner = runners[o].op.id
      BY <1>1, <2>3, FoundStack
    <3> QED BY <1>1, <1>3, <2>3, <3>1, <3>2, TakeStackMove
  <2> QED BY <2>1, <2>2, <2>3 DEF FindStack
<1> QED BY <1>1, <1>4 DEF TypeInv, TypeOK

\* CreateStackRecord keeps the types and the ownership.
LEMMA CreateStackRecordType ==
  ASSUME TypeInv, Allocated, NEW o, NEW e, CreateStackRecord(o, e)
  PROVE  TypeInv'
<1> DEFINE new == [id |-> runners[o].op.id, env |-> e, owner |-> runners[o].op.id,
                   status |-> "Deploying"]
<1>1. /\ At(o, e, "create") /\ nextStack <= MaxStacks
      /\ stacks' = Put(stacks, nextStack, new)
      /\ TakeStack(o, e, nextStack, "store")
      /\ nextStack' = nextStack + 1
      /\ UNCHANGED <<up, place, files, engine, instances, operations, nextInstance,
                     nextOperation, running, calls>>
  BY DEF CreateStackRecord, worldVars
<1>2. nextStack \in StackIds /\ nextStack' \in 1..(MaxStacks + 1)
  BY <1>1, BoundsAssumption DEF TypeInv, TypeOK, StackIds
<1>3. runners[o].op.id \in Instances /\ e \in Environments
  BY <1>1, RunnerFields, TableValue DEF At
<1>4. new \in Stack /\ new.env = e /\ new.owner = runners[o].op.id
  BY <1>3 DEF Stack, StackStatus
<1> HIDE DEF new
<1>5. IsTable(stacks', StackIds, Stack)
  BY <1>1, <1>2, <1>4, PutTable DEF TypeInv, TypeOK
<1>6. nextStack \in DOMAIN stacks' /\ stacks'[nextStack] = new
  BY <1>1 DEF Put
<1>7. KeepsStacks
  <2>1. \A k \in DOMAIN stacks : k # nextStack
    BY <1>2, TableValue DEF Allocated, TypeInv, TypeOK, StackIds
  <2> QED BY <1>1, <2>1 DEF KeepsStacks, Put
<1>8. IsTable(runners', Operations, Runner) /\ WorkersOwnTheirStack'
  <2>1. "store" \in WorkPC
    BY DEF WorkPC
  <2> QED BY <1>1, <1>2, <1>4, <1>6, <1>7, <2>1, TakeStackMove
<1> QED BY <1>1, <1>2, <1>5, <1>8 DEF TypeInv, TypeOK

\* StoreComposeFile keeps the types and the ownership.
LEMMA StoreComposeFileType ==
  ASSUME TypeInv, NEW o, NEW e, StoreComposeFile(o, e)
  PROVE  TypeInv'
<1>1. /\ At(o, e, "store")
      /\ UNCHANGED <<up, place, engine, instances, operations, stacks, nextInstance,
                     nextOperation, nextStack, running, calls>>
      /\ \/ /\ files' = Put(files, runners[o].stack[e], runners[o].copy.compose)
            /\ Goto(o, e, "deploy")
         \/ /\ Goto(o, e, "err")
            /\ UNCHANGED files
  BY DEF StoreComposeFile, dbVars, seqVars
<1>2. /\ {"deploy", "err"} \subseteq WorkPC /\ "store" \in HoldsStack
      /\ "err" \notin HoldsStack
  BY DEF WorkPC, HoldsStack
<1>3. IsTable(runners', Operations, Runner) /\ WorkersOwnTheirStack'
  BY <1>1, <1>2, SameStacks, GotoMove
<1>4. IsTable(files', StackIds, ComposeFiles)
  <2>1. o \in DOMAIN runners /\ e \in DOMAIN runners[o].stack
    BY <1>1, <1>2 DEF At, TypeInv, WorkersOwnTheirStack
  <2>2. runners[o].stack[e] \in StackIds
    BY <2>1, RunnerFields, TableValue
  <2>3. runners[o].copy.compose \in ComposeFiles
    BY <2>1, RunnerFields DEF Instance
  <2>4. IsTable(files, StackIds, ComposeFiles)
    BY DEF TypeInv, TypeOK
  <2>5. CASE files' = Put(files, runners[o].stack[e], runners[o].copy.compose)
    BY <2>2, <2>3, <2>4, <2>5, PutTable
  <2>6. CASE files' = files
    BY <2>4, <2>6
  <2> QED BY <1>1, <2>5, <2>6
<1> QED BY <1>1, <1>3, <1>4 DEF TypeInv, TypeOK

\* Changing the containers of one instance on one environment.
LEMMA EngineType ==
  ASSUME NEW S, NEW t \in [Instances -> [Environments -> S]],
         NEW i \in Instances, NEW e \in Environments, NEW s \in S
  PROVE  [t EXCEPT ![i][e] = s] \in [Instances -> [Environments -> S]]
OBVIOUS

\* DeployStack keeps the types and the ownership.
LEMMA DeployStackType ==
  ASSUME TypeInv, NEW o, NEW e, DeployStack(o, e)
  PROVE  TypeInv'
<1> DEFINE i == runners[o].op.id
           k == runners[o].stack[e]
<1>1. /\ At(o, e, "deploy")
      /\ UNCHANGED <<up, place, files, instances, operations, stacks, nextInstance,
                     nextOperation, nextStack, running, calls>>
  BY DEF DeployStack, dbVars, seqVars
<1>2. /\ {"saveActive", "saveError", "err"} \subseteq WorkPC
      /\ "deploy" \in HoldsStack
  BY DEF WorkPC, HoldsStack
<1>3. IsTable(runners', Operations, Runner) /\ WorkersOwnTheirStack'
  <2>1. \/ Goto(o, e, "err") \/ Goto(o, e, "saveActive") \/ Goto(o, e, "saveError")
    BY DEF DeployStack
  <2> QED BY <1>1, <1>2, <2>1, SameStacks, GotoMove
<1>4. i \in Instances /\ e \in Environments
  BY <1>1, RunnerFields, TableValue DEF At
<1>5. engine' \in [Instances -> [Environments -> ComposeFiles \cup {"down", "broken"}]]
  <2>1. ASSUME k \in DOMAIN files PROVE files[k] \in ComposeFiles
    BY <2>1, TableValue DEF TypeInv, TypeOK
  <2>2. engine[i][e] \in ComposeFiles \cup {"down", "broken"}
    BY <1>4 DEF TypeInv, TypeOK
  <2>3. \/ engine' = engine
        \/ \E s \in ComposeFiles \cup {"down", "broken"} :
             engine' = [engine EXCEPT ![i][e] = s]
    BY <2>1, <2>2 DEF DeployStack
  <2>4. CASE engine' = engine
    BY <2>4 DEF TypeInv, TypeOK
  <2>5. CASE \E s \in ComposeFiles \cup {"down", "broken"} :
               engine' = [engine EXCEPT ![i][e] = s]
    BY <1>4, <2>5, EngineType DEF TypeInv, TypeOK
  <2> QED BY <2>3, <2>4, <2>5
<1> QED BY <1>1, <1>3, <1>5 DEF TypeInv, TypeOK

\* UndeployStack keeps the types and the ownership.
LEMMA UndeployStackType ==
  ASSUME TypeInv, NEW o, NEW e, UndeployStack(o, e)
  PROVE  TypeInv'
<1> DEFINE i == runners[o].op.id
<1>1. /\ At(o, e, "undeploy")
      /\ UNCHANGED <<up, place, files, instances, operations, stacks, nextInstance,
                     nextOperation, nextStack, running, calls>>
  BY DEF UndeployStack, dbVars, seqVars
<1>2. {"saveInactive", "err"} \subseteq WorkPC /\ "undeploy" \in HoldsStack
  BY DEF WorkPC, HoldsStack
<1>3. IsTable(runners', Operations, Runner) /\ WorkersOwnTheirStack'
  <2>1. Goto(o, e, "err") \/ Goto(o, e, "saveInactive")
    BY DEF UndeployStack
  <2> QED BY <1>1, <1>2, <2>1, SameStacks, GotoMove
<1>4. i \in Instances /\ e \in Environments
  BY <1>1, RunnerFields, TableValue DEF At
<1>5. engine' \in [Instances -> [Environments -> ComposeFiles \cup {"down", "broken"}]]
  <2>1. engine[i][e] \in ComposeFiles \cup {"down", "broken"}
    BY <1>4 DEF TypeInv, TypeOK
  <2>2. \E s \in ComposeFiles \cup {"down", "broken"} :
          engine' = [engine EXCEPT ![i][e] = s]
    BY <2>1 DEF UndeployStack
  <2> QED BY <1>4, <2>2, EngineType DEF TypeInv, TypeOK
<1> QED BY <1>1, <1>3, <1>5 DEF TypeInv, TypeOK

\* SaveStack keeps the types and the ownership.
LEMMA SaveStackType ==
  ASSUME TypeInv, NEW o, NEW e, SaveStack(o, e)
  PROVE  TypeInv'
<1> DEFINE k == runners[o].stack[e]
<1>1. /\ o \in DOMAIN runners /\ e \in DOMAIN runners[o].work
      /\ runners[o].work[e] \in {"saveActive", "saveError", "saveInactive"}
      /\ At(o, e, runners[o].work[e])
      /\ UNCHANGED <<up, place, files, engine, instances, operations, nextInstance,
                     nextOperation, nextStack, running, calls>>
  BY DEF SaveStack, At, worldVars, seqVars
<1>2. k \in DOMAIN stacks /\ k \in StackIds /\ stacks[k] \in Stack
  <2>1. k \in DOMAIN stacks
    BY <1>1 DEF TypeInv, WorkersOwnTheirStack, HoldsStack
  <2> QED BY <2>1, TableValue DEF TypeInv, TypeOK
<1>3. PICK status \in StackStatus, pc \in {"ok", "err", "deploy"} :
        /\ stacks' = Put(stacks, k, [stacks[k] EXCEPT !.status = status])
        /\ Goto(o, e, pc)
  BY DEF SaveStack, StackStatus
<1>4. DEFINE new == [stacks[k] EXCEPT !.status = status]
<1>5. new \in Stack /\ new.env = stacks[k].env /\ new.owner = stacks[k].owner
  BY <1>2 DEF Stack
<1> HIDE DEF new
<1>6. IsTable(stacks', StackIds, Stack)
  BY <1>2, <1>3, <1>5, PutTable DEF TypeInv, TypeOK, new
<1>7. KeepsStacks
  BY <1>3, <1>5 DEF KeepsStacks, Put, new
<1>8. /\ {"ok", "err", "deploy"} \subseteq WorkPC
      /\ {"saveActive", "saveError", "saveInactive"} \subseteq HoldsStack
  BY DEF WorkPC, HoldsStack
<1>9. IsTable(runners', Operations, Runner) /\ WorkersOwnTheirStack'
  BY <1>1, <1>3, <1>7, <1>8, GotoMove
<1> QED BY <1>1, <1>6, <1>9 DEF TypeInv, TypeOK

\* FinalizeOperation keeps the types and the ownership.
LEMMA FinalizeOperationType ==
  ASSUME TypeInv, NEW o, FinalizeOperation(o)
  PROVE  TypeInv'
<1> DEFINE res == [e \in DOMAIN runners[o].op.results |->
                     IF runners[o].work[e] = "idle" THEN "Skipped"
                     ELSE runners[o].op.results[e]]
           op  == [runners[o].op EXCEPT !.results = res, !.status = Outcome(res)]
           r   == [runners[o] EXCEPT !.op = op, !.phase = "statuses"]
<1>1. /\ o \in DOMAIN runners /\ TargetsDone(runners[o])
      /\ operations' = Put(operations, o, op)
      /\ runners' = [runners EXCEPT ![o] = r]
      /\ UNCHANGED <<up, place, files, engine, instances, stacks, nextInstance,
                     nextOperation, nextStack, running, calls>>
  BY DEF FinalizeOperation, worldVars, seqVars
<1>2. /\ o \in Operations /\ runners[o] \in Runner /\ runners[o].op \in Operation
      /\ IsTable(runners[o].op.results, Environments, TargetStatus)
  BY <1>1, RunnerFields
<1>3. res \in Table(Environments, TargetStatus)
  <2>1. IsTable(res, Environments, TargetStatus)
    BY <1>2 DEF IsTable, TargetStatus
  <2> QED BY <2>1, TableIsTable
<1>4. Outcome(res) \in OperationStatus
  BY OutcomeType DEF TerminalStatus
<1> HIDE DEF res
<1>5. op \in Operation /\ op.id = runners[o].op.id
  BY <1>2, <1>3, <1>4 DEF Operation
<1> HIDE DEF op
<1>6. r \in Runner /\ r.work = runners[o].work /\ r.stack = runners[o].stack /\ r.op = op
  BY <1>2, <1>5 DEF Runner
<1> HIDE DEF r
<1>7. OwnsItsStacks(r)
  BY <1>1, <1>5, <1>6 DEF OwnsItsStacks, TypeInv, WorkersOwnTheirStack
<1>8. IsTable(runners', Operations, Runner) /\ WorkersOwnTheirStack'
  BY <1>1, <1>6, <1>7, SameStacks, RunnerMove
<1>9. IsTable(operations', Operations, Operation)
  BY <1>1, <1>2, <1>5, PutTable DEF TypeInv, TypeOK
<1> QED BY <1>1, <1>8, <1>9 DEF TypeInv, TypeOK

\* Finish keeps the types and the ownership.
LEMMA FinishType ==
  ASSUME TypeInv, stacks' = stacks, NEW o, Finish(o)
  PROVE  /\ IsTable(runners', Operations, Runner) /\ WorkersOwnTheirStack'
         /\ running' \subseteq Instances
<1>1. /\ IsTable(runners', Operations, Runner)
      /\ DOMAIN runners' = DOMAIN runners \ {o}
      /\ \A p \in DOMAIN runners' : runners'[p] = runners[p]
  <2>1. IsTable(runners', Operations, Runner)
    BY DropTable DEF TypeInv, TypeOK, Finish
  <2> QED BY <2>1 DEF Finish, Drop
<1>2. WorkersOwnTheirStack'
  BY <1>1 DEF TypeInv, WorkersOwnTheirStack
<1> QED BY <1>1, <1>2 DEF TypeInv, TypeOK, Finish

\* ReadStatuses keeps the types and the ownership.
LEMMA ReadStatusesType ==
  ASSUME TypeInv, NEW o, ReadStatuses(o)
  PROVE  TypeInv'
<1> DEFINE status == AggregateStatus(TargetStatuses(runners[o].op.id,
                                                    runners[o].copy.target))
           copy   == [runners[o].copy EXCEPT !.status = status]
           r      == [runners[o] EXCEPT !.phase = "write", !.copy.status = status]
<1>1. /\ o \in DOMAIN runners
      /\ UNCHANGED <<up, place, files, engine, instances, operations, stacks,
                     nextInstance, nextOperation, nextStack, calls>>
  BY DEF ReadStatuses, worldVars, dbVars, seqVars
<1>2. runners[o] \in Runner /\ runners[o].copy \in Instance
  BY <1>1, RunnerFields
<1>3. copy \in Instance
  BY <1>2, AggregateType DEF Instance
<1>4. r \in Runner /\ r.work = runners[o].work /\ r.stack = runners[o].stack
      /\ r.op = runners[o].op
  <2>1. r = [[runners[o] EXCEPT !.phase = "write"] EXCEPT !.copy = copy]
    BY <1>2 DEF Runner
  <2> HIDE DEF copy, r
  <2> QED BY <1>2, <1>3, <2>1 DEF Runner
<1> HIDE DEF r
<1>5. /\ IsTable(runners', Operations, Runner) /\ WorkersOwnTheirStack'
      /\ running' \subseteq Instances
  <2>1. CASE Finish(o)
    BY <1>1, <2>1, FinishType
  <2>2. CASE runners' = [runners EXCEPT ![o] = r] /\ UNCHANGED running
    <3>1. OwnsItsStacks(r)
      BY <1>1, <1>4 DEF OwnsItsStacks, TypeInv, WorkersOwnTheirStack
    <3>2. running' \subseteq Instances
      BY <2>2 DEF TypeInv, TypeOK
    <3> QED BY <1>1, <1>4, <2>2, <3>1, <3>2, SameStacks, RunnerMove
  <2> QED BY <2>1, <2>2 DEF ReadStatuses, r
<1> QED BY <1>1, <1>5 DEF TypeInv, TypeOK

\* FinishOperation keeps the types and the ownership.
LEMMA FinishOperationType ==
  ASSUME TypeInv, NEW o, FinishOperation(o)
  PROVE  TypeInv'
<1>1. /\ o \in DOMAIN runners /\ Finish(o)
      /\ instances' = Put(instances, runners[o].op.id, runners[o].copy)
      /\ UNCHANGED <<up, place, files, engine, operations, stacks,
                     nextInstance, nextOperation, nextStack, calls>>
  BY DEF FinishOperation, worldVars, seqVars
<1>2. IsTable(instances', Instances, Instance)
  BY <1>1, RunnerFields, PutTable DEF TypeInv, TypeOK
<1> QED BY <1>1, <1>2, FinishType DEF TypeInv, TypeOK

-----------------------------------------------------------------------------
(* The process and the environments.                                       *)

\* Crash keeps the types and the ownership.
LEMMA CrashType ==
  ASSUME TypeInv, Crash
  PROVE  TypeInv'
<1>1. IsTable(calls', Clients, Call) /\ IsTable(runners', Operations, Runner)
      /\ DOMAIN runners' = {}
  BY EmptyIsTable DEF Crash
<1> QED
  BY <1>1 DEF TypeInv, TypeOK, WorkersOwnTheirStack, Crash, worldVars, dbVars, seqVars

\* RecoverStack keeps the types and the ownership.
LEMMA RecoverStackType ==
  ASSUME NEW s \in Stack
  PROVE  /\ RecoverStack(s) \in Stack
         /\ RecoverStack(s).env = s.env /\ RecoverStack(s).owner = s.owner
BY DEF RecoverStack, Stack, StackStatus

\* RecoverOperation keeps the types and the ownership.
LEMMA RecoverOperationType ==
  ASSUME NEW op \in Operation
  PROVE  /\ RecoverOperation(op) \in Operation
         /\ RecoverOperation(op).id = op.id
         /\ RecoverOperation(op).status # "Running"
<1> DEFINE res == [e \in DOMAIN op.results |->
                     IF op.results[e] \in {"Running", "Pending"} THEN "Skipped"
                     ELSE op.results[e]]
<1>1. op.results \in Table(Environments, TargetStatus)
  BY DEF Operation
<1>2. IsTable(op.results, Environments, TargetStatus)
  BY <1>1, TableIsTable
<1>3. IsTable(res, Environments, TargetStatus)
  BY <1>2 DEF IsTable, TargetStatus
<1>4. res \in Table(Environments, TargetStatus)
  BY <1>3, TableIsTable
<1>5. CASE op.status = "Running"
  <2>1. RecoverOperation(op) = [op EXCEPT !.status = "Failed", !.results = res]
    BY <1>5 DEF RecoverOperation
  <2> HIDE DEF res
  <2> QED BY <1>4, <2>1 DEF Operation, OperationStatus
<1>6. CASE op.status # "Running"
  BY <1>6 DEF RecoverOperation
<1> QED BY <1>5, <1>6

\* Restart keeps the types and the ownership.
LEMMA RestartType ==
  ASSUME TypeInv, Restart
  PROVE  TypeInv'
<1>1. /\ stacks' = [k \in DOMAIN stacks |-> RecoverStack(stacks[k])]
      /\ operations' = [o \in DOMAIN operations |-> RecoverOperation(operations[o])]
      /\ up' = TRUE
      /\ UNCHANGED <<place, files, engine, instances, nextInstance, nextOperation,
                     nextStack, running, calls, runners>>
  BY DEF Restart, worldVars, seqVars, memVars
<1>2. \A k \in DOMAIN stacks : stacks[k] \in Stack
  BY TableValue DEF TypeInv, TypeOK
<1>3. IsTable(stacks', StackIds, Stack)
  BY <1>1, <1>2, RecoverStackType DEF TypeInv, TypeOK, IsTable
<1>4. KeepsStacks
  BY <1>1, <1>2, RecoverStackType DEF KeepsStacks
<1>5. \A o \in DOMAIN operations : operations[o] \in Operation
  BY TableValue DEF TypeInv, TypeOK
<1>6. IsTable(operations', Operations, Operation)
  BY <1>1, <1>5, RecoverOperationType DEF TypeInv, TypeOK, IsTable
<1>7. WorkersOwnTheirStack'
  BY <1>1, <1>4 DEF TypeInv, WorkersOwnTheirStack, KeepsStacks
<1> QED BY <1>1, <1>3, <1>6, <1>7 DEF TypeInv, TypeOK

\* MoveEnvironment keeps the types and the ownership.
LEMMA MoveEnvironmentType ==
  ASSUME TypeInv, NEW e \in Environments, MoveEnvironment(e)
  PROVE  TypeInv'
BY DEF TypeInv, TypeOK, WorkersOwnTheirStack, MoveEnvironment, dbVars, seqVars, memVars

-----------------------------------------------------------------------------
(* The invariants of every behaviour.                                       *)

\* Handlers keeps the types and the ownership.
LEMMA HandlersType ==
  ASSUME TypeInv, Handlers
  PROVE  TypeInv'
<1>1. ASSUME NEW compose \in ComposeFiles, NEW target \in Targets, Create(compose, target)
      PROVE  TypeInv'
  BY <1>1, CreateType
<1>2. ASSUME NEW c \in Clients, NEW i \in Instances, NEW type \in Lifecycle,
             NEW parallel \in BOOLEAN, Acquire(c, i, type, parallel)
      PROVE  TypeInv'
  BY <1>2, AcquireType
<1>3. ASSUME NEW c \in Clients, NEW i \in Instances, BeginRefresh(c, i)
      PROVE  TypeInv'
  BY <1>3, BeginRefreshType
<1>4. ASSUME NEW c \in Clients, NEW i \in Instances, BeginDelete(c, i)
      PROVE  TypeInv'
  BY <1>4, BeginDeleteType
<1>5. ASSUME NEW c \in Clients, NEW i \in Instances, NEW compose \in ComposeFiles,
             NEW target \in Targets, BeginUpdate(c, i, compose, target)
      PROVE  TypeInv'
  BY <1>5, BeginUpdateType
<1>6. OperationTypes \subseteq Lifecycle /\ "deploy" \in Lifecycle
  BY WorkloadAssumption DEF Lifecycle
<1> QED BY <1>1, <1>2, <1>3, <1>4, <1>5, <1>6 DEF Handlers

\* HandlerStep keeps the types and the ownership.
LEMMA HandlerStepType ==
  ASSUME TypeInv, NEW c \in Clients, HandlerStep(c)
  PROVE  TypeInv'
BY ReadForOperationType, AbortOperationType, LaunchType, ResolveUpdateType,
   RefreshStatusesType, WriteInstanceType, EndDeleteType DEF HandlerStep

\* RunnerStep keeps the types and the ownership.
LEMMA RunnerStepType ==
  ASSUME TypeInv, Allocated, NEW o \in Operations, RunnerStep(o)
  PROVE  TypeInv'
<1>1. ASSUME NEW e \in Environments, WorkStep(o, e)
      PROVE  TypeInv'
  BY <1>1, StartTargetType, FindStackType, CreateStackRecordType, StoreComposeFileType,
     DeployStackType, UndeployStackType, SaveStackType, EndTargetType DEF WorkStep
<1> QED
  BY <1>1, FinalizeOperationType, ReadStatusesType, FinishOperationType DEF RunnerStep

\* Next keeps the types and the ownership.
LEMMA NextType ==
  ASSUME TypeInv, Allocated, [Next]_vars
  PROVE  TypeInv'
<1>1. CASE UNCHANGED vars
  BY <1>1 DEF TypeInv, TypeOK, WorkersOwnTheirStack, vars
<1>2. CASE Next
  BY <1>2, HandlersType, HandlerStepType, RunnerStepType, CrashType, RestartType,
     MoveEnvironmentType DEF Next
<1> QED BY <1>1, <1>2

\* The next identifier of a bucket stays free: no step of a handler or of a
\* goroutine writes a record whose identifier was not given out before.
LEMMA InitAllocated == Init => Allocated
<1> SUFFICES ASSUME Init PROVE Allocated
  OBVIOUS
<1>1. DOMAIN operations \cup DOMAIN runners = {}
  BY EmptyIsTable DEF Init
<1>2. \A k \in DOMAIN stacks : k < nextStack
  BY WorkloadAssumption DEF Init
<1> QED BY <1>1, <1>2 DEF Allocated

\* Identifiers are numbers, so that they can be compared.
LEMMA Identifiers ==
  ASSUME TypeInv
  PROVE  /\ nextOperation \in Nat /\ nextStack \in Nat
         /\ \A o \in DOMAIN operations \cup DOMAIN runners : o \in Nat
         /\ \A k \in DOMAIN stacks : k \in Nat
<1>1. Operations \subseteq Nat /\ StackIds \subseteq Nat
  BY BoundsAssumption DEF Operations, StackIds
<1>2. /\ DOMAIN operations \subseteq Operations /\ DOMAIN runners \subseteq Operations
      /\ DOMAIN stacks \subseteq StackIds
  BY DEF TypeInv, TypeOK, IsTable
<1>3. nextOperation \in Nat /\ nextStack \in Nat
  BY BoundsAssumption DEF TypeInv, TypeOK
<1> QED BY <1>1, <1>2, <1>3

\* A step that gives out no identifier and adds no key keeps Allocated.
LEMMA SameKeys ==
  ASSUME Allocated, nextOperation' = nextOperation, nextStack' = nextStack,
         DOMAIN operations' \subseteq DOMAIN operations \cup DOMAIN runners,
         DOMAIN runners' \subseteq DOMAIN runners,
         DOMAIN stacks' \subseteq DOMAIN stacks
  PROVE  Allocated'
BY DEF Allocated

\* The handlers other than Launch allocate no operation and no stack.
LEMMA HandlersAllocated ==
  ASSUME Allocated, Handlers
  PROVE  Allocated'
<1>1. /\ UNCHANGED <<nextOperation, nextStack, stacks, runners>>
      /\ DOMAIN operations' \subseteq DOMAIN operations
  BY DEF Handlers, Create, Acquire, BeginRefresh, BeginDelete, BeginUpdate, Drop,
         dbVars, seqVars, memVars
<1> QED BY <1>1, SameKeys

\* Launch uses the next identifier of an operation and moves past it.
LEMMA LaunchAllocated ==
  ASSUME TypeInv, Allocated, NEW c, Launch(c)
  PROVE  Allocated'
<1>1. /\ DOMAIN operations' = DOMAIN operations \cup {nextOperation}
      /\ DOMAIN runners' = DOMAIN runners \cup {nextOperation}
      /\ nextOperation' = nextOperation + 1
      /\ UNCHANGED <<nextStack, stacks>>
  BY DEF Launch, Put
<1> QED BY <1>1, Identifiers DEF Allocated

\* Every step of a handler keeps Allocated.
LEMMA HandlerStepAllocated ==
  ASSUME TypeInv, Allocated, NEW c, HandlerStep(c)
  PROVE  Allocated'
<1>1. CASE Launch(c)
  BY <1>1, LaunchAllocated
<1>2. CASE ~Launch(c)
  <2>1. UNCHANGED <<nextOperation, nextStack, stacks, runners, operations>>
    BY <1>2 DEF HandlerStep, ReadForOperation, AbortOperation, ResolveUpdate,
                RefreshStatuses, WriteInstance, EndDelete, dbVars, seqVars
  <2> QED BY <2>1, SameKeys
<1> QED BY <1>1, <1>2

\* Every step of a goroutine keeps Allocated.
LEMMA RunnerStepAllocated ==
  ASSUME TypeInv, Allocated, NEW o, RunnerStep(o)
  PROVE  Allocated'
<1>1. ASSUME NEW e, CreateStackRecord(o, e)
      PROVE  Allocated'
  <2>1. /\ DOMAIN stacks' = DOMAIN stacks \cup {nextStack}
        /\ nextStack' = nextStack + 1
        /\ DOMAIN runners' = DOMAIN runners
        /\ UNCHANGED <<operations, nextOperation>>
    BY <1>1 DEF CreateStackRecord, TakeStack, Put, At
  <2> QED BY <2>1, Identifiers DEF Allocated
<1>2. ASSUME NEW e, SaveStack(o, e)
      PROVE  Allocated'
  <2>1. /\ runners[o].stack[e] \in DOMAIN stacks
    BY <1>2 DEF SaveStack, TypeInv, WorkersOwnTheirStack, HoldsStack
  <2>2. /\ DOMAIN stacks' = DOMAIN stacks
        /\ DOMAIN runners' = DOMAIN runners
        /\ UNCHANGED <<operations, nextOperation, nextStack>>
    BY <1>2, <2>1 DEF SaveStack, Goto, Put, seqVars
  <2> QED BY <2>2, SameKeys
<1>3. ASSUME NEW e, StartTarget(o, e) \/ EndTarget(o, e)
      PROVE  Allocated'
  <2>1. /\ DOMAIN operations' \subseteq DOMAIN operations \cup DOMAIN runners
        /\ DOMAIN runners' = DOMAIN runners
        /\ UNCHANGED <<stacks, nextOperation, nextStack>>
    BY <1>3 DEF StartTarget, EndTarget, Report, At, Put, seqVars
  <2> QED BY <2>1, SameKeys
<1>4. ASSUME NEW e, \/ FindStack(o, e) \/ StoreComposeFile(o, e)
                    \/ DeployStack(o, e) \/ UndeployStack(o, e)
      PROVE  Allocated'
  <2>1. /\ DOMAIN runners' = DOMAIN runners
        /\ UNCHANGED <<operations, stacks, nextOperation, nextStack>>
    BY <1>4 DEF FindStack, StoreComposeFile, DeployStack, UndeployStack, Goto, TakeStack,
                dbVars, seqVars
  <2> QED BY <2>1, SameKeys
<1>5. CASE FinalizeOperation(o) \/ ReadStatuses(o) \/ FinishOperation(o)
  <2>1. /\ DOMAIN operations' \subseteq DOMAIN operations \cup DOMAIN runners
        /\ DOMAIN runners' \subseteq DOMAIN runners
        /\ UNCHANGED <<stacks, nextOperation, nextStack>>
    BY <1>5 DEF FinalizeOperation, ReadStatuses, FinishOperation, Finish, Put, Drop,
                dbVars, seqVars
  <2> QED BY <2>1, SameKeys
<1> QED BY <1>1, <1>2, <1>3, <1>4, <1>5 DEF RunnerStep, WorkStep

\* Every step of the system keeps Allocated.
LEMMA NextAllocated ==
  ASSUME TypeInv, Allocated, [Next]_vars
  PROVE  Allocated'
<1>1. CASE Crash
  <2>1. /\ DOMAIN runners' = {}
        /\ UNCHANGED <<operations, stacks, nextOperation, nextStack>>
    BY <1>1, EmptyIsTable DEF Crash, dbVars, seqVars
  <2> QED BY <2>1, SameKeys
<1>2. CASE Restart
  <2>1. /\ DOMAIN operations' = DOMAIN operations /\ DOMAIN stacks' = DOMAIN stacks
        /\ UNCHANGED <<runners, nextOperation, nextStack>>
    BY <1>2 DEF Restart, seqVars, memVars
  <2> QED BY <2>1, SameKeys
<1>3. CASE (\E e \in Environments : MoveEnvironment(e)) \/ UNCHANGED vars
  <2>1. UNCHANGED <<operations, stacks, runners, nextOperation, nextStack>>
    BY <1>3 DEF MoveEnvironment, vars, dbVars, seqVars, memVars
  <2> QED BY <2>1, SameKeys
<1> QED
  BY <1>1, <1>2, <1>3, HandlersAllocated, HandlerStepAllocated, RunnerStepAllocated
     DEF Next

\* Every variable of service.go's state keeps its type, and a worker with a
\* stack in hand holds one that exists and that its instance owns: the
\* ownership check of findStackOnEndpoint is enough, whatever runs beside it.
THEOREM TypeCorrect == Spec => [](TypeInv /\ Allocated)
<1>1. Init => TypeInv /\ Allocated
  BY InitType, InitAllocated
<1>2. (TypeInv /\ Allocated) /\ [Next]_vars => (TypeInv /\ Allocated)'
  BY NextType, NextAllocated
<1> QED BY <1>1, <1>2, PTL DEF Spec

\* The type invariant that the runs check.
THEOREM TypeOKCorrect == Spec => []TypeOK
<1>1. TypeInv /\ Allocated => TypeOK
  BY DEF TypeInv
<1> QED BY <1>1, TypeCorrect, PTL

\* A stack that is written belongs to the instance and to the environment.
THEOREM WorkersOwn == Spec => []WorkersOwnTheirStack
<1>1. TypeInv /\ Allocated => WorkersOwnTheirStack
  BY DEF TypeInv
<1> QED BY <1>1, TypeCorrect, PTL

-----------------------------------------------------------------------------
(* ExecuteOperation's mutual exclusion.                                     *)

\* GuardExact, said of pairs of holders: the form that is easy to carry from
\* one state to the next.
GuardInv ==
  /\ \A c \in Executing : calls[c].id \in running
  /\ \A o \in DOMAIN runners : runners[o].op.id \in running
  /\ \A c, d \in Executing : calls[c].id = calls[d].id => c = d
  /\ \A o, p \in DOMAIN runners : runners[o].op.id = runners[p].op.id => o = p
  /\ \A c \in Executing, o \in DOMAIN runners : calls[c].id # runners[o].op.id
  /\ \A i \in running : \/ \E c \in Executing : calls[c].id = i
                        \/ \E o \in DOMAIN runners : runners[o].op.id = i

\* The pairs say what GuardExact says of the set of holders.
LEMMA GuardInvIsExact ==
  ASSUME GuardInv
  PROVE  GuardExact
<1> SUFFICES ASSUME NEW i \in Instances
             PROVE  /\ i \in running <=> Holders(i) # {}
                    /\ \A h, g \in Holders(i) : h = g
  BY DEF GuardExact
<1>1. i \in running <=> Holders(i) # {}
  <2>1. ASSUME i \in running PROVE Holders(i) # {}
    <3>1. CASE \E c \in Executing : calls[c].id = i
      BY <3>1 DEF Holders
    <3>2. CASE \E o \in DOMAIN runners : runners[o].op.id = i
      BY <3>2 DEF Holders
    <3> QED BY <2>1, <3>1, <3>2 DEF GuardInv
  <2>2. ASSUME NEW h \in Holders(i) PROVE i \in running
    <3>1. \/ \E c \in Executing : calls[c].id = i
          \/ \E o \in DOMAIN runners : runners[o].op.id = i
      BY DEF Holders
    <3> QED BY <3>1 DEF GuardInv
  <2> QED BY <2>1, <2>2
<1>2. ASSUME NEW h \in Holders(i), NEW g \in Holders(i) PROVE h = g
  <2>1. \/ \E c \in Executing : calls[c].id = i /\ h = <<"call", c>>
        \/ \E o \in DOMAIN runners : runners[o].op.id = i /\ h = <<"runner", o>>
    BY DEF Holders
  <2>2. \/ \E c \in Executing : calls[c].id = i /\ g = <<"call", c>>
        \/ \E o \in DOMAIN runners : runners[o].op.id = i /\ g = <<"runner", o>>
    BY DEF Holders
  <2> QED BY <2>1, <2>2 DEF GuardInv
<1> QED BY <1>1, <1>2

\* No guard is held, and nobody claims one, at the start.
LEMMA InitGuard == Init => GuardInv
<1> SUFFICES ASSUME Init PROVE GuardInv
  OBVIOUS
<1>1. DOMAIN calls = {} /\ DOMAIN runners = {} /\ running = {}
  BY EmptyIsTable DEF Init
<1> QED BY <1>1 DEF GuardInv, Executing

\* What a step leaves alone when it neither takes nor releases a guard.
SameCalls ==
  /\ Executing' = Executing
  /\ \A c \in Executing : calls'[c].id = calls[c].id

SameRunners ==
  /\ DOMAIN runners' = DOMAIN runners
  /\ \A o \in DOMAIN runners : runners'[o].op.id = runners[o].op.id

\* A step that leaves the guards and their holders alone keeps GuardInv.
LEMMA QuietGuard ==
  ASSUME GuardInv, running' = running, SameCalls, SameRunners
  PROVE  GuardInv'
BY DEF GuardInv, SameCalls, SameRunners

\* Untouched handlers hold what they held.
LEMMA UnchangedCalls == calls' = calls => SameCalls
BY DEF SameCalls, Executing

\* Untouched goroutines hold what they held.
LEMMA UnchangedRunners == runners' = runners => SameRunners
BY DEF SameRunners

\* A handler that edits the instance comes and goes without the guard.
LEMMA EditCalls ==
  ASSUME NEW c, NEW r, r.pc \notin {"read", "launch"},
         c \in DOMAIN calls => calls[c].pc \notin {"read", "launch"},
         calls' = Put(calls, c, r)
  PROVE  SameCalls
BY DEF SameCalls, Executing, Put

\* A handler without the guard returns.
LEMMA ReturnCalls ==
  ASSUME NEW c, c \in DOMAIN calls => calls[c].pc \notin {"read", "launch"}, Return(c)
  PROVE  SameCalls
BY DEF SameCalls, Executing, Return, Drop

\* A handler goes from one step of its request to the next.
LEMMA MoveCalls ==
  ASSUME NEW c \in DOMAIN calls, NEW r, r.id = calls[c].id,
         r.pc \in {"read", "launch"} <=> calls[c].pc \in {"read", "launch"},
         DOMAIN calls' = DOMAIN calls, calls'[c] = r,
         \A d \in DOMAIN calls : d # c => calls'[d] = calls[d]
  PROVE  SameCalls
BY DEF SameCalls, Executing

-----------------------------------------------------------------------------
(* The four steps that touch the guard.                                     *)

\* The handler that takes a free guard is its only holder.
LEMMA AcquireGuard ==
  ASSUME GuardInv, NEW c, NEW i, NEW type, NEW parallel, Acquire(c, i, type, parallel)
  PROVE  GuardInv'
<1>1. /\ c \notin DOMAIN calls /\ i \notin running
      /\ running' = running \cup {i}
      /\ runners' = runners
      /\ DOMAIN calls' = DOMAIN calls \cup {c}
      /\ calls'[c].id = i /\ calls'[c].pc = "read"
      /\ \A d \in DOMAIN calls : calls'[d] = calls[d]
  BY DEF Acquire, Put
<1>2. Executing' = Executing \cup {c} /\ c \notin Executing
  BY <1>1 DEF Executing
<1>3. \A d \in Executing : calls'[d] = calls[d] /\ calls[d].id # i
  BY <1>1 DEF Executing, GuardInv
<1>4. \A o \in DOMAIN runners : runners[o].op.id # i
  BY <1>1 DEF GuardInv
<1> QED BY <1>1, <1>2, <1>3, <1>4 DEF GuardInv

\* A request that fails after the guard was taken gives it back.
LEMMA AbortGuard ==
  ASSUME GuardInv, NEW c, AbortOperation(c)
  PROVE  GuardInv'
<1>1. /\ c \in Executing
      /\ running' = running \ {calls[c].id}
      /\ runners' = runners
      /\ DOMAIN calls' = DOMAIN calls \ {c}
      /\ \A d \in DOMAIN calls' : calls'[d] = calls[d]
  BY DEF AbortOperation, Executing, Return, Drop
<1>2. Executing' = Executing \ {c}
  BY <1>1 DEF Executing
<1>3. \A d \in Executing \ {c} : calls'[d] = calls[d] /\ calls[d].id # calls[c].id
  BY <1>1 DEF Executing, GuardInv
<1>4. \A o \in DOMAIN runners : runners[o].op.id # calls[c].id
  BY <1>1 DEF GuardInv
<1> QED BY <1>1, <1>2, <1>3, <1>4 DEF GuardInv

\* The guard passes from the handler to the goroutine it starts.
LEMMA LaunchGuard ==
  ASSUME TypeInv, Allocated, GuardInv, NEW c, Launch(c)
  PROVE  GuardInv'
<1> DEFINE n == nextOperation
<1>1. /\ c \in Executing
      /\ running' = running
      /\ DOMAIN calls' = DOMAIN calls \ {c}
      /\ \A d \in DOMAIN calls' : calls'[d] = calls[d]
      /\ DOMAIN runners' = DOMAIN runners \cup {n}
      /\ runners'[n].op.id = calls[c].id
      /\ \A o \in DOMAIN runners : o # n => runners'[o] = runners[o]
  BY DEF Launch, Executing, Return, Drop, Put
<1>2. n \notin DOMAIN runners
  BY Identifiers DEF Allocated
<1>3. Executing' = Executing \ {c}
  BY <1>1 DEF Executing
<1>4. \A d \in Executing \ {c} : calls'[d] = calls[d] /\ calls[d].id # calls[c].id
  BY <1>1 DEF Executing, GuardInv
<1>5. \A o \in DOMAIN runners : runners'[o] = runners[o] /\ runners[o].op.id # calls[c].id
  BY <1>1, <1>2 DEF GuardInv
<1> HIDE DEF n
<1> QED BY <1>1, <1>2, <1>3, <1>4, <1>5 DEF GuardInv

\* The last step of the goroutine gives the guard back.
LEMMA FinishGuard ==
  ASSUME GuardInv, NEW o \in DOMAIN runners, Finish(o), calls' = calls
  PROVE  GuardInv'
<1>1. /\ running' = running \ {runners[o].op.id}
      /\ DOMAIN runners' = DOMAIN runners \ {o}
      /\ \A p \in DOMAIN runners' : runners'[p] = runners[p]
      /\ Executing' = Executing
  BY DEF Finish, Drop, Executing
<1>2. \A p \in DOMAIN runners' : runners[p].op.id # runners[o].op.id
  BY <1>1 DEF GuardInv
<1>3. \A d \in Executing : calls[d].id # runners[o].op.id
  BY DEF GuardInv
<1> QED BY <1>1, <1>2, <1>3 DEF GuardInv

-----------------------------------------------------------------------------
(* Every other step is quiet.                                               *)

\* The handlers that never hold the guard keep GuardInv.
LEMMA HandlersGuard ==
  ASSUME GuardInv, Handlers
  PROVE  GuardInv'
<1>1. ASSUME NEW compose \in ComposeFiles, NEW target \in Targets, Create(compose, target)
      PROVE  GuardInv'
  BY <1>1, QuietGuard, UnchangedCalls, UnchangedRunners DEF Create, memVars
<1>2. ASSUME NEW c, NEW i, BeginRefresh(c, i)
      PROVE  GuardInv'
  <2> DEFINE r == [req |-> "refresh", id |-> i, pc |-> "statuses",
                   parallel |-> FALSE, copy |-> instances[i]]
  <2>1. /\ c \notin DOMAIN calls /\ calls' = Put(calls, c, r)
        /\ running' = running /\ runners' = runners
    BY <1>2 DEF BeginRefresh
  <2>2. SameCalls
    BY <2>1, EditCalls
  <2> QED BY <2>1, <2>2, QuietGuard, UnchangedRunners
<1>3. ASSUME NEW c, NEW i, BeginDelete(c, i)
      PROVE  GuardInv'
  <2> DEFINE r == [req |-> "delete", id |-> i, pc |-> "purged",
                   parallel |-> FALSE, copy |-> instances[i]]
  <2>1. /\ c \notin DOMAIN calls /\ calls' = Put(calls, c, r)
        /\ running' = running /\ runners' = runners
    BY <1>3 DEF BeginDelete
  <2>2. SameCalls
    BY <2>1, EditCalls
  <2> QED BY <2>1, <2>2, QuietGuard, UnchangedRunners
<1>4. ASSUME NEW c, NEW i, NEW compose, NEW target, BeginUpdate(c, i, compose, target)
      PROVE  GuardInv'
  <2> DEFINE r == [req |-> "update", id |-> i, pc |-> "resolve", parallel |-> FALSE,
                   copy |-> [instances[i] EXCEPT !.compose = compose, !.target = target]]
  <2>1. /\ c \notin DOMAIN calls /\ calls' = Put(calls, c, r)
        /\ running' = running /\ runners' = runners
    BY <1>4 DEF BeginUpdate
  <2>2. SameCalls
    BY <2>1, EditCalls
  <2> QED BY <2>1, <2>2, QuietGuard, UnchangedRunners
<1> QED BY <1>1, <1>2, <1>3, <1>4, AcquireGuard DEF Handlers

\* Every step of a handler keeps GuardInv.
LEMMA HandlerStepGuard ==
  ASSUME TypeInv, Allocated, GuardInv, NEW c, HandlerStep(c)
  PROVE  GuardInv'
<1>1. CASE ReadForOperation(c)
  <2> DEFINE r == [calls[c] EXCEPT !.copy = instances[calls[c].id], !.pc = "launch"]
  <2>1. /\ c \in DOMAIN calls /\ calls[c].pc = "read"
        /\ calls' = [calls EXCEPT ![c] = r]
        /\ running' = running /\ runners' = runners
    BY <1>1 DEF ReadForOperation
  <2>2. r.id = calls[c].id /\ r.pc = "launch"
    BY <2>1, CallFields DEF Call
  <2> HIDE DEF r
  <2>3. /\ DOMAIN calls' = DOMAIN calls /\ calls'[c] = r
        /\ \A d \in DOMAIN calls : d # c => calls'[d] = calls[d]
    BY <2>1, ExceptTable DEF TypeInv, TypeOK
  <2>4. SameCalls
    BY <2>1, <2>2, <2>3, MoveCalls
  <2> QED BY <2>1, <2>4, QuietGuard, UnchangedRunners
<1>2. CASE ResolveUpdate(c)
  <2> DEFINE r == [calls[c] EXCEPT !.pc = "write"]
  <2>1. /\ c \in DOMAIN calls /\ calls[c].pc = "resolve"
        /\ Return(c) \/ calls' = [calls EXCEPT ![c] = r]
        /\ running' = running /\ runners' = runners
    BY <1>2 DEF ResolveUpdate
  <2>2. r.id = calls[c].id /\ r.pc = "write"
    BY <2>1, CallFields DEF Call
  <2> HIDE DEF r
  <2>3. CASE Return(c)
    BY <2>1, <2>3, ReturnCalls, QuietGuard, UnchangedRunners
  <2>4. CASE calls' = [calls EXCEPT ![c] = r]
    <3>1. /\ DOMAIN calls' = DOMAIN calls /\ calls'[c] = r
          /\ \A d \in DOMAIN calls : d # c => calls'[d] = calls[d]
      BY <2>1, <2>4, ExceptTable DEF TypeInv, TypeOK
    <3>2. SameCalls
      BY <2>1, <2>2, <3>1, MoveCalls
    <3> QED BY <2>1, <3>2, QuietGuard, UnchangedRunners
  <2> QED BY <2>1, <2>3, <2>4
<1>3. CASE RefreshStatuses(c)
  <2> DEFINE status == AggregateStatus(TargetStatuses(calls[c].id, calls[c].copy.target))
             r      == [calls[c] EXCEPT !.pc = "write", !.copy.status = status]
  <2>1. /\ c \in DOMAIN calls /\ calls[c].pc = "statuses"
        /\ Return(c) \/ calls' = [calls EXCEPT ![c] = r]
        /\ running' = running /\ runners' = runners
    BY <1>3 DEF RefreshStatuses
  <2>2. r.id = calls[c].id /\ r.pc = "write"
    BY <2>1, CallFields DEF Call
  <2> HIDE DEF r
  <2>3. CASE Return(c)
    BY <2>1, <2>3, ReturnCalls, QuietGuard, UnchangedRunners
  <2>4. CASE calls' = [calls EXCEPT ![c] = r]
    <3>1. /\ DOMAIN calls' = DOMAIN calls /\ calls'[c] = r
          /\ \A d \in DOMAIN calls : d # c => calls'[d] = calls[d]
      BY <2>1, <2>4, ExceptTable DEF TypeInv, TypeOK
    <3>2. SameCalls
      BY <2>1, <2>2, <3>1, MoveCalls
    <3> QED BY <2>1, <3>2, QuietGuard, UnchangedRunners
  <2> QED BY <2>1, <2>3, <2>4
<1>4. CASE WriteInstance(c)
  BY <1>4, ReturnCalls, QuietGuard, UnchangedRunners DEF WriteInstance
<1>5. CASE EndDelete(c)
  BY <1>5, ReturnCalls, QuietGuard, UnchangedRunners DEF EndDelete
<1> QED
  BY <1>1, <1>2, <1>3, <1>4, <1>5, AbortGuard, LaunchGuard DEF HandlerStep

\* A goroutine's record changes, but not the instance that it works on.
LEMMA SameRunner ==
  ASSUME TypeInv, NEW o \in DOMAIN runners, NEW r, r.op.id = runners[o].op.id,
         runners' = [runners EXCEPT ![o] = r]
  PROVE  SameRunners
<1>1. DOMAIN runners' = DOMAIN runners /\ runners'[o] = r
      /\ \A p \in DOMAIN runners : p # o => runners'[p] = runners[p]
  BY DEF TypeInv, TypeOK, IsTable
<1> QED BY <1>1 DEF SameRunners

\* Every step of a worker keeps GuardInv.
LEMMA WorkStepGuard ==
  ASSUME TypeInv, GuardInv, NEW o, NEW e, WorkStep(o, e)
  PROVE  GuardInv'
<1>1. o \in DOMAIN runners /\ running' = running /\ calls' = calls
  BY DEF WorkStep, StartTarget, FindStack, CreateStackRecord, StoreComposeFile,
         DeployStack, UndeployStack, SaveStack, EndTarget, At, Report
<1>2. runners[o] \in Runner /\ runners[o].op \in Operation
  BY <1>1, RunnerFields
<1>3. \/ \E pc : Goto(o, e, pc)
      \/ \E k, pc : TakeStack(o, e, k, pc)
      \/ \E result, pc : Report(o, e, result, pc)
  BY DEF WorkStep, StartTarget, FindStack, CreateStackRecord, StoreComposeFile,
         DeployStack, UndeployStack, SaveStack, EndTarget
<1>4. ASSUME NEW pc, Goto(o, e, pc) PROVE SameRunners
  <2> DEFINE r == [runners[o] EXCEPT !.work[e] = pc]
  <2>1. r.op.id = runners[o].op.id
    BY <1>2 DEF Runner
  <2>2. runners' = [runners EXCEPT ![o] = r]
    BY <1>4 DEF Goto
  <2> HIDE DEF r
  <2> QED BY <1>1, <2>1, <2>2, SameRunner
<1>5. ASSUME NEW k, NEW pc, TakeStack(o, e, k, pc) PROVE SameRunners
  <2> DEFINE r == [runners[o] EXCEPT !.work[e] = pc,
                                     !.stack = Put(runners[o].stack, e, k)]
  <2>1. r.op.id = runners[o].op.id
    BY <1>2 DEF Runner
  <2>2. runners' = [runners EXCEPT ![o] = r]
    BY <1>5 DEF TakeStack
  <2> HIDE DEF r
  <2> QED BY <1>1, <2>1, <2>2, SameRunner
<1>6. ASSUME NEW result, NEW pc, Report(o, e, result, pc) PROVE SameRunners
  <2> DEFINE r == [runners[o] EXCEPT !.op.results[e] = result, !.work[e] = pc]
  <2>1. r.op.id = runners[o].op.id
    BY <1>2 DEF Runner, Operation
  <2>2. runners' = [runners EXCEPT ![o] = r]
    BY <1>6 DEF Report
  <2> HIDE DEF r
  <2> QED BY <1>1, <2>1, <2>2, SameRunner
<1> QED BY <1>1, <1>3, <1>4, <1>5, <1>6, QuietGuard, UnchangedCalls

\* Every step of a goroutine keeps GuardInv.
LEMMA RunnerStepGuard ==
  ASSUME TypeInv, GuardInv, NEW o, RunnerStep(o)
  PROVE  GuardInv'
<1>1. ASSUME NEW e, WorkStep(o, e) PROVE GuardInv'
  BY <1>1, WorkStepGuard
<1>2. CASE FinalizeOperation(o)
  <2> DEFINE res == [e \in DOMAIN runners[o].op.results |->
                       IF runners[o].work[e] = "idle" THEN "Skipped"
                       ELSE runners[o].op.results[e]]
             op  == [runners[o].op EXCEPT !.results = res, !.status = Outcome(res)]
             r   == [runners[o] EXCEPT !.op = op, !.phase = "statuses"]
  <2>1. /\ o \in DOMAIN runners /\ runners' = [runners EXCEPT ![o] = r]
        /\ running' = running /\ calls' = calls
    BY <1>2 DEF FinalizeOperation
  <2>2. runners[o] \in Runner /\ runners[o].op \in Operation
    BY <2>1, RunnerFields
  <2> HIDE DEF res
  <2>3. op.id = runners[o].op.id
    BY <2>2 DEF Operation
  <2> HIDE DEF op
  <2>4. r.op.id = runners[o].op.id
    BY <2>2, <2>3 DEF Runner
  <2> HIDE DEF r
  <2> QED BY <2>1, <2>4, SameRunner, QuietGuard, UnchangedCalls
<1>3. CASE ReadStatuses(o)
  <2> DEFINE status == AggregateStatus(TargetStatuses(runners[o].op.id,
                                                      runners[o].copy.target))
             r      == [runners[o] EXCEPT !.phase = "write", !.copy.status = status]
  <2>1. /\ o \in DOMAIN runners /\ calls' = calls
        /\ \/ Finish(o)
           \/ runners' = [runners EXCEPT ![o] = r] /\ running' = running
    BY <1>3 DEF ReadStatuses
  <2>2. runners[o] \in Runner
    BY <2>1, RunnerFields
  <2>3. r.op.id = runners[o].op.id
    BY <2>2 DEF Runner
  <2> HIDE DEF r
  <2> QED BY <2>1, <2>3, FinishGuard, SameRunner, QuietGuard, UnchangedCalls
<1>4. CASE FinishOperation(o)
  BY <1>4, FinishGuard DEF FinishOperation
<1> QED BY <1>1, <1>2, <1>3, <1>4 DEF RunnerStep

\* Every step of the system keeps GuardInv.
LEMMA NextGuard ==
  ASSUME TypeInv, Allocated, GuardInv, [Next]_vars
  PROVE  GuardInv'
<1>1. CASE Crash
  <2>1. DOMAIN calls' = {} /\ DOMAIN runners' = {} /\ running' = {}
    BY <1>1, EmptyIsTable DEF Crash
  <2> QED BY <2>1 DEF GuardInv, Executing
<1>2. CASE Restart \/ (\E e \in Environments : MoveEnvironment(e)) \/ UNCHANGED vars
  <2>1. UNCHANGED <<running, calls, runners>>
    BY <1>2 DEF Restart, MoveEnvironment, vars, memVars
  <2> QED BY <2>1, QuietGuard, UnchangedCalls, UnchangedRunners
<1> QED BY <1>1, <1>2, HandlersGuard, HandlerStepGuard, RunnerStepGuard DEF Next

\* The guard of an instance is taken exactly while one handler or one
\* goroutine of an operation of that instance holds it: ExecuteOperation never
\* lets two operations of an instance overlap, and no path keeps the guard
\* once its holder is gone.
THEOREM GuardIsExact == Spec => []GuardExact
<1>1. Init => GuardInv
  BY InitGuard
<1>2. TypeInv /\ Allocated /\ GuardInv /\ [Next]_vars => GuardInv'
  BY NextGuard
<1>3. GuardInv => GuardExact
  BY GuardInvIsExact
<1> QED BY <1>1, <1>2, <1>3, TypeCorrect, PTL DEF Spec

-----------------------------------------------------------------------------
(* A goroutine's own record.                                                *)

\* How far a worker is and what its target's result says go together; after
\* the operation's final status the targets left idle stay so.
WorkerReports(r, e) ==
  /\ r.work[e] = "idle" =>
       r.op.results[e] = IF r.phase = "targets" THEN "Pending" ELSE "Skipped"
  /\ r.work[e] = "done" => r.op.results[e] \in {"Success", "Failed"}
  /\ r.work[e] \notin {"idle", "done"} =>
       r.phase = "targets" /\ r.op.results[e] = "Running"
  /\ r.phase # "targets" /\ r.work[e] = "idle" => ~MayStart(r)

\* In sequence at most one target was attempted without success.
OneUnsuccessful(r) ==
  ~r.parallel =>
    \A e, f \in DOMAIN r.work :
      /\ r.op.results[e] \in {"Running", "Failed"}
      /\ r.op.results[f] \in {"Running", "Failed"}
      => e = f

RunnerInv(r) ==
  /\ DOMAIN r.work = DOMAIN r.op.results
  /\ r.phase = "targets" <=> r.op.status = "Running"
  /\ \A e \in DOMAIN r.work : WorkerReports(r, e)
  /\ OneUnsuccessful(r)

\* The goroutine of a launched operation starts with every target pending.
LEMMA LaunchedRunner ==
  ASSUME NEW r, NEW envs, r.work = [e \in envs |-> "idle"], r.phase = "targets",
         r.op.status = "Running", r.op.results = [e \in envs |-> "Pending"]
  PROVE  RunnerInv(r)
BY DEF RunnerInv, WorkerReports, OneUnsuccessful

\* Record s is record r with worker e moved to pc.
MovesTo(s, r, e, pc) ==
  /\ s.parallel = r.parallel /\ s.phase = r.phase /\ s.copy = r.copy
  /\ DOMAIN s.work = DOMAIN r.work /\ s.work[e] = pc
  /\ \A f \in DOMAIN r.work : f # e => s.work[f] = r.work[f]

\* Operation q is operation p with another result of target e.
ResultIs(q, p, e, result) ==
  /\ q.id = p.id /\ q.type = p.type /\ q.status = p.status
  /\ q.results = [p.results EXCEPT ![e] = result]
  /\ DOMAIN q.results = DOMAIN p.results /\ q.results[e] = result
  /\ \A f \in DOMAIN p.results : f # e => q.results[f] = p.results[f]

\* A worker at its target moves on; its target is still being worked on.
LEMMA WorkerMove ==
  ASSUME NEW r, RunnerInv(r), NEW e \in DOMAIN r.work,
         r.work[e] \notin {"idle", "done"},
         NEW pc, pc \notin {"idle", "done"},
         NEW s, MovesTo(s, r, e, pc), s.op = r.op
  PROVE  RunnerInv(s)
<1>1. r.phase = "targets"
  BY DEF RunnerInv, WorkerReports
<1>2. \A f \in DOMAIN s.work : WorkerReports(s, f)
  BY <1>1 DEF RunnerInv, WorkerReports, MovesTo
<1>3. OneUnsuccessful(s)
  BY DEF RunnerInv, OneUnsuccessful, MovesTo
<1> QED BY <1>2, <1>3 DEF RunnerInv, MovesTo

\* A worker starts, when it may, or reports how its target went.
LEMMA WorkerReport ==
  ASSUME NEW r, RunnerInv(r), NEW e \in DOMAIN r.work, NEW result, NEW pc,
         \/ /\ r.work[e] = "idle" /\ MayStart(r)
            /\ result = "Running" /\ pc = "find"
         \/ /\ r.work[e] \in {"ok", "err"}
            /\ result \in {"Success", "Failed"} /\ pc = "done",
         NEW s, MovesTo(s, r, e, pc), ResultIs(s.op, r.op, e, result)
  PROVE  RunnerInv(s) /\ r.phase = "targets"
<1>1. r.phase = "targets"
  BY DEF RunnerInv, WorkerReports
<1>2. \A f \in DOMAIN s.work : WorkerReports(s, f)
  BY <1>1 DEF RunnerInv, WorkerReports, MovesTo, ResultIs
<1>3. OneUnsuccessful(s)
  <2>1. CASE r.work[e] = "idle"
    <3>1. ASSUME ~r.parallel, NEW f \in DOMAIN r.work, f # e
          PROVE  r.op.results[f] \notin {"Running", "Failed"}
      <4>1. MayStart(r)
        BY <2>1
      <4>2. r.work[f] \in {"idle", "done"} /\ r.op.results[f] # "Failed"
        BY <3>1, <4>1 DEF MayStart
      <4> QED BY <1>1, <4>2 DEF RunnerInv, WorkerReports
    <3>2. /\ DOMAIN s.work = DOMAIN r.work /\ s.parallel = r.parallel
          /\ DOMAIN r.work = DOMAIN r.op.results
      BY DEF MovesTo, RunnerInv
    <3>3. \A f \in DOMAIN r.work : f # e => s.op.results[f] = r.op.results[f]
      BY <3>2 DEF ResultIs
    <3> QED BY <3>1, <3>2, <3>3 DEF OneUnsuccessful
  <2>2. CASE r.work[e] \in {"ok", "err"}
    <3>1. r.op.results[e] = "Running"
      BY <2>2 DEF RunnerInv, WorkerReports
    <3>2. DOMAIN s.work = DOMAIN r.work /\ s.parallel = r.parallel
      BY DEF MovesTo
    <3>3. \A f \in DOMAIN r.work :
            s.op.results[f] \in {"Running", "Failed"}
              => r.op.results[f] \in {"Running", "Failed"}
      BY <3>1 DEF RunnerInv, ResultIs
    <3> QED BY <3>2, <3>3 DEF RunnerInv, OneUnsuccessful
  <2> QED BY <2>1, <2>2
<1> QED BY <1>1, <1>2, <1>3 DEF RunnerInv, MovesTo, ResultIs

\* The operation is given its final status: the targets left idle are skipped.
LEMMA RunnerFinal ==
  ASSUME NEW r, RunnerInv(r), TargetsDone(r),
         NEW s, s.work = r.work, s.parallel = r.parallel, s.phase = "statuses",
         s.op.status # "Running",
         s.op.results = [e \in DOMAIN r.op.results |->
                           IF r.work[e] = "idle" THEN "Skipped" ELSE r.op.results[e]]
  PROVE  RunnerInv(s)
<1>1. \A e \in DOMAIN r.work : r.op.results[e] = "Failed" => s.op.results[e] = "Failed"
  BY DEF RunnerInv, WorkerReports
<1>2. MayStart(s) => MayStart(r)
  BY <1>1 DEF MayStart
<1>3. \A e \in DOMAIN s.work : WorkerReports(s, e)
  BY <1>2 DEF RunnerInv, WorkerReports, TargetsDone
<1>4. OneUnsuccessful(s)
  BY DEF RunnerInv, OneUnsuccessful
<1> QED BY <1>3, <1>4 DEF RunnerInv, TargetsDone

-----------------------------------------------------------------------------
(* The records of all goroutines, and what the bucket shows of them.        *)

\* A dead process has no handler, no goroutine and no guard; a record that is
\* in the bucket while its goroutine lives is the one the goroutine holds; and
\* one that says Running has a goroutine.
RecordInv ==
  /\ ~up => DOMAIN calls = {} /\ DOMAIN runners = {} /\ running = {}
  /\ \A o \in DOMAIN runners : RunnerInv(runners[o])
  /\ \A o \in DOMAIN runners \cap DOMAIN operations : operations[o] = runners[o].op
  /\ up => \A o \in DOMAIN operations :
             operations[o].status = "Running" => o \in DOMAIN runners

\* Nothing is recorded at the start.
LEMMA InitRecords == Init => RecordInv
<1> SUFFICES ASSUME Init PROVE RecordInv
  OBVIOUS
<1>1. DOMAIN operations = {} /\ DOMAIN runners = {} /\ up
  BY EmptyIsTable DEF Init
<1> QED BY <1>1 DEF RecordInv

\* A step that writes no record, or removes some from the bucket.
LEMMA QuietRecords ==
  ASSUME RecordInv, runners' = runners, up' = up,
         ~up => calls' = calls /\ running' = running,
         DOMAIN operations' \subseteq DOMAIN operations,
         \A o \in DOMAIN operations' : operations'[o] = operations[o]
  PROVE  RecordInv'
BY DEF RecordInv

\* A goroutine goes on to record s, and the bucket follows where it changed.
LEMMA MovedRecords ==
  ASSUME TypeInv, RecordInv, NEW o \in DOMAIN runners, NEW s, RunnerInv(s),
         runners' = [runners EXCEPT ![o] = s], up' = up,
         \/ operations' = operations /\ s.op = runners[o].op
         \/ operations' = Put(operations, o, s.op)
  PROVE  RecordInv'
<1>1. DOMAIN runners' = DOMAIN runners /\ runners'[o] = s
      /\ \A p \in DOMAIN runners : p # o => runners'[p] = runners[p]
  BY ExceptTable DEF TypeInv, TypeOK
<1>2. up'
  BY DEF RecordInv, TypeInv, TypeOK
<1>3. \A p \in DOMAIN runners' : RunnerInv(runners'[p])
  BY <1>1 DEF RecordInv
<1>4. \A p \in DOMAIN operations' :
        p = o \/ (p \in DOMAIN operations /\ operations'[p] = operations[p])
  BY DEF Put
<1>5. o \in DOMAIN operations' => operations'[o] = s.op
  BY DEF Put, RecordInv
<1>6. \A p \in DOMAIN runners' \cap DOMAIN operations' : operations'[p] = runners'[p].op
  BY <1>1, <1>4, <1>5 DEF RecordInv
<1>7. \A p \in DOMAIN operations' :
        operations'[p].status = "Running" => p \in DOMAIN runners'
  BY <1>1, <1>2, <1>4 DEF RecordInv
<1>8. \A p \in DOMAIN runners : RunnerInv(runners[p])'
  BY <1>1, <1>3
<1> QED BY <1>1, <1>2, <1>3, <1>6, <1>7 DEF RecordInv

\* A goroutine that has given its operation a final status may go.
LEMMA FinishRecords ==
  ASSUME TypeInv, RecordInv, NEW o \in DOMAIN runners, Finish(o),
         runners[o].phase # "targets", operations' = operations, up' = up,
         calls' = calls
  PROVE  RecordInv'
<1>1. DOMAIN runners' = DOMAIN runners \ {o}
      /\ \A p \in DOMAIN runners' : runners'[p] = runners[p]
  BY DEF Finish, Drop
<1>2. up'
  BY DEF RecordInv, TypeInv, TypeOK
<1>3. o \in DOMAIN operations => operations[o].status # "Running"
  BY DEF RecordInv, RunnerInv
<1> QED BY <1>1, <1>2, <1>3 DEF RecordInv

\* A launched operation is recorded and has its goroutine.
LEMMA LaunchRecords ==
  ASSUME TypeInv, RecordInv, NEW c, Launch(c)
  PROVE  RecordInv'
<1> DEFINE n    == nextOperation
           envs == Resolve(calls[c].copy.target)
           op   == [id |-> calls[c].id, type |-> calls[c].req, status |-> "Running",
                    results |-> [e \in envs |-> "Pending"]]
           run  == [copy |-> calls[c].copy, op |-> op, parallel |-> calls[c].parallel,
                    work |-> [e \in envs |-> "idle"], stack |-> EmptyTable,
                    phase |-> "targets"]
<1>1. /\ operations' = Put(operations, n, op) /\ runners' = Put(runners, n, run)
      /\ c \in DOMAIN calls /\ up' = up
  BY DEF Launch
<1>2. RunnerInv(run) /\ run.op = op
  BY LaunchedRunner
<1> HIDE DEF run, op
<1>3. up /\ up'
  BY <1>1 DEF RecordInv, TypeInv, TypeOK
<1>4. DOMAIN runners' = DOMAIN runners \cup {n} /\ runners'[n] = run
      /\ \A p \in DOMAIN runners : p # n => runners'[p] = runners[p]
  BY <1>1 DEF Put
<1>5. DOMAIN operations' = DOMAIN operations \cup {n} /\ operations'[n] = op
      /\ \A p \in DOMAIN operations : p # n => operations'[p] = operations[p]
  BY <1>1 DEF Put
<1> QED BY <1>2, <1>3, <1>4, <1>5 DEF RecordInv

\* The requests that edit, and the one that takes the guard, write no record.
LEMMA HandlersRecords ==
  ASSUME RecordInv, Handlers
  PROVE  RecordInv'
<1>1. /\ runners' = runners /\ up' = up /\ up
      /\ DOMAIN operations' \subseteq DOMAIN operations
      /\ \A o \in DOMAIN operations' : operations'[o] = operations[o]
  BY DEF Handlers, Create, Acquire, BeginRefresh, BeginDelete, BeginUpdate, Drop,
         dbVars, memVars
<1> QED BY <1>1, QuietRecords

\* Every step of a handler keeps RecordInv.
LEMMA HandlerStepRecords ==
  ASSUME TypeInv, RecordInv, NEW c, HandlerStep(c)
  PROVE  RecordInv'
<1>1. CASE Launch(c)
  BY <1>1, LaunchRecords
<1>2. CASE ~Launch(c)
  <2>1. UNCHANGED <<runners, operations, up>> /\ c \in DOMAIN calls
    BY <1>2 DEF HandlerStep, ReadForOperation, AbortOperation, ResolveUpdate,
                RefreshStatuses, WriteInstance, EndDelete, dbVars
  <2>2. up
    BY <2>1 DEF RecordInv
  <2> QED BY <2>1, <2>2, QuietRecords
<1> QED BY <1>1, <1>2

\* A goroutine's next record, for a worker that moves to pc.
LEMMA GotoStep ==
  ASSUME TypeInv, NEW o, NEW e, NEW old, NEW pc, At(o, e, old), Goto(o, e, pc)
  PROVE  \E s : /\ runners' = [runners EXCEPT ![o] = s]
                /\ MovesTo(s, runners[o], e, pc)
                /\ s.op = runners[o].op /\ s.stack = runners[o].stack
<1> DEFINE s == [runners[o] EXCEPT !.work[e] = pc]
<1>1. /\ runners[o] \in Runner /\ e \in DOMAIN runners[o].work
      /\ IsTable(runners[o].work, Environments, WorkPC)
  BY RunnerFields DEF At
<1>2. /\ s.op = runners[o].op /\ s.parallel = runners[o].parallel
      /\ s.phase = runners[o].phase /\ s.copy = runners[o].copy
      /\ s.stack = runners[o].stack
      /\ s.work = [runners[o].work EXCEPT ![e] = pc]
  BY <1>1 DEF Runner
<1>3. runners' = [runners EXCEPT ![o] = s]
  BY DEF Goto
<1> HIDE DEF s
<1>4. MovesTo(s, runners[o], e, pc)
  BY <1>1, <1>2 DEF IsTable, MovesTo
<1> WITNESS s
<1> QED BY <1>2, <1>3, <1>4, Zenon

\* ... for one that takes stack k in hand.
LEMMA TakeStackStep ==
  ASSUME TypeInv, NEW o, NEW e, NEW old, NEW pc, NEW k, At(o, e, old),
         TakeStack(o, e, k, pc)
  PROVE  \E s : /\ runners' = [runners EXCEPT ![o] = s]
                /\ MovesTo(s, runners[o], e, pc)
                /\ s.op = runners[o].op
                /\ s.stack = Put(runners[o].stack, e, k)
<1> DEFINE s == [runners[o] EXCEPT !.work[e] = pc, !.stack = Put(runners[o].stack, e, k)]
<1>1. /\ runners[o] \in Runner /\ e \in DOMAIN runners[o].work
      /\ IsTable(runners[o].work, Environments, WorkPC)
  BY RunnerFields DEF At
<1>2. /\ s.op = runners[o].op /\ s.parallel = runners[o].parallel
      /\ s.phase = runners[o].phase /\ s.copy = runners[o].copy
      /\ s.stack = Put(runners[o].stack, e, k)
      /\ s.work = [runners[o].work EXCEPT ![e] = pc]
  BY <1>1 DEF Runner
<1>3. runners' = [runners EXCEPT ![o] = s]
  BY DEF TakeStack
<1> HIDE DEF s
<1>4. MovesTo(s, runners[o], e, pc)
  BY <1>1, <1>2 DEF IsTable, MovesTo
<1> WITNESS s
<1> QED BY <1>2, <1>3, <1>4, Zenon

\* ... and for one that reports.
LEMMA ReportStep ==
  ASSUME TypeInv, NEW o, NEW e, NEW old, NEW result, NEW pc, At(o, e, old),
         DOMAIN runners[o].work = DOMAIN runners[o].op.results,
         Report(o, e, result, pc)
  PROVE  \E s : /\ runners' = [runners EXCEPT ![o] = s]
                /\ operations' = Put(operations, o, s.op)
                /\ MovesTo(s, runners[o], e, pc)
                /\ ResultIs(s.op, runners[o].op, e, result)
                /\ s.stack = runners[o].stack
<1> DEFINE s   == [runners[o] EXCEPT !.op.results[e] = result, !.work[e] = pc]
           op  == [runners[o].op EXCEPT !.results[e] = result]
<1>1. /\ runners[o] \in Runner /\ runners[o].op \in Operation
      /\ e \in DOMAIN runners[o].work /\ e \in DOMAIN runners[o].op.results
      /\ IsTable(runners[o].work, Environments, WorkPC)
      /\ IsTable(runners[o].op.results, Environments, TargetStatus)
  BY RunnerFields DEF At
<1>2. /\ s.op = op
      /\ s.parallel = runners[o].parallel
      /\ s.phase = runners[o].phase /\ s.copy = runners[o].copy
      /\ s.stack = runners[o].stack
      /\ s.work = [runners[o].work EXCEPT ![e] = pc]
  BY <1>1 DEF Runner
<1>3. /\ op.results = [runners[o].op.results EXCEPT ![e] = result]
      /\ op.id = runners[o].op.id /\ op.type = runners[o].op.type
      /\ op.status = runners[o].op.status
  BY <1>1 DEF Operation
<1>4. runners' = [runners EXCEPT ![o] = s] /\ operations' = Put(operations, o, s.op)
  BY DEF Report
<1> HIDE DEF s, op
<1>5. MovesTo(s, runners[o], e, pc)
  BY <1>1, <1>2 DEF IsTable, MovesTo
<1>6. ResultIs(op, runners[o].op, e, result)
  BY <1>1, <1>3 DEF IsTable, ResultIs
<1> WITNESS s
<1> QED BY <1>2, <1>4, <1>5, <1>6, Zenon

\* What finalizeOperation makes of the goroutine's record.
LEMMA FinalizeStep ==
  ASSUME TypeInv, NEW o, FinalizeOperation(o)
  PROVE  \E s : /\ runners' = [runners EXCEPT ![o] = s]
                /\ operations' = Put(operations, o, s.op)
                /\ s.op.id = runners[o].op.id /\ s.op.type = runners[o].op.type
                /\ s.op.status = Outcome(s.op.results)
                /\ s.parallel = runners[o].parallel
                /\ s.phase = "statuses" /\ s.copy = runners[o].copy
                /\ s.stack = runners[o].stack /\ s.work = runners[o].work
                /\ s.op.results = [e \in DOMAIN runners[o].op.results |->
                                     IF runners[o].work[e] = "idle" THEN "Skipped"
                                     ELSE runners[o].op.results[e]]
<1> DEFINE res == [e \in DOMAIN runners[o].op.results |->
                     IF runners[o].work[e] = "idle" THEN "Skipped"
                     ELSE runners[o].op.results[e]]
           op  == [runners[o].op EXCEPT !.results = res, !.status = Outcome(res)]
           s   == [runners[o] EXCEPT !.op = op, !.phase = "statuses"]
<1>1. /\ o \in DOMAIN runners
      /\ operations' = Put(operations, o, op)
      /\ runners' = [runners EXCEPT ![o] = s]
  BY DEF FinalizeOperation
<1>2. runners[o] \in Runner /\ runners[o].op \in Operation
  BY <1>1, RunnerFields
<1> HIDE DEF res
<1>3. /\ op.results = res /\ op.status = Outcome(res)
      /\ op.id = runners[o].op.id /\ op.type = runners[o].op.type
  BY <1>2 DEF Operation
<1> HIDE DEF op
<1>4. /\ s.op = op /\ s.phase = "statuses" /\ s.parallel = runners[o].parallel
      /\ s.copy = runners[o].copy /\ s.stack = runners[o].stack
      /\ s.work = runners[o].work
  BY <1>2 DEF Runner
<1> HIDE DEF s
<1> WITNESS s
<1> QED BY <1>1, <1>3, <1>4, Zenon DEF res

\* ReadStatuses changes the status of the copy, or ends the goroutine.
LEMMA ReadStatusesStep ==
  ASSUME TypeInv, NEW o, ReadStatuses(o), ~Finish(o)
  PROVE  \E s : /\ runners' = [runners EXCEPT ![o] = s]
                /\ s.op = runners[o].op /\ s.parallel = runners[o].parallel
                /\ s.phase = "write" /\ s.copy.compose = runners[o].copy.compose
                /\ s.stack = runners[o].stack /\ s.work = runners[o].work
<1> DEFINE status == AggregateStatus(TargetStatuses(runners[o].op.id,
                                                    runners[o].copy.target))
           copy   == [runners[o].copy EXCEPT !.status = status]
           s      == [runners[o] EXCEPT !.phase = "write", !.copy.status = status]
<1>1. o \in DOMAIN runners /\ runners' = [runners EXCEPT ![o] = s]
  BY DEF ReadStatuses
<1>2. runners[o] \in Runner /\ runners[o].copy \in Instance
  BY <1>1, RunnerFields
<1> HIDE DEF status
<1>3. copy.compose = runners[o].copy.compose
  BY <1>2 DEF Instance
<1>4. s = [[runners[o] EXCEPT !.phase = "write"] EXCEPT !.copy = copy]
  BY <1>2 DEF Runner
<1> HIDE DEF copy, s
<1>5. /\ s.op = runners[o].op /\ s.parallel = runners[o].parallel
      /\ s.phase = "write" /\ s.copy = copy
      /\ s.stack = runners[o].stack /\ s.work = runners[o].work
  BY <1>2, <1>4 DEF Runner
<1> WITNESS s
<1> QED BY <1>1, <1>3, <1>5, Zenon

-----------------------------------------------------------------------------
(* Every step of a goroutine keeps RecordInv.                               *)

\* Each worker step is a move, a move with a stack, or a report.
LEMMA WorkStepRecords ==
  ASSUME TypeInv, RecordInv, NEW o, NEW e, WorkStep(o, e)
  PROVE  RecordInv'
<1>1. /\ o \in DOMAIN runners /\ e \in DOMAIN runners[o].work
      /\ up' = up /\ RunnerInv(runners[o])
  BY DEF WorkStep, StartTarget, FindStack, CreateStackRecord, StoreComposeFile,
         DeployStack, UndeployStack, SaveStack, EndTarget, At, Report, RecordInv
<1>2. ASSUME NEW old, old \notin {"idle", "done"}, At(o, e, old),
             NEW pc, pc \notin {"idle", "done"}, Goto(o, e, pc),
             operations' = operations
      PROVE  RecordInv'
  <2>1. PICK s : /\ runners' = [runners EXCEPT ![o] = s]
                 /\ MovesTo(s, runners[o], e, pc) /\ s.op = runners[o].op
    BY <1>2, GotoStep
  <2>2. RunnerInv(s)
    BY <1>1, <1>2, <2>1, WorkerMove DEF At
  <2> QED BY <1>1, <1>2, <2>1, <2>2, MovedRecords
<1>3. ASSUME NEW old, old \notin {"idle", "done"}, At(o, e, old), NEW k,
             NEW pc, pc \notin {"idle", "done"}, TakeStack(o, e, k, pc),
             operations' = operations
      PROVE  RecordInv'
  <2>1. PICK s : /\ runners' = [runners EXCEPT ![o] = s]
                 /\ MovesTo(s, runners[o], e, pc) /\ s.op = runners[o].op
    BY <1>3, TakeStackStep
  <2>2. RunnerInv(s)
    BY <1>1, <1>3, <2>1, WorkerMove DEF At
  <2> QED BY <1>1, <1>3, <2>1, <2>2, MovedRecords
<1>4. ASSUME NEW old, NEW result, NEW pc, At(o, e, old), Report(o, e, result, pc),
             \/ /\ old = "idle" /\ MayStart(runners[o])
                /\ result = "Running" /\ pc = "find"
             \/ /\ old \in {"ok", "err"}
                /\ result \in {"Success", "Failed"} /\ pc = "done"
      PROVE  RecordInv'
  <2>0. DOMAIN runners[o].work = DOMAIN runners[o].op.results
    BY <1>1 DEF RunnerInv
  <2>1. PICK s : /\ runners' = [runners EXCEPT ![o] = s]
                 /\ operations' = Put(operations, o, s.op)
                 /\ MovesTo(s, runners[o], e, pc)
                 /\ ResultIs(s.op, runners[o].op, e, result)
    BY <1>4, <2>0, ReportStep
  <2>2. RunnerInv(s)
    BY <1>1, <1>4, <2>1, WorkerReport DEF At
  <2> QED BY <1>1, <2>1, <2>2, MovedRecords
<1>5. CASE StartTarget(o, e)
  BY <1>4, <1>5 DEF StartTarget
<1>6. CASE EndTarget(o, e)
  BY <1>4, <1>6 DEF EndTarget
<1>7. CASE FindStack(o, e)
  <2>1. At(o, e, "find") /\ operations' = operations
    BY <1>7 DEF FindStack, dbVars
  <2>2. AfterFind(runners[o].op.type) \notin {"idle", "done"}
    BY DEF AfterFind
  <2>3. \/ Goto(o, e, "err") \/ Goto(o, e, "create")
        \/ \E k : TakeStack(o, e, k, AfterFind(runners[o].op.type))
    BY <1>7 DEF FindStack
  <2> QED BY <1>2, <1>3, <2>1, <2>2, <2>3
<1>8. CASE CreateStackRecord(o, e)
  BY <1>3, <1>8 DEF CreateStackRecord
<1>9. CASE StoreComposeFile(o, e) \/ DeployStack(o, e) \/ UndeployStack(o, e)
  <2>1. /\ At(o, e, "store") \/ At(o, e, "deploy") \/ At(o, e, "undeploy")
        /\ operations' = operations
        /\ \/ Goto(o, e, "err") \/ Goto(o, e, "deploy") \/ Goto(o, e, "saveActive")
           \/ Goto(o, e, "saveError") \/ Goto(o, e, "saveInactive")
    BY <1>9 DEF StoreComposeFile, DeployStack, UndeployStack, dbVars
  <2> QED BY <1>2, <2>1
<1>10. CASE SaveStack(o, e)
  <2>1. /\ At(o, e, runners[o].work[e]) /\ operations' = operations
        /\ runners[o].work[e] \in {"saveActive", "saveError", "saveInactive"}
        /\ Goto(o, e, "ok") \/ Goto(o, e, "err") \/ Goto(o, e, "deploy")
    BY <1>10 DEF SaveStack, At
  <2> QED BY <1>2, <2>1
<1> QED BY <1>5, <1>6, <1>7, <1>8, <1>9, <1>10 DEF WorkStep

\* The last three steps of the goroutine keep RecordInv.
LEMMA RunnerStepRecords ==
  ASSUME TypeInv, RecordInv, NEW o, RunnerStep(o)
  PROVE  RecordInv'
<1>1. ASSUME NEW e, WorkStep(o, e) PROVE RecordInv'
  BY <1>1, WorkStepRecords
<1>2. CASE FinalizeOperation(o)
  <2>1. PICK s : /\ runners' = [runners EXCEPT ![o] = s]
                 /\ operations' = Put(operations, o, s.op)
                 /\ s.op.status = Outcome(s.op.results)
                 /\ s.parallel = runners[o].parallel
                 /\ s.phase = "statuses" /\ s.work = runners[o].work
                 /\ s.op.results = [e \in DOMAIN runners[o].op.results |->
                                      IF runners[o].work[e] = "idle" THEN "Skipped"
                                      ELSE runners[o].op.results[e]]
    BY <1>2, FinalizeStep
  <2>2. /\ o \in DOMAIN runners /\ TargetsDone(runners[o]) /\ up' = up
        /\ RunnerInv(runners[o])
    BY <1>2 DEF FinalizeOperation, RecordInv
  <2>3. s.op.status # "Running"
    BY <2>1, OutcomeType DEF TerminalStatus
  <2>4. RunnerInv(s)
    BY <2>1, <2>2, <2>3, RunnerFinal
  <2> QED BY <2>1, <2>2, <2>4, MovedRecords
<1>3. CASE ReadStatuses(o)
  <2>1. /\ o \in DOMAIN runners /\ runners[o].phase = "statuses"
        /\ operations' = operations /\ calls' = calls /\ up' = up
        /\ RunnerInv(runners[o])
    BY <1>3 DEF ReadStatuses, dbVars, RecordInv
  <2>2. CASE Finish(o)
    BY <2>1, <2>2, FinishRecords
  <2>3. CASE ~Finish(o)
    <3>1. PICK s : /\ runners' = [runners EXCEPT ![o] = s]
                   /\ s.op = runners[o].op /\ s.parallel = runners[o].parallel
                   /\ s.phase = "write" /\ s.work = runners[o].work
      BY <1>3, <2>3, ReadStatusesStep
    <3>2. RunnerInv(s)
      BY <2>1, <3>1 DEF RunnerInv, WorkerReports, OneUnsuccessful, MayStart
    <3> QED BY <2>1, <3>1, <3>2, MovedRecords
  <2> QED BY <2>2, <2>3
<1>4. CASE FinishOperation(o)
  BY <1>4, FinishRecords DEF FinishOperation
<1> QED BY <1>1, <1>2, <1>3, <1>4 DEF RunnerStep

\* Every step of the system keeps RecordInv; the restart is where what a crash
\* left Running is closed.
LEMMA NextRecords ==
  ASSUME TypeInv, RecordInv, [Next]_vars
  PROVE  RecordInv'
<1>1. CASE Crash
  <2>1. DOMAIN calls' = {} /\ DOMAIN runners' = {} /\ running' = {} /\ ~up'
    BY <1>1, EmptyIsTable DEF Crash
  <2> QED BY <2>1 DEF RecordInv
<1>2. CASE Restart
  <2>1. /\ DOMAIN runners = {} /\ runners' = runners /\ up'
        /\ operations' = [o \in DOMAIN operations |-> RecoverOperation(operations[o])]
    BY <1>2 DEF Restart, RecordInv, memVars
  <2>2. \A o \in DOMAIN operations : operations[o] \in Operation
    BY TableValue DEF TypeInv, TypeOK
  <2> QED BY <2>1, <2>2, RecoverOperationType DEF RecordInv
<1>3. CASE (\E e \in Environments : MoveEnvironment(e)) \/ UNCHANGED vars
  <2>1. UNCHANGED <<up, operations, running, calls, runners>>
    BY <1>3 DEF MoveEnvironment, vars, dbVars, memVars
  <2> QED BY <2>1, QuietRecords
<1> QED
  BY <1>1, <1>2, <1>3, HandlersRecords, HandlerStepRecords, RunnerStepRecords DEF Next

\* RecordInv holds in every state.
THEOREM RecordsCorrect == Spec => []RecordInv
<1>1. Init => RecordInv
  BY InitRecords
<1>2. TypeInv /\ Allocated /\ RecordInv /\ [Next]_vars => RecordInv'
  BY NextRecords
<1> QED BY <1>1, <1>2, TypeCorrect, PTL DEF Spec

\* No operation stays Running without the goroutine that will finish it, in
\* sequence or in parallel, through crashes, restarts and deletions.
THEOREM RunningOwned == Spec => []RunningIsOwned
<1>1. RecordInv => RunningIsOwned
  BY DEF RecordInv, RunningIsOwned, RunnerInv
<1> QED BY <1>1, RecordsCorrect, PTL

\* A set without two different elements.
LEMMA AtMostOne ==
  ASSUME NEW S, \A x, y \in S : x = y
  PROVE  Cardinality(S) <= 1
<1>1. CASE S = {}
  BY <1>1, FS_EmptySet
<1>2. CASE S # {}
  <2>1. PICK x : S = {x}
    BY <1>2
  <2> QED BY <2>1, FS_Singleton
<1> QED BY <1>1, <1>2

\* An HTTP operation attempts no target after one that failed.
THEOREM SequenceFailsFast == Spec => []FailFast
<1>1. ASSUME RecordInv PROVE FailFast
  <2>1. ASSUME NEW o \in DOMAIN runners, ~runners[o].parallel
        PROVE  Cardinality({e \in DOMAIN runners[o].work :
                 runners[o].op.results[e] \in {"Running", "Failed"}}) <= 1
    <3> DEFINE S == {e \in DOMAIN runners[o].work :
                       runners[o].op.results[e] \in {"Running", "Failed"}}
    <3>1. \A e, f \in S : e = f
      BY <1>1, <2>1 DEF RecordInv, RunnerInv, OneUnsuccessful
    <3> HIDE DEF S
    <3>2. Cardinality(S) <= 1
      BY <3>1, AtMostOne
    <3> QED BY <3>2, Zenon DEF S
  <2> QED BY <2>1, Zenon DEF FailFast
<1> QED BY <1>1, RecordsCorrect, PTL

\* In a build's parallel operation no target is skipped: each has succeeded or
\* failed by the time the operation is given its status.
THEOREM BuildReportsAll == Spec => []ParallelReportsAll
<1>1. ASSUME RecordInv PROVE ParallelReportsAll
  BY <1>1 DEF RecordInv, RunnerInv, WorkerReports, MayStart, ParallelReportsAll
<1> QED BY <1>1, RecordsCorrect, PTL

-----------------------------------------------------------------------------
(* The bucket of operations behaves as the journal.                         *)

\* What a client that polls the history is shown.
Shown(op) == [id |-> op.id, status |-> op.status, results |-> op.results]
History   == [o \in DOMAIN operations |-> Shown(operations[o])]

\* As long as no instance is deleted, a goroutine's record stays in the bucket.
RecordsStay == \A o \in DOMAIN runners : o \in DOMAIN operations

\* Changing the record of one operation changes its line of the history.
LEMMA HistoryPut ==
  ASSUME NEW o, NEW op, operations' = Put(operations, o, op)
  PROVE  History' = Put(History, o, Shown(op))
BY DEF History, Put

\* The journal writes a record as the buckets do, and derives a status alike.
LEMMA SameHelpers ==
  /\ \A t, k, v : Journal!Put(t, k, v) = Put(t, k, v)
  /\ \A results : Journal!Outcome(results) = Outcome(results)
BY DEF Journal!Put, Put, Journal!Outcome, Outcome

\* Launch is the journal's Begin: the guard leaves no other operation of the
\* instance open.
LEMMA LaunchBegins ==
  ASSUME TypeInv, Allocated, GuardInv, RecordInv, NEW c, Launch(c)
  PROVE  Journal!Next
<1>1. c \in DOMAIN calls /\ c \in Executing /\ nextOperation <= MaxOperations
  BY DEF Launch, Executing
<1>2. nextOperation \in Operations /\ nextOperation \notin DOMAIN operations
  BY <1>1, BoundsAssumption, Identifiers DEF Allocated, Operations, TypeInv, TypeOK
<1>3. calls[c].id \in Instances /\ Resolve(calls[c].copy.target) \in SUBSET Environments
  BY <1>1, CallFields, ResolveType
<1>4. PICK n \in Operations, i \in Instances, envs \in SUBSET Environments :
        n = nextOperation /\ i = calls[c].id /\ envs = Resolve(calls[c].copy.target)
  BY <1>2, <1>3
<1> DEFINE op == [id |-> i, type |-> calls[c].req, status |-> "Running",
                  results |-> [e \in envs |-> "Pending"]]
<1>5. operations' = Put(operations, n, op) /\ envs # {}
  BY <1>4 DEF Launch
<1>6. Shown(op) = [id |-> i, status |-> "Running", results |-> [e \in envs |-> "Pending"]]
  BY DEF Shown
<1>7. up
  BY <1>1 DEF RecordInv
<1>8. \A o \in DOMAIN operations : operations[o].id = i => operations[o].status # "Running"
  BY <1>1, <1>4, <1>7 DEF RecordInv, GuardInv
<1>9. History' = Put(History, n, Shown(op))
  BY <1>5, HistoryPut
<1> HIDE DEF op
<1>10. Journal!Open(i) = {}
  BY <1>8 DEF Journal!Open
<1>11. History' = Journal!Put(History, n,
          [id |-> i, status |-> "Running", results |-> [e \in envs |-> "Pending"]])
  BY <1>6, <1>9, SameHelpers
<1>12. n \notin DOMAIN History
  BY <1>2, <1>4 DEF History
<1>13. Journal!Begin(n, i, envs)
  BY <1>5, <1>10, <1>11, <1>12 DEF Journal!Begin, History, Shown
<1> QED BY <1>13 DEF Journal!Next

\* A line of the history is what the bucket holds of the operation.
LEMMA HistoryLine ==
  ASSUME TypeInv, RecordInv, RecordsStay, NEW o \in DOMAIN runners
  PROVE  /\ o \in DOMAIN History
         /\ History[o] = Shown(runners[o].op)
         /\ IsTable(runners[o].op.results, Environments, TargetStatus)
         /\ DOMAIN runners[o].work = DOMAIN runners[o].op.results
<1>1. o \in DOMAIN operations /\ operations[o] = runners[o].op
  BY DEF RecordInv, RecordsStay
<1>2. o \in DOMAIN History /\ History[o] = Shown(runners[o].op)
  BY <1>1 DEF History
<1> QED BY <1>2, RunnerFields DEF RecordInv, RunnerInv

\* A worker's report is the journal's Progress.
LEMMA ReportProgresses ==
  ASSUME TypeInv, RecordInv, RecordsStay, NEW o \in Operations, NEW e, NEW old,
         NEW result, NEW pc,
         At(o, e, old), Report(o, e, result, pc),
         \/ /\ old = "idle" /\ MayStart(runners[o])
            /\ result = "Running" /\ pc = "find"
         \/ /\ old \in {"ok", "err"}
            /\ result \in {"Success", "Failed"} /\ pc = "done"
  PROVE  Journal!Next
<1> DEFINE p == runners[o].op
<1>1. /\ o \in DOMAIN runners /\ e \in DOMAIN runners[o].work
      /\ runners[o].work[e] = old
  BY DEF At
<1>2. /\ o \in DOMAIN History /\ History[o] = Shown(p)
      /\ IsTable(p.results, Environments, TargetStatus)
      /\ DOMAIN runners[o].work = DOMAIN p.results
      /\ RunnerInv(runners[o])
  BY <1>1, HistoryLine DEF RecordInv
<1>3. PICK s : /\ operations' = Put(operations, o, s.op)
               /\ MovesTo(s, runners[o], e, pc)
               /\ ResultIs(s.op, p, e, result)
  BY <1>2, ReportStep
<1>4. runners[o].phase = "targets"
  BY <1>1, <1>2, <1>3, WorkerReport
<1>5. p.status = "Running" /\ p.results[e] = IF old = "idle" THEN "Pending" ELSE "Running"
  BY <1>1, <1>2, <1>4 DEF RunnerInv, WorkerReports
<1>6. Shown(s.op) = [Shown(p) EXCEPT !.results[e] = result]
  BY <1>3 DEF ResultIs, Shown
<1>7. History' = Put(History, o, Shown(s.op))
  BY <1>3, HistoryPut
<1>8. History' = [History EXCEPT ![o].results[e] = result]
  <2>1. History' = [History EXCEPT ![o] = [Shown(p) EXCEPT !.results[e] = result]]
    BY <1>2, <1>6, <1>7 DEF Put, History
  <2> QED BY <1>2, <2>1
<1>9. History[o].status = "Running" /\ History[o].results = p.results
  BY <1>2, <1>5 DEF Shown
<1>10. e \in Environments /\ e \in DOMAIN History[o].results
  BY <1>1, <1>2, <1>9 DEF IsTable
<1> HIDE DEF p
<1>11. Journal!Progress(o, e)
  <2>1. result \in CASE History[o].results[e] = "Pending" -> {"Running"}
                     [] History[o].results[e] = "Running" -> {"Success", "Failed"}
                     [] OTHER -> {}
    BY <1>5, <1>9
  <2> QED BY <1>2, <1>8, <1>9, <1>10, <2>1
          DEF Journal!Progress, Journal!IsOpen, History, Shown
<1> QED BY <1>10, <1>11 DEF Journal!Next, Journal!Work

\* A line of the history is determined by its three fields.
LEMMA ShownFields ==
  ASSUME NEW q, NEW id, NEW status, NEW results
  PROVE  /\ Shown(q) \in [id : {q.id}, status : {q.status}, results : {q.results}]
         /\ \A r \in [id : {id}, status : {status}, results : {results}] :
              q.id = id /\ q.status = status /\ q.results = results => r = Shown(q)
BY DEF Shown

\* finalizeOperation is the journal's Finish: targets are left out only where
\* another one failed, and the status follows from the results.
LEMMA FinalizeFinishes ==
  ASSUME TypeInv, RecordInv, RecordsStay, NEW o \in Operations, FinalizeOperation(o)
  PROVE  Journal!Next
<1> DEFINE p   == runners[o].op
           res == [e \in DOMAIN p.results |->
                     IF runners[o].work[e] = "idle" THEN "Skipped" ELSE p.results[e]]
           end == [e \in DOMAIN p.results |->
                     IF p.results[e] = "Pending" THEN "Skipped" ELSE p.results[e]]
<1>1. o \in DOMAIN runners /\ TargetsDone(runners[o])
  BY DEF FinalizeOperation
<1>2. /\ o \in DOMAIN History /\ History[o] = Shown(p)
      /\ IsTable(p.results, Environments, TargetStatus)
      /\ DOMAIN runners[o].work = DOMAIN p.results
      /\ RunnerInv(runners[o])
  BY <1>1, HistoryLine DEF RecordInv
<1>3. PICK s : /\ operations' = Put(operations, o, s.op)
               /\ s.op.id = p.id
               /\ s.op.status = Outcome(s.op.results)
               /\ s.op.results = res
  BY FinalizeStep
<1>4. \A e \in DOMAIN p.results :
        /\ p.results[e] = "Pending" <=> runners[o].work[e] = "idle"
        /\ p.results[e] # "Running"
  BY <1>1, <1>2 DEF RunnerInv, WorkerReports, TargetsDone
<1>5. res = end /\ p.status = "Running"
  BY <1>1, <1>2, <1>4 DEF TargetsDone, RunnerInv
<1>6. (\E e \in DOMAIN p.results : p.results[e] = "Pending")
        => \E e \in DOMAIN p.results : p.results[e] = "Failed"
  BY <1>1, <1>2, <1>4 DEF TargetsDone, MayStart
<1> HIDE DEF res
<1>7. Shown(s.op) = [Shown(p) EXCEPT !.results = end, !.status = Outcome(end)]
  <2> DEFINE q == s.op
             st == Outcome(end)
  <2> HIDE DEF p, end
  <2>1. q.id = p.id /\ q.results = end /\ q.status = st
    BY <1>3, <1>5
  <2> DEFINE r == Shown(p)
  <2>2. r \in [id : {p.id}, status : {p.status}, results : {p.results}]
    BY ShownFields
  <2> HIDE DEF q, st, r
  <2> DEFINE new == [r EXCEPT !.results = end, !.status = st]
  <2>3. new \in [id : {p.id}, status : {st}, results : {end}]
    BY <2>2
  <2> HIDE DEF new
  <2>4. new = Shown(q)
    BY <2>1, <2>3, ShownFields
  <2> QED BY <2>4 DEF q, st, r, new
<1>8. History' = Put(History, o, Shown(s.op))
  BY <1>3, HistoryPut
<1>9. History' = [History EXCEPT ![o].results = end, ![o].status = Outcome(end)]
  <2> HIDE DEF end
  <2>1. History' = [History EXCEPT ![o] = [Shown(p) EXCEPT !.results = end,
                                                            !.status = Outcome(end)]]
    BY <1>2, <1>7, <1>8 DEF Put, History
  <2> QED BY <1>2, <2>1
<1>10. History[o].status = "Running" /\ History[o].results = p.results
  BY <1>2, <1>5 DEF Shown
<1>11. Journal!Outcome(end) = Outcome(end)
  BY SameHelpers
<1>12. Journal!Finish(o)
  <2> DEFINE old == History[o].results
             fin == [e \in DOMAIN old |-> IF old[e] = "Pending" THEN "Skipped" ELSE old[e]]
  <2>1. /\ o \in DOMAIN History /\ History[o].status = "Running"
        /\ \A e \in DOMAIN old : old[e] # "Running"
        /\ (\E e \in DOMAIN old : old[e] = "Pending")
             => \E e \in DOMAIN old : old[e] = "Failed"
        /\ fin = end
    BY <1>2, <1>4, <1>6, <1>10
  <2>2. History' = [History EXCEPT ![o].results = fin, ![o].status = Journal!Outcome(fin)]
    <3> HIDE DEF end, fin
    <3> QED BY <1>9, <1>11, <2>1
  <2> QED BY <2>1, <2>2, Zenon DEF Journal!Finish, Journal!IsOpen, History, Shown
<1> QED BY <1>12 DEF Journal!Next, Journal!Work

\* The restart is the journal's Interrupt.
LEMMA RestartInterrupts ==
  ASSUME TypeInv, Restart
  PROVE  Journal!Next
<1>1. operations' = [o \in DOMAIN operations |-> RecoverOperation(operations[o])]
  BY DEF Restart
<1>2. ASSUME NEW o \in DOMAIN operations
      PROVE  Shown(RecoverOperation(operations[o])) = Journal!Interrupted(Shown(operations[o]))
  <2> DEFINE p == operations[o]
  <2>1. p \in Operation
    BY TableValue DEF TypeInv, TypeOK
  <2>2. p.results \in Table(Environments, TargetStatus)
    BY <2>1 DEF Operation
  <2>3. IsTable(p.results, Environments, TargetStatus)
    BY <2>2, TableIsTable
  <2> HIDE DEF p
  <2>4. CASE p.status # "Running"
    BY <2>4 DEF RecoverOperation, Shown, Journal!Interrupted, p
  <2>5. CASE p.status = "Running"
    <3> DEFINE res == [e \in DOMAIN p.results |->
                         IF p.results[e] \in {"Running", "Pending"} THEN "Skipped"
                         ELSE p.results[e]]
               end == [e \in DOMAIN p.results |->
                         IF p.results[e] \in {"Success", "Failed"} THEN p.results[e]
                         ELSE "Skipped"]
    <3>1. res = end
      BY <2>3 DEF IsTable, TargetStatus
    <3>2. RecoverOperation(p) = [p EXCEPT !.status = "Failed", !.results = res]
      BY <2>5 DEF RecoverOperation
    <3>3. Journal!Interrupted(Shown(p)) = [Shown(p) EXCEPT !.status = "Failed", !.results = end]
      BY <2>5 DEF Journal!Interrupted, Shown
    <3> HIDE DEF res, end
    <3>4. Shown(RecoverOperation(p)) = [Shown(p) EXCEPT !.status = "Failed", !.results = end]
      <4> DEFINE q == RecoverOperation(p)
      <4>1. q.id = p.id /\ q.status = "Failed" /\ q.results = end
        BY <2>1, <3>1, <3>2 DEF Operation
      <4> DEFINE r == Shown(p)
      <4>2. r \in [id : {p.id}, status : {p.status}, results : {p.results}]
        BY ShownFields
      <4> HIDE DEF q, r
      <4> DEFINE new == [r EXCEPT !.status = "Failed", !.results = end]
      <4>3. new \in [id : {p.id}, status : {"Failed"}, results : {end}]
        BY <4>2
      <4> HIDE DEF new
      <4>4. new = Shown(q)
        BY <4>1, <4>3, ShownFields
      <4> QED BY <4>4 DEF q, r, new
    <3> QED BY <3>3, <3>4 DEF p
  <2> QED BY <2>4, <2>5
<1>3. History' = [o \in DOMAIN History |-> Journal!Interrupted(History[o])]
  BY <1>1, <1>2 DEF History
<1>4. Journal!Interrupt
  BY <1>3 DEF Journal!Interrupt, History, Shown
<1> QED BY <1>4 DEF Journal!Next

\* Without deletions no record leaves the bucket.
LEMMA NextStays ==
  ASSUME "delete" \notin Requests, TypeInv, RecordsStay, [Next]_vars
  PROVE  RecordsStay'
<1>1. CASE Handlers
  <2>1. UNCHANGED <<operations, runners>>
    BY <1>1 DEF Handlers, Create, Acquire, BeginRefresh, BeginUpdate, dbVars, memVars
  <2> QED BY <2>1 DEF RecordsStay
<1>2. ASSUME NEW c, HandlerStep(c) PROVE RecordsStay'
  <2>1. CASE Launch(c)
    <3>1. /\ DOMAIN operations' = DOMAIN operations \cup {nextOperation}
          /\ DOMAIN runners' = DOMAIN runners \cup {nextOperation}
      BY <2>1 DEF Launch, Put
    <3> QED BY <3>1 DEF RecordsStay
  <2>2. CASE ~Launch(c)
    <3>1. UNCHANGED <<operations, runners>>
      BY <1>2, <2>2 DEF HandlerStep, ReadForOperation, AbortOperation, ResolveUpdate,
                        RefreshStatuses, WriteInstance, EndDelete, dbVars
    <3> QED BY <3>1 DEF RecordsStay
  <2> QED BY <2>1, <2>2
<1>3. ASSUME NEW o, RunnerStep(o) PROVE RecordsStay'
  <2>1. DOMAIN runners' \subseteq DOMAIN runners
    BY <1>3 DEF RunnerStep, WorkStep, StartTarget, FindStack, CreateStackRecord,
         StoreComposeFile, DeployStack, UndeployStack, SaveStack, EndTarget, Report,
         Goto, TakeStack, FinalizeOperation, ReadStatuses, FinishOperation, Finish, Drop
  <2>2. DOMAIN operations \subseteq DOMAIN operations'
    BY <1>3 DEF RunnerStep, WorkStep, StartTarget, FindStack, CreateStackRecord,
         StoreComposeFile, DeployStack, UndeployStack, SaveStack, EndTarget, Report,
         FinalizeOperation, ReadStatuses, FinishOperation, Put, dbVars
  <2> QED BY <2>1, <2>2 DEF RecordsStay
<1>4. CASE Crash
  <2>1. DOMAIN runners' = {}
    BY <1>4, EmptyIsTable DEF Crash
  <2> QED BY <2>1 DEF RecordsStay
<1>5. CASE Restart \/ (\E e \in Environments : MoveEnvironment(e)) \/ UNCHANGED vars
  <2>1. DOMAIN operations' = DOMAIN operations /\ runners' = runners
    BY <1>5 DEF Restart, MoveEnvironment, vars, dbVars, memVars
  <2> QED BY <2>1 DEF RecordsStay
<1> QED BY <1>1, <1>2, <1>3, <1>4, <1>5 DEF Next

\* Every step of the system is a step of the journal or leaves it alone.
LEMMA NextJournal ==
  ASSUME "delete" \notin Requests, TypeInv, Allocated, GuardInv, RecordInv, RecordsStay,
         [Next]_vars
  PROVE  Journal!Next \/ UNCHANGED History
<1>1. operations' = operations => UNCHANGED History
  BY DEF History
<1>2. CASE Handlers
  <2>1. operations' = operations
    BY <1>2 DEF Handlers, Create, Acquire, BeginRefresh, BeginUpdate, dbVars
  <2> QED BY <1>1, <2>1
<1>3. ASSUME NEW c, HandlerStep(c) PROVE Journal!Next \/ UNCHANGED History
  <2>1. CASE Launch(c)
    BY <2>1, LaunchBegins
  <2>2. CASE ~Launch(c)
    <3>1. operations' = operations
      BY <1>3, <2>2 DEF HandlerStep, ReadForOperation, AbortOperation, ResolveUpdate,
                        RefreshStatuses, WriteInstance, EndDelete, dbVars
    <3> QED BY <1>1, <3>1
  <2> QED BY <2>1, <2>2
<1>4. ASSUME NEW o \in Operations, NEW e, StartTarget(o, e) \/ EndTarget(o, e)
      PROVE  Journal!Next
  BY <1>4, ReportProgresses DEF StartTarget, EndTarget
<1>5. ASSUME NEW o \in Operations, RunnerStep(o)
      PROVE  Journal!Next \/ UNCHANGED History
  <2>1. CASE FinalizeOperation(o)
    BY <2>1, FinalizeFinishes
  <2>2. CASE \E e \in Environments : StartTarget(o, e) \/ EndTarget(o, e)
    BY <1>4, <2>2
  <2>3. CASE /\ ~FinalizeOperation(o)
             /\ ~\E e \in Environments : StartTarget(o, e) \/ EndTarget(o, e)
    <3>1. operations' = operations
      BY <1>5, <2>3 DEF RunnerStep, WorkStep, FindStack, CreateStackRecord,
           StoreComposeFile, DeployStack, UndeployStack, SaveStack, ReadStatuses,
           FinishOperation, dbVars
    <3> QED BY <1>1, <3>1
  <2> QED BY <2>1, <2>2, <2>3
<1>6. CASE Restart
  BY <1>6, RestartInterrupts
<1>7. CASE Crash \/ (\E e \in Environments : MoveEnvironment(e)) \/ UNCHANGED vars
  <2>1. operations' = operations
    BY <1>7 DEF Crash, MoveEnvironment, vars, dbVars
  <2> QED BY <1>1, <2>1
<1> QED BY <1>2, <1>3, <1>5, <1>6, <1>7 DEF Next

\* The bucket of operations implements OperationJournal's safety, as long as no
\* client deletes an instance: one open operation per instance, results that
\* stand once given, targets left out only after a failure, a status that
\* follows from the results, and an interruption that closes what was open.
THEOREM JournalKept == "delete" \notin Requests => (Spec => KeepsJournal)
<1> SUFFICES ASSUME "delete" \notin Requests PROVE Spec => KeepsJournal
  OBVIOUS
<1>1. Init => Journal!Init /\ GuardInv /\ RecordInv /\ RecordsStay
  <2> SUFFICES ASSUME Init PROVE Journal!Init /\ RecordsStay
    BY InitGuard, InitRecords
  <2>1. operations = EmptyTable /\ DOMAIN operations = {} /\ DOMAIN runners = {}
    BY EmptyIsTable DEF Init
  <2>2. History = Journal!EmptyTable
    BY <2>1 DEF History, Journal!EmptyTable
  <2>3. Journal!Init
    BY <2>2 DEF Journal!Init, History, Shown
  <2> QED BY <2>1, <2>3 DEF RecordsStay
<1>2. TypeInv /\ Allocated /\ GuardInv /\ RecordInv /\ RecordsStay /\ [Next]_vars
        => GuardInv' /\ RecordInv' /\ RecordsStay'
  BY NextGuard, NextRecords, NextStays
<1>3. TypeInv /\ Allocated /\ GuardInv /\ RecordInv /\ RecordsStay /\ [Next]_vars
        => [Journal!Next]_History
  BY NextJournal
<1>4. Spec => Journal!Init /\ [][Journal!Next]_History
  BY <1>1, <1>2, <1>3, TypeCorrect, PTL DEF Spec
<1> QED BY <1>4, PTL DEF KeepsJournal, Journal!Safety, History, Shown

-----------------------------------------------------------------------------
(* The stacks of an instance, and what a worker knows of its own.           *)

\* Where stacks of a name exist, findStackOnEndpoint finds the first of them.
LEMMA FoundIfNamed ==
  ASSUME TypeInv, NEW i, NEW e, Found(i, e) = {}
  PROVE  StacksNamed(i, e) = {}
<1> SUFFICES ASSUME StacksNamed(i, e) # {} PROVE FALSE
  OBVIOUS
<1> DEFINE S == StacksNamed(i, e)
           R == OpToRel(<, Nat)
<1>1. S \subseteq Nat
  BY Identifiers DEF StacksNamed
<1>2. IsWellFoundedOn(R, Nat)
  BY NatLessThanWellFounded
<1>3. \A x, y \in Nat : x < y => <<x, y>> \in R
  BY DEF OpToRel
<1> HIDE DEF S, R
<1>4. S # {}
  BY DEF S
<1>5. PICK k \in S : \A l \in S : ~(<<l, k>> \in R)
  BY <1>1, <1>2, <1>4, WFMin
<1>6. ASSUME NEW l \in S PROVE k <= l
  <2>1. l \in Nat /\ k \in Nat
    BY <1>1, <1>5
  <2>2. ~(l < k)
    BY <1>3, <1>5, <2>1, Zenon
  <2> QED BY <2>1, <2>2
<1> QED BY <1>5, <1>6 DEF Found, S

Deploys == {"deploy", "redeploy"}

\* What the operation was to bring about on target e, as SuccessIsReal says it.
Goal(o, e) ==
  LET r == runners[o]
      i == r.op.id
      k == r.stack[e]
  IN  /\ e \in DOMAIN r.stack
      /\ r.op.type \in Deploys =>
           engine[i][e] = r.copy.compose /\ stacks[k].status = "Active"
      /\ r.op.type \in {"start", "restart"} =>
           k \in DOMAIN files /\ engine[i][e] = files[k] /\ stacks[k].status = "Active"
      /\ r.op.type = "stop" => engine[i][e] = "down" /\ stacks[k].status = "Inactive"

\* How far the worker of target e has brought it.
WorkInv(o, e) ==
  LET r  == runners[o]
      i  == r.op.id
      k  == r.stack[e]
      pc == r.work[e]
  IN  /\ e \in DOMAIN r.stack =>
           k \in DOMAIN stacks /\ stacks[k].env = e /\ stacks[k].owner = i
      /\ pc = "create" => StacksNamed(i, e) = {}
      /\ pc \in {"create", "store"} => r.op.type \in Deploys
      /\ pc \in {"deploy", "saveActive"} =>
           /\ r.op.type # "stop"
           /\ r.op.type \in Deploys => k \in DOMAIN files /\ files[k] = r.copy.compose
      /\ pc = "saveActive" => k \in DOMAIN files /\ engine[i][e] = files[k]
      /\ pc \in {"undeploy", "saveInactive"} => r.op.type \in {"stop", "restart"}
      /\ pc = "saveInactive" => engine[i][e] = "down"
      /\ pc = "ok" \/ r.op.results[e] = "Success" => Goal(o, e)

AllWorkInv == \A o \in DOMAIN runners : \A e \in DOMAIN runners[o].work : WorkInv(o, e)

\* A stack that has an owner is the only one of its name on its environment,
\* and carries the name of its owner; the others are not being deployed.
NamesInv ==
  /\ \A k \in DOMAIN stacks :
       IF stacks[k].owner = NoOwner THEN stacks[k].status = "Active"
       ELSE stacks[k].owner = stacks[k].id
  /\ \A k, l \in DOMAIN stacks :
       /\ stacks[k].id = stacks[l].id /\ stacks[k].env = stacks[l].env
       /\ stacks[k].owner # NoOwner
       => k = l

\* What a step that works on target e of instance i leaves alone.
TouchesOnly(i, e) ==
  /\ \A j \in Instances, f \in Environments :
       j # i \/ f # e => engine'[j][f] = engine[j][f]
  /\ \A k \in DOMAIN stacks :
       /\ k \in DOMAIN stacks'
       /\ stacks'[k].id = stacks[k].id /\ stacks'[k].env = stacks[k].env
       /\ stacks'[k].owner = stacks[k].owner
       /\ stacks[k].owner # i \/ stacks[k].env # e =>
            /\ stacks'[k] = stacks[k]
            /\ k \in DOMAIN files' <=> k \in DOMAIN files
            /\ k \in DOMAIN files => files'[k] = files[k]
  /\ \A k \in DOMAIN stacks' \ DOMAIN stacks :
       stacks'[k].id = i /\ stacks'[k].env = e /\ stacks'[k].owner = i

\* A worker on another target knows after the step what it knew before.
LEMMA WorkKept ==
  ASSUME TypeInv, NEW i, NEW e, TouchesOnly(i, e),
         NEW o \in DOMAIN runners, NEW f \in DOMAIN runners[o].work, WorkInv(o, f),
         runners[o].op.id # i \/ f # e,
         runners'[o].op.id = runners[o].op.id,
         runners'[o].op.type = runners[o].op.type,
         runners'[o].op.results[f] = runners[o].op.results[f],
         runners'[o].copy.compose = runners[o].copy.compose,
         runners'[o].work[f] = runners[o].work[f],
         f \in DOMAIN runners'[o].stack <=> f \in DOMAIN runners[o].stack,
         f \in DOMAIN runners[o].stack => runners'[o].stack[f] = runners[o].stack[f]
  PROVE  WorkInv(o, f)'
<1> DEFINE j == runners[o].op.id
           k == runners[o].stack[f]
<1>1. j \in Instances /\ f \in Environments
  BY RunnerFields, TableValue
<1>2. engine'[j][f] = engine[j][f]
  BY <1>1 DEF TouchesOnly
<1>3. f \in DOMAIN runners[o].stack =>
        /\ k \in DOMAIN stacks /\ stacks[k].env = f /\ stacks[k].owner = j
        /\ k \in DOMAIN stacks' /\ stacks'[k] = stacks[k]
        /\ k \in DOMAIN files' <=> k \in DOMAIN files
        /\ k \in DOMAIN files => files'[k] = files[k]
  BY DEF WorkInv, TouchesOnly
<1>4. StacksNamed(j, f) = {} => StacksNamed(j, f)' = {}
  BY DEF StacksNamed, TouchesOnly
<1>5. runners[o].work[f] \in HoldsStack => f \in DOMAIN runners[o].stack
  BY DEF TypeInv, WorkersOwnTheirStack
<1>6. Goal(o, f) => Goal(o, f)'
  BY <1>2, <1>3 DEF Goal
<1> QED BY <1>2, <1>3, <1>4, <1>5, <1>6 DEF WorkInv, HoldsStack, StacksNamed

\* Record s differs from record r in what it says of target e.
OnlyTarget(s, r, e) ==
  /\ s.op.id = r.op.id /\ s.op.type = r.op.type /\ s.copy.compose = r.copy.compose
  /\ DOMAIN s.work = DOMAIN r.work
  /\ \A f \in DOMAIN r.work :
       f # e => /\ s.work[f] = r.work[f] /\ s.op.results[f] = r.op.results[f]
                /\ f \in DOMAIN s.stack <=> f \in DOMAIN r.stack
                /\ f \in DOMAIN r.stack => s.stack[f] = r.stack[f]

\* A worker's step is a matter of its own target: the guard keeps the workers
\* of an instance's other operations away.
LEMMA MovedWork ==
  ASSUME TypeInv, GuardInv, AllWorkInv, NEW o \in DOMAIN runners, NEW e, NEW s,
         runners' = [runners EXCEPT ![o] = s], OnlyTarget(s, runners[o], e),
         TouchesOnly(runners[o].op.id, e)
  PROVE  /\ runners'[o] = s
         /\ WorkInv(o, e)' => AllWorkInv'
<1>1. DOMAIN runners' = DOMAIN runners /\ runners'[o] = s
      /\ \A p \in DOMAIN runners : p # o => runners'[p] = runners[p]
  BY ExceptTable DEF TypeInv, TypeOK
<1>2. ASSUME WorkInv(o, e)' PROVE AllWorkInv'
  <2> SUFFICES ASSUME NEW p \in DOMAIN runners', NEW f \in DOMAIN runners'[p].work
               PROVE  WorkInv(p, f)'
    BY DEF AllWorkInv
  <2>1. CASE p # o
    <3>1. runners[p].op.id # runners[o].op.id
      BY <1>1, <2>1 DEF GuardInv
    <3>2. p \in DOMAIN runners /\ runners'[p] = runners[p] /\ f \in DOMAIN runners[p].work
      BY <1>1, <2>1
    <3>3. WorkInv(p, f)
      BY <3>2 DEF AllWorkInv
    <3> QED BY <3>1, <3>2, <3>3, WorkKept
  <2>2. CASE p = o /\ f # e
    <3>1. f \in DOMAIN runners[o].work /\ WorkInv(o, f)
      BY <1>1, <2>2 DEF OnlyTarget, AllWorkInv
    <3> QED BY <1>1, <2>2, <3>1, WorkKept DEF OnlyTarget
  <2>3. CASE p = o /\ f = e
    BY <1>2, <2>3
  <2> QED BY <2>1, <2>2, <2>3
<1> QED BY <1>1, <1>2

\* ... for a worker that moves on,
LEMMA GotoWork ==
  ASSUME TypeInv, GuardInv, AllWorkInv, NEW o, NEW e, NEW old, NEW pc,
         At(o, e, old), Goto(o, e, pc), TouchesOnly(runners[o].op.id, e)
  PROVE  /\ runners'[o].op = runners[o].op /\ runners'[o].copy = runners[o].copy
         /\ runners'[o].stack = runners[o].stack /\ runners'[o].work[e] = pc
         /\ WorkInv(o, e)' => AllWorkInv'
<1>1. o \in DOMAIN runners
  BY DEF At
<1>2. PICK s : /\ runners' = [runners EXCEPT ![o] = s]
               /\ MovesTo(s, runners[o], e, pc)
               /\ s.op = runners[o].op /\ s.stack = runners[o].stack
  BY GotoStep
<1>3. OnlyTarget(s, runners[o], e)
  BY <1>2 DEF OnlyTarget, MovesTo
<1>4. runners'[o] = s /\ (WorkInv(o, e)' => AllWorkInv')
  BY <1>1, <1>2, <1>3, MovedWork
<1> QED BY <1>2, <1>4 DEF MovesTo

\* ... with a stack that it takes in hand,
LEMMA TakeStackWork ==
  ASSUME TypeInv, GuardInv, AllWorkInv, NEW o, NEW e, NEW old, NEW pc, NEW k,
         At(o, e, old), TakeStack(o, e, k, pc), TouchesOnly(runners[o].op.id, e)
  PROVE  /\ runners'[o].op = runners[o].op /\ runners'[o].copy = runners[o].copy
         /\ e \in DOMAIN runners'[o].stack /\ runners'[o].stack[e] = k
         /\ runners'[o].work[e] = pc
         /\ WorkInv(o, e)' => AllWorkInv'
<1>1. o \in DOMAIN runners
  BY DEF At
<1>2. PICK s : /\ runners' = [runners EXCEPT ![o] = s]
               /\ MovesTo(s, runners[o], e, pc)
               /\ s.op = runners[o].op /\ s.stack = Put(runners[o].stack, e, k)
  BY TakeStackStep
<1>3. /\ e \in DOMAIN s.stack /\ s.stack[e] = k
      /\ \A f : f # e => (f \in DOMAIN s.stack <=> f \in DOMAIN runners[o].stack)
      /\ \A f \in DOMAIN runners[o].stack : f # e => s.stack[f] = runners[o].stack[f]
  BY <1>2 DEF Put
<1>4. OnlyTarget(s, runners[o], e)
  BY <1>2, <1>3 DEF OnlyTarget, MovesTo
<1>5. runners'[o] = s /\ (WorkInv(o, e)' => AllWorkInv')
  BY <1>1, <1>2, <1>4, MovedWork
<1> QED BY <1>2, <1>3, <1>5 DEF MovesTo

\* ... and for one that reports.
LEMMA ReportWork ==
  ASSUME TypeInv, RecordInv, GuardInv, AllWorkInv, NEW o, NEW e, NEW old, NEW result,
         NEW pc, At(o, e, old), Report(o, e, result, pc),
         TouchesOnly(runners[o].op.id, e)
  PROVE  /\ runners'[o].op.id = runners[o].op.id
         /\ runners'[o].op.type = runners[o].op.type
         /\ runners'[o].op.results[e] = result
         /\ runners'[o].copy = runners[o].copy
         /\ runners'[o].stack = runners[o].stack /\ runners'[o].work[e] = pc
         /\ WorkInv(o, e)' => AllWorkInv'
<1>1. o \in DOMAIN runners /\ DOMAIN runners[o].work = DOMAIN runners[o].op.results
  BY DEF At, RecordInv, RunnerInv
<1>2. PICK s : /\ runners' = [runners EXCEPT ![o] = s]
               /\ MovesTo(s, runners[o], e, pc)
               /\ ResultIs(s.op, runners[o].op, e, result)
               /\ s.stack = runners[o].stack
  BY <1>1, ReportStep
<1>3. OnlyTarget(s, runners[o], e)
  BY <1>1, <1>2 DEF OnlyTarget, MovesTo, ResultIs
<1>4. runners'[o] = s /\ (WorkInv(o, e)' => AllWorkInv')
  BY <1>1, <1>2, <1>3, MovedWork
<1> QED BY <1>2, <1>4 DEF MovesTo, ResultIs

-----------------------------------------------------------------------------
(* The steps of a worker, one by one.                                       *)

StackInv == NamesInv /\ AllWorkInv

\* A step that writes no stack, no file and no containers.
LEMMA QuietTouch ==
  ASSUME stacks' = stacks, files' = files, engine' = engine, NEW i, NEW e
  PROVE  TouchesOnly(i, e)
BY DEF TouchesOnly

\* What a worker knows, found in the invariant.
LEMMA WorkAt ==
  ASSUME TypeInv, AllWorkInv, NEW o, NEW e, NEW pc, At(o, e, pc)
  PROVE  /\ o \in DOMAIN runners /\ e \in DOMAIN runners[o].work
         /\ runners[o].work[e] = pc /\ WorkInv(o, e)
         /\ runners[o].op.id \in Instances /\ runners[o].op.type \in Lifecycle
         /\ e \in Environments
         /\ pc \in HoldsStack => /\ e \in DOMAIN runners[o].stack
                                 /\ runners[o].stack[e] \in DOMAIN stacks
<1>1. /\ o \in DOMAIN runners /\ e \in DOMAIN runners[o].work
      /\ runners[o].work[e] = pc
  BY DEF At
<1>2. e \in Environments
  BY <1>1, RunnerFields, TableValue
<1> QED BY <1>1, <1>2, RunnerFields DEF AllWorkInv, TypeInv, WorkersOwnTheirStack

\* A worker at its target has no result yet.
LEMMA AtWork ==
  ASSUME RecordInv, NEW o, NEW e, NEW pc, At(o, e, pc), pc \notin {"idle", "done"}
  PROVE  runners[o].op.results[e] = "Running"
BY DEF At, RecordInv, RunnerInv, WorkerReports

\* StartTarget knows nothing of its target yet.
LEMMA StartTargetWork ==
  ASSUME TypeInv, RecordInv, GuardInv, AllWorkInv, NEW o, NEW e, StartTarget(o, e)
  PROVE  /\ AllWorkInv'
         /\ UNCHANGED <<stacks, engine, files>>
<1>1. /\ At(o, e, "idle") /\ Report(o, e, "Running", "find")
      /\ UNCHANGED <<stacks, engine, files>>
  BY DEF StartTarget, Report, worldVars
<1>2. WorkInv(o, e)'
  BY <1>1, WorkAt, QuietTouch, ReportWork DEF WorkInv
<1> QED BY <1>1, <1>2, QuietTouch, ReportWork

\* EndTarget turns what the worker reached into the result.
LEMMA EndTargetWork ==
  ASSUME TypeInv, RecordInv, GuardInv, AllWorkInv, NEW o, NEW e, EndTarget(o, e)
  PROVE  /\ AllWorkInv'
         /\ UNCHANGED <<stacks, engine, files>>
<1>1. UNCHANGED <<stacks, engine, files>>
  BY DEF EndTarget, Report, worldVars
<1>2. CASE At(o, e, "ok") /\ Report(o, e, "Success", "done")
  <2>1. WorkInv(o, e)'
    BY <1>1, <1>2, WorkAt, QuietTouch, ReportWork DEF WorkInv, Goal
  <2> QED BY <1>1, <1>2, <2>1, QuietTouch, ReportWork
<1>3. CASE At(o, e, "err") /\ Report(o, e, "Failed", "done")
  <2>1. WorkInv(o, e)'
    BY <1>1, <1>3, WorkAt, QuietTouch, ReportWork DEF WorkInv
  <2> QED BY <1>1, <1>3, <2>1, QuietTouch, ReportWork
<1> QED BY <1>1, <1>2, <1>3 DEF EndTarget

\* FindStack takes the instance's own stack, or finds that there is none.
LEMMA FindStackWork ==
  ASSUME TypeInv, RecordInv, GuardInv, AllWorkInv, NEW o, NEW e, FindStack(o, e)
  PROVE  /\ AllWorkInv'
         /\ UNCHANGED <<stacks, engine, files>>
<1> DEFINE i    == runners[o].op.id
           type == runners[o].op.type
<1>1. At(o, e, "find") /\ UNCHANGED <<stacks, engine, files>>
  BY DEF FindStack, dbVars, worldVars
<1>2. TouchesOnly(i, e)
  BY <1>1, QuietTouch
<1>3. /\ o \in DOMAIN runners /\ WorkInv(o, e) /\ type \in Lifecycle
      /\ runners[o].op.results[e] = "Running"
  BY <1>1, WorkAt, AtWork
<1>4. CASE Goto(o, e, "err")
  <2>1. WorkInv(o, e)'
    BY <1>1, <1>2, <1>3, <1>4, GotoWork DEF WorkInv
  <2> QED BY <1>1, <1>2, <1>4, <2>1, GotoWork
<1>5. CASE Found(i, e) = {} /\ type \in Deploys /\ Goto(o, e, "create")
  <2>1. StacksNamed(i, e) = {}
    BY <1>5, FoundIfNamed
  <2>2. WorkInv(o, e)'
    BY <1>1, <1>2, <1>3, <1>5, <2>1, GotoWork DEF WorkInv, StacksNamed
  <2> QED BY <1>1, <1>2, <1>5, <2>2, GotoWork
<1>6. ASSUME ~Conflict(i, e), NEW k \in Found(i, e), TakeStack(o, e, k, AfterFind(type))
      PROVE  AllWorkInv'
  <2>1. k \in DOMAIN stacks /\ stacks[k].env = e /\ stacks[k].owner = i
    BY <1>6, FoundStack
  <2>2. WorkInv(o, e)'
    BY <1>1, <1>2, <1>3, <1>6, <2>1, TakeStackWork
       DEF WorkInv, AfterFind, Deploys, Lifecycle
  <2> QED BY <1>1, <1>2, <1>6, <2>2, TakeStackWork
<1> QED BY <1>1, <1>4, <1>5, <1>6 DEF FindStack, Deploys

\* CreateStackRecord adds the first stack of that name.
LEMMA CreateStackRecordWork ==
  ASSUME TypeInv, Allocated, RecordInv, GuardInv, StackInv, NEW o, NEW e,
         CreateStackRecord(o, e)
  PROVE  StackInv' /\ TouchesOnly(runners[o].op.id, e) /\ engine' = engine
<1> DEFINE i   == runners[o].op.id
           new == [id |-> i, env |-> e, owner |-> i, status |-> "Deploying"]
           n   == nextStack
<1>1. /\ At(o, e, "create") /\ stacks' = Put(stacks, n, new)
      /\ TakeStack(o, e, n, "store")
      /\ UNCHANGED <<engine, files>>
  BY DEF CreateStackRecord, worldVars
<1>2. n \notin DOMAIN stacks
  BY Identifiers DEF Allocated
<1>3. /\ o \in DOMAIN runners /\ WorkInv(o, e) /\ i \in Instances
      /\ runners[o].work[e] = "create"
      /\ runners[o].op.results[e] = "Running"
  BY <1>1, WorkAt, AtWork DEF StackInv
<1>4. StacksNamed(i, e) = {} /\ runners[o].op.type \in Deploys
  BY <1>3 DEF WorkInv
<1>5. /\ DOMAIN stacks' = DOMAIN stacks \cup {n}
      /\ stacks'[n] = new
      /\ \A k \in DOMAIN stacks : stacks'[k] = stacks[k]
  BY <1>1, <1>2 DEF Put
<1>6. /\ new.id = i /\ new.env = e /\ new.owner = i
  OBVIOUS
<1> HIDE DEF new, n
<1>7. TouchesOnly(i, e)
  BY <1>1, <1>5, <1>6 DEF TouchesOnly
<1>8. NamesInv'
  <2>1. \A k \in DOMAIN stacks : stacks[k].id # i \/ stacks[k].env # e
    BY <1>4 DEF StacksNamed
  <2>2. i # NoOwner
    BY <1>3 DEF Instances, NoOwner
  <2> QED BY <1>5, <1>6, <2>1, <2>2 DEF NamesInv, StackInv
<1>9. WorkInv(o, e)'
  BY <1>1, <1>3, <1>4, <1>5, <1>6, <1>7, TakeStackWork DEF WorkInv, StackInv
<1>10. AllWorkInv'
  BY <1>1, <1>7, <1>9, TakeStackWork DEF StackInv
<1> QED BY <1>1, <1>7, <1>8, <1>10 DEF StackInv

\* The stack that a worker has in hand is the only one of its name there.
LEMMA HeldStack ==
  ASSUME TypeInv, StackInv, NEW o, NEW e, NEW pc, At(o, e, pc), pc \in HoldsStack
  PROVE  /\ runners[o].stack[e] \in DOMAIN stacks
         /\ stacks[runners[o].stack[e]].env = e
         /\ stacks[runners[o].stack[e]].owner = runners[o].op.id
         /\ stacks[runners[o].stack[e]].id = runners[o].op.id
         /\ \A l \in DOMAIN stacks :
              stacks[l].id = runners[o].op.id /\ stacks[l].env = e
              => l = runners[o].stack[e]
<1>1. /\ runners[o].stack[e] \in DOMAIN stacks
      /\ stacks[runners[o].stack[e]].env = e
      /\ stacks[runners[o].stack[e]].owner = runners[o].op.id
      /\ runners[o].op.id \in Instances
  BY WorkAt DEF StackInv, WorkInv
<1>2. runners[o].op.id # NoOwner
  BY <1>1 DEF Instances, NoOwner
<1>3. stacks[runners[o].stack[e]].id = runners[o].op.id
  BY <1>1, <1>2 DEF StackInv, NamesInv
<1> QED BY <1>1, <1>2, <1>3 DEF StackInv, NamesInv

\* A stack of another instance or environment has its own file.
LEMMA FileTouch ==
  ASSUME NEW i, NEW e, NEW k \in DOMAIN stacks, NEW v, stacks[k].owner = i, stacks[k].env = e,
         files' = Put(files, k, v), stacks' = stacks, engine' = engine
  PROVE  TouchesOnly(i, e) /\ k \in DOMAIN files' /\ files'[k] = v
BY DEF TouchesOnly, Put

\* StoreComposeFile writes the file of the worker's own stack.
LEMMA StoreComposeFileWork ==
  ASSUME TypeInv, RecordInv, GuardInv, StackInv, NEW o, NEW e, StoreComposeFile(o, e)
  PROVE  StackInv' /\ stacks' = stacks /\ engine' = engine
<1> DEFINE i == runners[o].op.id
           k == runners[o].stack[e]
<1>1. At(o, e, "store") /\ stacks' = stacks /\ engine' = engine
  BY DEF StoreComposeFile, dbVars
<1>2. NamesInv'
  BY <1>1 DEF NamesInv, StackInv
<1>3. /\ o \in DOMAIN runners /\ WorkInv(o, e) /\ e \in DOMAIN runners[o].stack
      /\ runners[o].work[e] = "store"
      /\ runners[o].op.results[e] = "Running"
  BY <1>1, WorkAt, AtWork DEF StackInv, HoldsStack
<1>4. k \in DOMAIN stacks /\ stacks[k].env = e /\ stacks[k].owner = i
      /\ runners[o].op.type \in Deploys
  BY <1>3 DEF WorkInv
<1>5. CASE files' = Put(files, k, runners[o].copy.compose) /\ Goto(o, e, "deploy")
  <2>1. /\ TouchesOnly(i, e) /\ k \in DOMAIN files'
        /\ files'[k] = runners[o].copy.compose
    BY <1>1, <1>4, <1>5, FileTouch
  <2>2. WorkInv(o, e)'
    BY <1>1, <1>3, <1>4, <1>5, <2>1, GotoWork DEF WorkInv, StackInv, Deploys
  <2> QED BY <1>1, <1>2, <1>5, <2>1, <2>2, GotoWork DEF StackInv
<1>6. CASE Goto(o, e, "err") /\ files' = files
  <2>1. WorkInv(o, e)'
    BY <1>1, <1>3, <1>4, <1>6, QuietTouch, GotoWork DEF WorkInv, StackInv
  <2> QED BY <1>1, <1>2, <1>6, <2>1, QuietTouch, GotoWork DEF StackInv
<1> QED BY <1>1, <1>5, <1>6 DEF StoreComposeFile

\* One cell of the engine's state.
LEMMA EngineTouch ==
  ASSUME TypeInv, NEW i \in Instances, NEW e \in Environments, NEW s,
         engine' = [engine EXCEPT ![i][e] = s], stacks' = stacks, files' = files
  PROVE  TouchesOnly(i, e) /\ engine'[i][e] = s
<1>1. engine \in [Instances -> [Environments -> ComposeFiles \cup {"down", "broken"}]]
  BY DEF TypeInv, TypeOK
<1>2. /\ engine'[i][e] = s
      /\ \A j \in Instances, f \in Environments :
           j # i \/ f # e => engine'[j][f] = engine[j][f]
  BY <1>1
<1> QED BY <1>2 DEF TouchesOnly

\* Containers change only where the one stack of that name is the worker's own.
ContainersOwned ==
  \A k \in DOMAIN stacks :
    stacks[k].owner = NoOwner =>
      engine'[stacks[k].id][stacks[k].env] = engine[stacks[k].id][stacks[k].env]

\* A worker leaves the containers of foreign stacks alone.
LEMMA OwnContainers ==
  ASSUME TypeInv, StackInv, NEW o, NEW e, NEW pc, At(o, e, pc), pc \in HoldsStack,
         TouchesOnly(runners[o].op.id, e)
  PROVE  ContainersOwned
<1> SUFFICES ASSUME NEW k \in DOMAIN stacks, stacks[k].owner = NoOwner
             PROVE  engine'[stacks[k].id][stacks[k].env] = engine[stacks[k].id][stacks[k].env]
  BY DEF ContainersOwned
<1>1. stacks[k] \in Stack
  BY TableValue DEF TypeInv, TypeOK
<1>2. stacks[k].id \in Instances /\ stacks[k].env \in Environments
  BY <1>1 DEF Stack
<1>3. runners[o].op.id # NoOwner
  BY WorkAt DEF StackInv, Instances, NoOwner
<1>4. stacks[k].id # runners[o].op.id \/ stacks[k].env # e
  BY <1>3, HeldStack
<1> QED BY <1>2, <1>4 DEF TouchesOnly

\* DeployStack changes the containers of the worker's own stack.
LEMMA DeployStackWork ==
  ASSUME TypeInv, RecordInv, GuardInv, StackInv, NEW o, NEW e, DeployStack(o, e)
  PROVE  StackInv' /\ stacks' = stacks /\ ContainersOwned
<1> DEFINE i == runners[o].op.id
           k == runners[o].stack[e]
<1>1. At(o, e, "deploy") /\ stacks' = stacks /\ files' = files
  BY DEF DeployStack, dbVars
<1>2. NamesInv'
  BY <1>1 DEF NamesInv, StackInv
<1>3. /\ o \in DOMAIN runners /\ WorkInv(o, e) /\ e \in DOMAIN runners[o].stack
      /\ runners[o].work[e] = "deploy" /\ i \in Instances /\ e \in Environments
      /\ runners[o].op.results[e] = "Running"
  BY <1>1, WorkAt, AtWork DEF StackInv, HoldsStack
<1>4. "deploy" \in HoldsStack
  BY DEF HoldsStack
<1>5. CASE engine' = engine /\ Goto(o, e, "err")
  <2>1. WorkInv(o, e)'
    BY <1>1, <1>3, <1>5, QuietTouch, GotoWork DEF WorkInv, StackInv
  <2> QED
    BY <1>1, <1>2, <1>5, <2>1, QuietTouch, GotoWork DEF StackInv, ContainersOwned
<1>6. CASE /\ k \in DOMAIN files /\ engine' = [engine EXCEPT ![i][e] = files[k]]
           /\ Goto(o, e, "saveActive")
  <2> DEFINE s == files[k]
  <2> HIDE DEF s
  <2>0. engine' = [engine EXCEPT ![i][e] = s]
    BY <1>6 DEF s
  <2>1. TouchesOnly(i, e) /\ engine'[i][e] = s
    BY <1>1, <1>3, <2>0, EngineTouch
  <2>2. WorkInv(o, e)'
    BY <1>1, <1>3, <1>6, <2>1, GotoWork DEF WorkInv, StackInv, s
  <2> QED
    BY <1>1, <1>2, <1>4, <1>6, <2>1, <2>2, GotoWork, OwnContainers DEF StackInv
<1>7. ASSUME NEW s, engine' = [engine EXCEPT ![i][e] = s], Goto(o, e, "saveError")
      PROVE  StackInv' /\ ContainersOwned
  <2>1. TouchesOnly(i, e)
    BY <1>1, <1>3, <1>7, EngineTouch
  <2>2. WorkInv(o, e)'
    BY <1>1, <1>3, <1>7, <2>1, GotoWork DEF WorkInv, StackInv
  <2> QED
    BY <1>1, <1>2, <1>4, <1>7, <2>1, <2>2, GotoWork, OwnContainers DEF StackInv
<1> QED BY <1>1, <1>5, <1>6, <1>7 DEF DeployStack

\* ... and so does UndeployStack.
LEMMA UndeployStackWork ==
  ASSUME TypeInv, RecordInv, GuardInv, StackInv, NEW o, NEW e, UndeployStack(o, e)
  PROVE  StackInv' /\ stacks' = stacks /\ ContainersOwned
<1> DEFINE i == runners[o].op.id
<1>1. At(o, e, "undeploy") /\ stacks' = stacks /\ files' = files
  BY DEF UndeployStack, dbVars
<1>2. NamesInv'
  BY <1>1 DEF NamesInv, StackInv
<1>3. /\ o \in DOMAIN runners /\ WorkInv(o, e) /\ e \in DOMAIN runners[o].stack
      /\ runners[o].work[e] = "undeploy" /\ i \in Instances /\ e \in Environments
      /\ runners[o].op.results[e] = "Running"
  BY <1>1, WorkAt, AtWork DEF StackInv, HoldsStack
<1>4. "undeploy" \in HoldsStack
  BY DEF HoldsStack
<1>5. ASSUME NEW s, engine' = [engine EXCEPT ![i][e] = s], NEW pc, Goto(o, e, pc),
             \/ pc = "saveInactive" /\ s = "down"
             \/ pc = "err"
      PROVE  StackInv' /\ ContainersOwned
  <2>1. TouchesOnly(i, e) /\ engine'[i][e] = s
    BY <1>1, <1>3, <1>5, EngineTouch
  <2>2. WorkInv(o, e)'
    BY <1>1, <1>3, <1>5, <2>1, GotoWork DEF WorkInv, StackInv
  <2> QED
    BY <1>1, <1>2, <1>4, <1>5, <2>1, <2>2, GotoWork, OwnContainers DEF StackInv
<1> QED BY <1>1, <1>5 DEF UndeployStack

\* The statuses of owned stacks do not matter to their names.
LEMMA SameNames ==
  ASSUME NamesInv, NEW k \in DOMAIN stacks, stacks[k].owner # NoOwner,
         DOMAIN stacks' = DOMAIN stacks,
         stacks'[k].id = stacks[k].id, stacks'[k].env = stacks[k].env,
         stacks'[k].owner = stacks[k].owner,
         \A l \in DOMAIN stacks : l # k => stacks'[l] = stacks[l]
  PROVE  NamesInv'
<1>1. \A l \in DOMAIN stacks :
        /\ stacks'[l].id = stacks[l].id /\ stacks'[l].env = stacks[l].env
        /\ stacks'[l].owner = stacks[l].owner
  OBVIOUS
<1>2. \A l \in DOMAIN stacks :
        IF stacks'[l].owner = NoOwner THEN stacks'[l].status = "Active"
        ELSE stacks'[l].owner = stacks'[l].id
  BY <1>1 DEF NamesInv
<1> QED BY <1>1, <1>2 DEF NamesInv

WithStatus(stack, status) == [stack EXCEPT !.status = status]

\* A stack record with another status.
LEMMA StatusFields ==
  ASSUME NEW stack \in Stack, NEW status
  PROVE  /\ WithStatus(stack, status).id = stack.id
         /\ WithStatus(stack, status).env = stack.env
         /\ WithStatus(stack, status).owner = stack.owner
         /\ WithStatus(stack, status).status = status
BY DEF WithStatus, Stack

\* The record of the worker's own stack takes another status.
LEMMA StatusTouch ==
  ASSUME TypeInv, StackInv, NEW o, NEW e, NEW pc, At(o, e, pc), pc \in HoldsStack,
         NEW status,
         stacks' = Put(stacks, runners[o].stack[e],
                       WithStatus(stacks[runners[o].stack[e]], status)),
         files' = files, engine' = engine
  PROVE  /\ TouchesOnly(runners[o].op.id, e) /\ NamesInv'
         /\ DOMAIN stacks' = DOMAIN stacks
         /\ stacks'[runners[o].stack[e]].status = status
         /\ \A l \in DOMAIN stacks : stacks[l].owner = NoOwner => stacks'[l] = stacks[l]
<1> DEFINE i   == runners[o].op.id
           k   == runners[o].stack[e]
           new == WithStatus(stacks[k], status)
<1>1. /\ k \in DOMAIN stacks /\ stacks[k].env = e /\ stacks[k].owner = i
      /\ stacks[k].id = i
  BY HeldStack
<1>2. stacks[k] \in Stack /\ i # NoOwner
  BY <1>1, WorkAt, TableValue DEF TypeInv, TypeOK, StackInv, Instances, NoOwner
<1>3. new.id = i /\ new.env = e /\ new.owner = i /\ new.status = status
  BY <1>1, <1>2, StatusFields
<1>4. stacks' = Put(stacks, k, new)
  OBVIOUS
<1> HIDE DEF new, k
<1>5. /\ DOMAIN stacks' = DOMAIN stacks /\ stacks'[k] = new
      /\ \A l \in DOMAIN stacks : l # k => stacks'[l] = stacks[l]
  BY <1>1, <1>4 DEF Put
<1>6. TouchesOnly(i, e)
  BY <1>1, <1>3, <1>5 DEF TouchesOnly
<1>7. NamesInv'
  <2>1. NamesInv /\ stacks[k].owner # NoOwner
    BY <1>1, <1>2 DEF StackInv
  <2>2. /\ stacks'[k].id = stacks[k].id /\ stacks'[k].env = stacks[k].env
        /\ stacks'[k].owner = stacks[k].owner
    BY <1>1, <1>3, <1>5
  <2> QED BY <1>1, <1>5, <2>1, <2>2, SameNames, Zenon
<1> QED BY <1>1, <1>2, <1>3, <1>5, <1>6, <1>7 DEF k

\* SaveStack records what the worker did.
LEMMA SaveStackWork ==
  ASSUME TypeInv, RecordInv, GuardInv, StackInv, NEW o, NEW e, SaveStack(o, e)
  PROVE  /\ StackInv' /\ engine' = engine
         /\ \A k \in DOMAIN stacks : stacks[k].owner = NoOwner =>
              k \in DOMAIN stacks' /\ stacks'[k] = stacks[k]
<1> DEFINE k == runners[o].stack[e]
<1>1. PICK pc : /\ At(o, e, pc) /\ files' = files /\ engine' = engine
                /\ pc = runners[o].work[e]
                /\ pc \in {"saveActive", "saveError", "saveInactive"}
  BY DEF SaveStack, At, worldVars
<1>2. pc \in HoldsStack
  BY <1>1 DEF HoldsStack
<1>3. /\ o \in DOMAIN runners /\ WorkInv(o, e) /\ e \in DOMAIN runners[o].stack
      /\ runners[o].op.results[e] = "Running" /\ runners[o].op.type \in Lifecycle
  BY <1>1, <1>2, WorkAt, AtWork DEF StackInv
<1>4. ASSUME NEW status, NEW next, Goto(o, e, next),
             stacks' = Put(stacks, k, WithStatus(stacks[k], status)),
             \/ pc = "saveActive" /\ status = "Active" /\ next = "ok"
             \/ pc = "saveError" /\ status = "Error" /\ next = "err"
             \/ /\ pc = "saveInactive" /\ status = "Inactive"
                /\ next = IF runners[o].op.type = "restart" THEN "deploy" ELSE "ok"
      PROVE  /\ StackInv'
             /\ \A l \in DOMAIN stacks : stacks[l].owner = NoOwner =>
                  l \in DOMAIN stacks' /\ stacks'[l] = stacks[l]
  <2>1. /\ TouchesOnly(runners[o].op.id, e) /\ NamesInv'
        /\ DOMAIN stacks' = DOMAIN stacks /\ stacks'[k].status = status
        /\ \A l \in DOMAIN stacks : stacks[l].owner = NoOwner => stacks'[l] = stacks[l]
    <3>1. At(o, e, pc) /\ files' = files /\ engine' = engine
      BY <1>1
    <3>2. stacks' = Put(stacks, runners[o].stack[e],
                        WithStatus(stacks[runners[o].stack[e]], status))
      BY <1>4
    <3>3. TouchesOnly(runners[o].op.id, e) /\ NamesInv'
      BY <1>2, <3>1, <3>2, StatusTouch
    <3>4. DOMAIN stacks' = DOMAIN stacks /\ stacks'[k].status = status
      BY <1>2, <3>1, <3>2, StatusTouch
    <3>5. ASSUME NEW l \in DOMAIN stacks, stacks[l].owner = NoOwner
          PROVE  stacks'[l] = stacks[l]
      BY <1>2, <3>1, <3>2, <3>5, StatusTouch
    <3> QED BY <3>3, <3>4, <3>5
  <2>2. /\ runners'[o].op = runners[o].op /\ runners'[o].copy = runners[o].copy
        /\ runners'[o].stack = runners[o].stack /\ runners'[o].work[e] = next
        /\ WorkInv(o, e)' => AllWorkInv'
    BY <1>1, <1>4, <2>1, GotoWork DEF StackInv
  <2>3. /\ k \in DOMAIN stacks' /\ stacks'[k].env = e
        /\ stacks'[k].owner = runners[o].op.id
    BY <1>3, <2>1 DEF WorkInv, TouchesOnly
  <2>4. next = "ok" => Goal(o, e)'
    BY <1>1, <1>3, <1>4, <2>1, <2>2 DEF WorkInv, Goal, Lifecycle, Deploys
  <2>5. WorkInv(o, e)'
    BY <1>1, <1>3, <1>4, <2>2, <2>3, <2>4 DEF WorkInv, Deploys
  <2> QED BY <2>1, <2>2, <2>5 DEF StackInv
<1>5. \/ pc = "saveActive"
         /\ stacks' = Put(stacks, k, WithStatus(stacks[k], "Active"))
         /\ Goto(o, e, "ok")
      \/ pc = "saveError"
         /\ stacks' = Put(stacks, k, WithStatus(stacks[k], "Error"))
         /\ Goto(o, e, "err")
      \/ pc = "saveInactive"
         /\ stacks' = Put(stacks, k, WithStatus(stacks[k], "Inactive"))
         /\ Goto(o, e, IF runners[o].op.type = "restart" THEN "deploy" ELSE "ok")
  BY <1>1 DEF SaveStack, WithStatus
<1> QED BY <1>1, <1>4, <1>5

-----------------------------------------------------------------------------
(* The other steps, and the theorems.                                       *)

\* What ForeignUntouched says of one step.
ForeignKept ==
  \A k \in DOMAIN stacks :
    stacks[k].owner = NoOwner =>
      /\ k \in DOMAIN stacks' /\ stacks'[k] = stacks[k]
      /\ engine'[stacks[k].id][stacks[k].env] = engine[stacks[k].id][stacks[k].env]

\* A worker's step that leaves a target's record alone says the same of it.
LEMMA SameWork ==
  ASSUME UNCHANGED <<stacks, files, engine>>, NEW o, NEW e, WorkInv(o, e),
         runners'[o].op.id = runners[o].op.id,
         runners'[o].op.type = runners[o].op.type,
         runners'[o].op.results[e] = "Success" => runners[o].op.results[e] = "Success",
         runners'[o].copy.compose = runners[o].copy.compose,
         runners'[o].work = runners[o].work, runners'[o].stack = runners[o].stack
  PROVE  WorkInv(o, e)'
<1>1. Goal(o, e) => Goal(o, e)'
  BY DEF Goal
<1> QED BY <1>1 DEF WorkInv, StacksNamed

\* Steps that work on no target: goroutines end, or nothing happens to them.
LEMMA QuietWork ==
  ASSUME StackInv, UNCHANGED <<stacks, files, engine>>,
         \A o \in DOMAIN runners' : o \in DOMAIN runners /\ runners'[o] = runners[o]
  PROVE  StackInv' /\ ForeignKept
<1>1. ASSUME NEW o \in DOMAIN runners', NEW e \in DOMAIN runners'[o].work
      PROVE  WorkInv(o, e)'
  <2>1. o \in DOMAIN runners /\ runners'[o] = runners[o]
    OBVIOUS
  <2>2. WorkInv(o, e)
    BY <2>1 DEF StackInv, AllWorkInv
  <2> QED BY <2>1, <2>2, SameWork
<1>2. NamesInv'
  BY DEF StackInv, NamesInv
<1> QED BY <1>1, <1>2 DEF StackInv, AllWorkInv, ForeignKept

\* A goroutine that is through with its targets goes on.
LEMMA LaterWork ==
  ASSUME TypeInv, StackInv, UNCHANGED <<stacks, files, engine>>,
         NEW o \in DOMAIN runners, NEW s, runners' = [runners EXCEPT ![o] = s],
         s.op.id = runners[o].op.id, s.op.type = runners[o].op.type,
         \A e \in DOMAIN runners[o].work :
           s.op.results[e] = "Success" => runners[o].op.results[e] = "Success",
         s.copy.compose = runners[o].copy.compose,
         s.work = runners[o].work, s.stack = runners[o].stack
  PROVE  StackInv' /\ ForeignKept
<1>1. DOMAIN runners' = DOMAIN runners /\ runners'[o] = s
      /\ \A p \in DOMAIN runners : p # o => runners'[p] = runners[p]
  BY ExceptTable DEF TypeInv, TypeOK
<1>2. ASSUME NEW p \in DOMAIN runners', NEW e \in DOMAIN runners'[p].work
      PROVE  WorkInv(p, e)'
  <2>1. p \in DOMAIN runners /\ e \in DOMAIN runners[p].work
    BY <1>1
  <2>2. WorkInv(p, e)
    BY <2>1 DEF StackInv, AllWorkInv
  <2>3. CASE p = o
    BY <1>1, <2>1, <2>2, <2>3, SameWork
  <2>4. CASE p # o
    BY <1>1, <2>1, <2>2, <2>4, SameWork
  <2> QED BY <2>3, <2>4
<1>3. NamesInv'
  BY DEF StackInv, NamesInv
<1> QED BY <1>2, <1>3 DEF StackInv, AllWorkInv, ForeignKept

\* Every step of a goroutine keeps StackInv, and foreign stacks as they are.
LEMMA RunnerStepWork ==
  ASSUME TypeInv, Allocated, RecordInv, GuardInv, StackInv, NEW o, RunnerStep(o)
  PROVE  StackInv' /\ ForeignKept
<1>1. ASSUME NEW e, WorkStep(o, e) PROVE StackInv' /\ ForeignKept
  <2>1. CASE StartTarget(o, e) \/ FindStack(o, e) \/ EndTarget(o, e)
    <3>1. AllWorkInv' /\ UNCHANGED <<stacks, engine, files>>
      BY <2>1, StartTargetWork, FindStackWork, EndTargetWork DEF StackInv
    <3> QED BY <3>1 DEF StackInv, NamesInv, ForeignKept
  <2>2. CASE CreateStackRecord(o, e)
    <3>1. StackInv' /\ TouchesOnly(runners[o].op.id, e) /\ engine' = engine
      BY <2>2, CreateStackRecordWork
    <3>2. At(o, e, "create")
      BY <2>2 DEF CreateStackRecord
    <3>3. runners[o].op.id # NoOwner
      BY <3>2, WorkAt DEF StackInv, Instances, NoOwner
    <3> QED BY <3>1, <3>3 DEF TouchesOnly, ForeignKept
  <2>3. CASE StoreComposeFile(o, e)
    BY <2>3, StoreComposeFileWork DEF ForeignKept
  <2>4. CASE DeployStack(o, e) \/ UndeployStack(o, e)
    BY <2>4, DeployStackWork, UndeployStackWork DEF ForeignKept, ContainersOwned
  <2>5. CASE SaveStack(o, e)
    BY <2>5, SaveStackWork DEF ForeignKept
  <2> QED BY <1>1, <2>1, <2>2, <2>3, <2>4, <2>5 DEF WorkStep
<1>2. CASE FinalizeOperation(o)
  <2>1. o \in DOMAIN runners /\ UNCHANGED <<stacks, files, engine>>
    BY <1>2 DEF FinalizeOperation, worldVars
  <2>2. PICK s : /\ runners' = [runners EXCEPT ![o] = s]
                 /\ s.op.id = runners[o].op.id /\ s.op.type = runners[o].op.type
                 /\ s.copy = runners[o].copy
                 /\ s.stack = runners[o].stack /\ s.work = runners[o].work
                 /\ s.op.results = [e \in DOMAIN runners[o].op.results |->
                                      IF runners[o].work[e] = "idle" THEN "Skipped"
                                      ELSE runners[o].op.results[e]]
    BY <1>2, FinalizeStep
  <2>3. DOMAIN runners[o].work = DOMAIN runners[o].op.results
    BY <2>1 DEF RecordInv, RunnerInv
  <2>4. \A e \in DOMAIN runners[o].work :
          s.op.results[e] = "Success" => runners[o].op.results[e] = "Success"
    BY <2>2, <2>3
  <2> QED BY <2>1, <2>2, <2>4, LaterWork
<1>3. CASE ReadStatuses(o)
  <2>1. o \in DOMAIN runners /\ UNCHANGED <<stacks, files, engine>>
    BY <1>3 DEF ReadStatuses, worldVars, dbVars
  <2>2. CASE Finish(o)
    <3>1. \A p \in DOMAIN runners' : p \in DOMAIN runners /\ runners'[p] = runners[p]
      BY <2>2 DEF Finish, Drop
    <3> QED BY <2>1, <3>1, QuietWork
  <2>3. CASE ~Finish(o)
    <3>1. PICK s : /\ runners' = [runners EXCEPT ![o] = s]
                   /\ s.op = runners[o].op /\ s.copy.compose = runners[o].copy.compose
                   /\ s.stack = runners[o].stack /\ s.work = runners[o].work
      BY <1>3, <2>3, ReadStatusesStep
    <3> QED BY <2>1, <3>1, LaterWork
  <2> QED BY <2>2, <2>3
<1>4. CASE FinishOperation(o)
  <2>1. UNCHANGED <<stacks, files, engine>>
    BY <1>4 DEF FinishOperation, worldVars
  <2>2. \A p \in DOMAIN runners' : p \in DOMAIN runners /\ runners'[p] = runners[p]
    BY <1>4 DEF FinishOperation, Finish, Drop
  <2> QED BY <2>1, <2>2, QuietWork
<1> QED BY <1>1, <1>2, <1>3, <1>4 DEF RunnerStep

\* A launched goroutine has not touched anything.
LEMMA LaunchWork ==
  ASSUME TypeInv, StackInv, NEW c, Launch(c)
  PROVE  StackInv' /\ ForeignKept
<1> DEFINE n    == nextOperation
           envs == Resolve(calls[c].copy.target)
           op   == [id |-> calls[c].id, type |-> calls[c].req, status |-> "Running",
                    results |-> [e \in envs |-> "Pending"]]
           run  == [copy |-> calls[c].copy, op |-> op, parallel |-> calls[c].parallel,
                    work |-> [e \in envs |-> "idle"], stack |-> EmptyTable,
                    phase |-> "targets"]
<1>1. runners' = Put(runners, n, run) /\ UNCHANGED <<stacks, files, engine>>
  BY DEF Launch, worldVars
<1>2. /\ run.stack = EmptyTable
      /\ run.work = [e \in envs |-> "idle"]
      /\ run.op.results = [e \in envs |-> "Pending"]
  OBVIOUS
<1> HIDE DEF run, op, n
<1>3. /\ DOMAIN runners' = DOMAIN runners \cup {n} /\ runners'[n] = run
      /\ \A o \in DOMAIN runners : o # n => runners'[o] = runners[o]
  BY <1>1 DEF Put
<1>4. DOMAIN run.stack = {}
  BY <1>2, EmptyIsTable
<1>5. ASSUME NEW o \in DOMAIN runners', NEW e \in DOMAIN runners'[o].work
      PROVE  WorkInv(o, e)'
  <2>1. CASE runners'[o] = run
    <3>1. runners'[o].work[e] = "idle" /\ runners'[o].op.results[e] = "Pending"
      BY <1>2, <1>5, <2>1
    <3> QED BY <1>4, <2>1, <3>1 DEF WorkInv
  <2>2. CASE runners'[o] # run
    <3>1. o \in DOMAIN runners /\ runners'[o] = runners[o]
      BY <1>3, <1>5, <2>2
    <3>2. WorkInv(o, e)
      BY <1>5, <3>1 DEF StackInv, AllWorkInv
    <3> QED BY <1>1, <3>1, <3>2, SameWork
  <2> QED BY <2>1, <2>2
<1>6. NamesInv'
  BY <1>1 DEF StackInv, NamesInv
<1> QED BY <1>1, <1>5, <1>6 DEF StackInv, AllWorkInv, ForeignKept

\* The recovery of a stack is no change of whose it is, and none of a foreign one.
LEMMA RestartWork ==
  ASSUME TypeInv, RecordInv, StackInv, Restart
  PROVE  StackInv' /\ ForeignKept
<1>1. /\ DOMAIN runners' = {} /\ engine' = engine
      /\ DOMAIN stacks' = DOMAIN stacks
      /\ \A k \in DOMAIN stacks : stacks'[k] = RecoverStack(stacks[k])
  BY DEF Restart, RecordInv, memVars, worldVars
<1>2. ASSUME NEW k \in DOMAIN stacks
      PROVE  /\ stacks'[k].id = stacks[k].id /\ stacks'[k].env = stacks[k].env
             /\ stacks'[k].owner = stacks[k].owner
             /\ stacks[k].status = "Active" => stacks'[k] = stacks[k]
  <2>1. stacks[k] \in Stack
    BY TableValue DEF TypeInv, TypeOK
  <2> QED BY <1>1, <2>1 DEF RecoverStack, Stack
<1>3. \A k \in DOMAIN stacks : stacks[k].owner = NoOwner => stacks'[k] = stacks[k]
  BY <1>2 DEF StackInv, NamesInv
<1>4. \A k \in DOMAIN stacks : 
        IF stacks'[k].owner = NoOwner THEN stacks'[k].status = "Active"
        ELSE stacks'[k].owner = stacks'[k].id
  BY <1>2, <1>3 DEF StackInv, NamesInv
<1>5. NamesInv'
  BY <1>1, <1>2, <1>4 DEF StackInv, NamesInv
<1> QED BY <1>1, <1>3, <1>5 DEF StackInv, AllWorkInv, ForeignKept

\* Every step of the system keeps StackInv, and foreign stacks as they are.
LEMMA NextStacks ==
  ASSUME TypeInv, Allocated, RecordInv, GuardInv, StackInv, [Next]_vars
  PROVE  StackInv' /\ ForeignKept
<1>1. CASE Handlers \/ (\E e \in Environments : MoveEnvironment(e)) \/ UNCHANGED vars
  <2>1. UNCHANGED <<stacks, files, engine, runners>>
    BY <1>1 DEF Handlers, Create, Acquire, BeginRefresh, BeginUpdate, BeginDelete,
                MoveEnvironment, vars, dbVars, worldVars, memVars
  <2> QED BY <2>1, QuietWork
<1>2. ASSUME NEW c, HandlerStep(c) PROVE StackInv' /\ ForeignKept
  <2>1. CASE Launch(c)
    BY <2>1, LaunchWork
  <2>2. CASE ~Launch(c)
    <3>1. UNCHANGED <<stacks, files, engine, runners>>
      BY <1>2, <2>2 DEF HandlerStep, ReadForOperation, AbortOperation, ResolveUpdate,
                        RefreshStatuses, WriteInstance, EndDelete, dbVars, worldVars
    <3> QED BY <3>1, QuietWork
  <2> QED BY <2>1, <2>2
<1>3. CASE Crash
  <2>1. DOMAIN runners' = {} /\ UNCHANGED <<stacks, files, engine>>
    BY <1>3, EmptyIsTable DEF Crash, dbVars, worldVars
  <2> QED BY <2>1, QuietWork
<1> QED BY <1>1, <1>2, <1>3, RunnerStepWork, RestartWork DEF Next

\* At the start the only stacks are those of somebody else.
LEMMA InitStacks == Init => StackInv
<1> SUFFICES ASSUME Init PROVE StackInv
  OBVIOUS
<1>1. DOMAIN runners = {}
  BY EmptyIsTable DEF Init
<1>2. \A k \in DOMAIN stacks : stacks[k].owner = NoOwner /\ stacks[k].status = "Active"
  BY DEF Init
<1> QED BY <1>1, <1>2 DEF StackInv, NamesInv, AllWorkInv

\* StackInv holds in every state.
THEOREM StacksCorrect == Spec => []StackInv
<1>1. Init => GuardInv /\ RecordInv /\ StackInv
  BY InitGuard, InitRecords, InitStacks
<1>2. TypeInv /\ Allocated /\ GuardInv /\ RecordInv /\ StackInv /\ [Next]_vars
        => GuardInv' /\ RecordInv' /\ StackInv'
  BY NextGuard, NextRecords, NextStacks
<1> QED BY <1>1, <1>2, TypeCorrect, PTL DEF Spec

\* What an operation reports as done is done, whatever happens beside it: no
\* other operation, no request and no recovery touches the containers, the file
\* or the stack record while the goroutine that reported it is alive.
THEOREM SuccessHolds == Spec => []SuccessIsReal
<1>1. ASSUME TypeInv, StackInv PROVE SuccessIsReal
  <2> SUFFICES ASSUME NEW o \in DOMAIN runners, NEW e \in DOMAIN runners[o].work,
                      runners[o].op.results[e] = "Success"
               PROVE
          CASE runners[o].op.type \in {"deploy", "redeploy"} ->
                 /\ engine[runners[o].op.id][e] = runners[o].copy.compose
                 /\ stacks[runners[o].stack[e]].status = "Active"
            [] runners[o].op.type \in {"start", "restart"} ->
                 /\ runners[o].stack[e] \in DOMAIN files
                 /\ engine[runners[o].op.id][e] = files[runners[o].stack[e]]
                 /\ stacks[runners[o].stack[e]].status = "Active"
            [] runners[o].op.type = "stop" ->
                 /\ engine[runners[o].op.id][e] = "down"
                 /\ stacks[runners[o].stack[e]].status = "Inactive"
    BY Zenon DEF SuccessIsReal
  <2>1. Goal(o, e) /\ runners[o].op.type \in Lifecycle
    BY <1>1, RunnerFields DEF StackInv, AllWorkInv, WorkInv
  <2> QED BY <2>1 DEF Goal, Deploys, Lifecycle
<1> QED BY <1>1, StacksCorrect, TypeCorrect, PTL

\* Repeated, interrupted and concurrent deployments leave one stack record per
\* target: the guard makes finding before creating enough.
THEOREM OneStackEach == Spec => []OneStackPerTarget
<1>1. ASSUME StackInv PROVE OneStackPerTarget
  <2> SUFFICES ASSUME NEW k \in DOMAIN stacks, NEW l \in DOMAIN stacks,
                      stacks[k].owner # NoOwner,
                      stacks[k].owner = stacks[l].owner, stacks[k].env = stacks[l].env
               PROVE  k = l
    BY DEF OneStackPerTarget
  <2>1. stacks[k].owner = stacks[k].id /\ stacks[l].owner = stacks[l].id
    BY <1>1 DEF StackInv, NamesInv
  <2> QED BY <1>1, <2>1 DEF StackInv, NamesInv
<1> QED BY <1>1, StacksCorrect, PTL

\* Of a stack that happens to carry an instance's name neither the record nor
\* the containers are changed by any step.
THEOREM ForeignStays == Spec => ForeignUntouched
<1>1. Init => GuardInv /\ RecordInv /\ StackInv
  BY InitGuard, InitRecords, InitStacks
<1>2. TypeInv /\ Allocated /\ GuardInv /\ RecordInv /\ StackInv /\ [Next]_vars
        => GuardInv' /\ RecordInv' /\ StackInv'
  BY NextGuard, NextRecords, NextStacks
<1>3. TypeInv /\ Allocated /\ GuardInv /\ RecordInv /\ StackInv /\ [Next]_vars
        => [ForeignKept]_vars
  BY NextStacks
<1> QED BY <1>1, <1>2, <1>3, TypeCorrect, PTL DEF Spec, ForeignUntouched, ForeignKept
=============================================================================
