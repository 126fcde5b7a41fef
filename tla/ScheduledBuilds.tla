--------------------------- MODULE ScheduledBuilds ---------------------------
(***************************************************************************)
(* Scheduled builds (api/serviceinstance/service.go): the images of a      *)
(* compose file are pulled on the targets of a service instance at once,   *)
(* and the compose file is deployed when its time has come.                *)
(*                                                                         *)
(* A goroutine per build works on its own copies of the build and of the   *)
(* instance, and writes both back whole.  It can be cancelled through its  *)
(* context; builds that had not ended are started over after a restart.    *)
(* The operation that a build starts is what ServiceOperations models step *)
(* by step: here it holds the guard of its instance from ExecuteOperation  *)
(* until it ends, and then writes back the instance it read.               *)
(***************************************************************************)
EXTENDS Naturals, Sequences, FiniteSets, Tables

CONSTANTS
  Instances,     \* service instances, there from the start
  Environments,  \* environments, identified by numbers
  ComposeFiles,  \* contents of a compose file
  Targets,       \* what instances target, as in ServiceOperations
  Requests,      \* requests clients send besides schedule-build
  Clients,       \* concurrent requests that schedule or cancel a build
  Membership,    \* <<from, to>>: how environments move between groups
  MaxBuilds      \* bound on build ids

Places == {"in", "out", "gone"}
Builds == 1..MaxBuilds
Nobody == 0      \* in place of a build: an operation that a client started

ASSUME BuildsAssumption ==
  /\ MaxBuilds \in Nat
  /\ Environments \subseteq Nat /\ IsFiniteSet(Environments)
  /\ Targets \subseteq [group : BOOLEAN, envs : SUBSET Environments]
  /\ Requests \subseteq {"cancel", "edit", "delete", "operation"}
  /\ Membership \subseteq Places \X Places

VARIABLES
  up,          \* the process runs
  recovering,  \* builds that RecoverScheduledBuilds has still to look at
  place,       \* environment -> in the targeted group, out of it, or gone
  instances,   \* bucket service_instances
  builds,      \* bucket service_instance_scheduled_builds
  nextBuild,   \* its sequence
  due,         \* builds whose DeployAt has passed
  calls,       \* handlers that schedule or cancel a build, by client
  builders,    \* runScheduledBuild goroutines, by build
  running      \* instance -> the operation that holds its guard

dbVars   == <<instances, builds, nextBuild>>
procVars == <<up, recovering>>
vars == <<up, recovering, place, instances, builds, nextBuild, due, calls,
          builders, running>>

-----------------------------------------------------------------------------
(* The shape of the state.                                                 *)

TargetStatus == {"Pending", "Pulling", "ImageReady", "Deployed", "Failed", "Skipped"}
Open         == {"Pending", "Pulling", "ImageReady"}
BuildStatus  == Open \cup {"Deployed", "Failed", "Cancelled"}

Instance == [compose : ComposeFiles,
             target  : [group : BOOLEAN, envs : SUBSET Environments]]
Result   == [env : Environments, status : TargetStatus]
Build    == [id : Instances, compose : ComposeFiles, status : BuildStatus,
             results : Seq(Result)]

BuilderPC == {"start", "next", "pull", "ready", "select", "parked", "store",
              "acquire", "launch", "finish"}
Builder == [pc        : BuilderPC,
            build     : Build,              \* the record in memory
            copy      : Instance,           \* the instance it has read
            envs      : Seq(Environments),  \* the targets it resolved to
            i         : Nat,                \* the target at hand
            failed    : BOOLEAN,
            cancelled : BOOLEAN]            \* its context is
Call == [pc : {"resolve", "create", "launch"}, b : Builds \cup {Nobody},
         build : Build, copy : Instance, envs : Seq(Environments)]
   \cup [pc : {"mark", "signal"}, b : Builds, build : Build]
Guard == [build : Builds \cup {Nobody}, working : BOOLEAN, copy : Instance,
          envs : SUBSET Environments]

TypeOK ==
  /\ up \in BOOLEAN
  /\ recovering \subseteq Builds
  /\ place \in [Environments -> Places]
  /\ IsTable(instances, Instances, Instance)
  /\ IsTable(builds, Builds, Build)
  /\ nextBuild \in 1..(MaxBuilds + 1)
  /\ due \subseteq Builds
  /\ IsTable(calls, Clients, Call)
  /\ IsTable(builders, Builds, Builder)
  /\ IsTable(running, Instances, Guard)

-----------------------------------------------------------------------------
\* ResolveTargets, as a set and in the order in which the targets are listed.
Resolve(target) ==
  IF target.group THEN {e \in Environments : place[e] = "in"}
  ELSE {e \in target.envs : place[e] # "gone"}

Listing(S) == CHOOSE s \in [1..Cardinality(S) -> S] :
                \A i, j \in DOMAIN s : i < j => s[i] < s[j]

ResolveInOrder(target) == Listing(Resolve(target))

Init ==
  /\ up = TRUE
  /\ recovering = {}
  /\ place \in [Environments -> {"in", "out"}]
  /\ instances \in [Instances -> [compose : ComposeFiles, target : Targets]]
  /\ builds = EmptyTable
  /\ nextBuild = 1
  /\ due = {}
  /\ calls = EmptyTable
  /\ builders = EmptyTable
  /\ running = EmptyTable

\* The server listens once the recovery is through.
Serving == up /\ recovering = {}

-----------------------------------------------------------------------------
(* ScheduleBuild.                                                          *)

Return(c) == calls' = Drop(calls, {c})

\* A goroutine at its beginning.
NewBuilder(build, copy, envs) ==
  [pc |-> "start", build |-> build, copy |-> copy, envs |-> envs, i |-> 1,
   failed |-> FALSE, cancelled |-> FALSE]

\* Handlers on their way to CreateBuild: each needs a build id, which the bound
\* MaxBuilds has to leave.
Scheduling == {c \in DOMAIN calls : calls[c].pc \in {"resolve", "create"}}

\* The instance is read,
BeginSchedule(c, i, compose) ==
  /\ Serving /\ c \notin DOMAIN calls /\ i \in DOMAIN instances
  /\ nextBuild + Cardinality(Scheduling) <= MaxBuilds
  /\ calls' = Put(calls, c,
       [pc |-> "resolve", b |-> Nobody, copy |-> instances[i], envs |-> <<>>,
        build |-> [id |-> i, compose |-> compose, status |-> "Pending",
                   results |-> <<>>]])
  /\ UNCHANGED <<procVars, place, dbVars, due, builders, running>>

\* ... its targets are resolved: ErrNoDeploymentTargets if there is none,
ResolveSchedule(c) ==
  /\ c \in DOMAIN calls /\ calls[c].pc = "resolve"
  /\ LET envs == ResolveInOrder(calls[c].copy.target)
     IN  IF envs = <<>>
         THEN Return(c)
         ELSE calls' = [calls EXCEPT ![c] =
                [@ EXCEPT !.pc = "create", !.envs = envs,
                          !.build.results = [j \in DOMAIN envs |->
                             [env |-> envs[j], status |-> "Pending"]]]]
  /\ UNCHANGED <<procVars, place, dbVars, due, builders, running>>

\* ... the record is created, with a time that may have passed already,
CreateBuild(c) ==
  /\ c \in DOMAIN calls /\ calls[c].pc = "create"
  /\ nextBuild <= MaxBuilds
  /\ builds' = Put(builds, nextBuild, calls[c].build)
  /\ nextBuild' = nextBuild + 1
  /\ due' \in {due, due \cup {nextBuild}}
  /\ calls' = [calls EXCEPT ![c].pc = "launch", ![c].b = nextBuild]
  /\ UNCHANGED <<procVars, place, instances, builders, running>>

\* ... and the cancel function is registered and the goroutine started.
LaunchBuild(c) ==
  /\ c \in DOMAIN calls /\ calls[c].pc = "launch"
  /\ builders' = Put(builders, calls[c].b,
       NewBuilder(calls[c].build, calls[c].copy, calls[c].envs))
  /\ Return(c)
  /\ UNCHANGED <<procVars, place, dbVars, due, running>>

-----------------------------------------------------------------------------
(* CancelScheduledBuild.                                                   *)

\* The record is read, and must not have ended,
BeginCancel(c, b) ==
  /\ Serving /\ c \notin DOMAIN calls
  /\ b \in DOMAIN builds /\ builds[b].status \in Open
  /\ calls' = Put(calls, c, [pc |-> "mark", b |-> b, build |-> builds[b]])
  /\ UNCHANGED <<procVars, place, dbVars, due, builders, running>>

\* ... it is written back as Cancelled,
MarkCancelled(c) ==
  /\ c \in DOMAIN calls /\ calls[c].pc = "mark"
  /\ builds' = Put(builds, calls[c].b,
                   [calls[c].build EXCEPT !.status = "Cancelled"])
  /\ calls' = [calls EXCEPT ![c].pc = "signal"]
  /\ UNCHANGED <<procVars, place, instances, nextBuild, due, builders, running>>

\* ... and the context of its goroutine, if it is registered, is cancelled.
\* This wakes a goroutine that waits for its time, and it returns.
SignalCancel(c) ==
  /\ c \in DOMAIN calls /\ calls[c].pc = "signal"
  /\ LET b == calls[c].b
     IN  builders' = IF b \notin DOMAIN builders THEN builders
                     ELSE IF builders[b].pc = "parked" THEN Drop(builders, {b})
                     ELSE [builders EXCEPT ![b].cancelled = TRUE]
  /\ Return(c)
  /\ UNCHANGED <<procVars, place, dbVars, due, running>>

-----------------------------------------------------------------------------
(* runScheduledBuild.  The goroutine is in the table of builders as long   *)
(* as its cancel function is registered.                                   *)

At(b, pc) == b \in DOMAIN builders /\ builders[b].pc = pc

\* persistScheduledBuild: the record in memory is written whole.
Persist(b, r) ==
  /\ builders' = [builders EXCEPT ![b] = r]
  /\ builds' = Put(builds, b, r.build)

WithResult(r, status) == [r EXCEPT !.build.results[r.i].status = status]

\* The goroutine ends, with or without a last word on the build.
EndWith(b, build) ==
  /\ builders' = Drop(builders, {b})
  /\ builds' = Put(builds, b, build)

End(b) == builders' = Drop(builders, {b}) /\ UNCHANGED builds

\* failScheduledBuild: targets that were not through are skipped.
FailedBuild(build) ==
  [build EXCEPT !.status = "Failed",
                !.results = [j \in DOMAIN @ |->
                  IF @[j].status \in {"Pending", "Pulling"}
                  THEN [@[j] EXCEPT !.status = "Skipped"] ELSE @[j]]]

Start(b) ==
  /\ At(b, "start")
  /\ Persist(b, [builders[b] EXCEPT !.pc = "next", !.build.status = "Pulling"])
  /\ UNCHANGED <<procVars, place, instances, nextBuild, due, calls, running>>

MoreTargets(b) == At(b, "next") /\ builders[b].i <= Len(builders[b].envs)

\* The record has no result in the place of this target.
OutOfRange(b) ==
  /\ MoreTargets(b)
  /\ ~builders[b].cancelled
  /\ builders[b].i > Len(builders[b].build.results)

\* Mutation: the targets after a failure are marked as a cancellation does.
NextTarget_Cancels(b) ==
  /\ MoreTargets(b) /\ ~OutOfRange(b)
  /\ LET r == builders[b]
     IN  IF r.cancelled THEN End(b)
         ELSE IF r.failed
              THEN Persist(b, [WithResult(r, "Cancelled") EXCEPT !.i = r.i + 1])
              ELSE Persist(b, [WithResult(r, "Pulling") EXCEPT !.pc = "pull"])
  /\ UNCHANGED <<procVars, place, instances, nextBuild, due, calls, running>>

\* The loop over the targets: the cancelled goroutine returns, the one that
\* has failed skips, and otherwise the pull begins.
NextTarget(b) ==
  /\ MoreTargets(b) /\ ~OutOfRange(b)
  /\ LET r == builders[b]
     IN  IF r.cancelled THEN End(b)
         ELSE IF r.failed
              THEN Persist(b, [WithResult(r, "Skipped") EXCEPT !.i = r.i + 1])
              ELSE Persist(b, [WithResult(r, "Pulling") EXCEPT !.pc = "pull"])
  /\ UNCHANGED <<procVars, place, instances, nextBuild, due, calls, running>>

\* Mutation: the error of a pull is recorded and forgotten.
EndPull_ForgetsError(b) ==
  /\ At(b, "pull")
  /\ \E status \in {"ImageReady", "Failed"} :
       Persist(b, [WithResult(builders[b], status) EXCEPT
                     !.pc = "next", !.i = builders[b].i + 1])
  /\ UNCHANGED <<procVars, place, instances, nextBuild, due, calls, running>>

\* pullImagesOnEndpoint returns.
EndPull(b) ==
  /\ At(b, "pull")
  /\ \E status \in {"ImageReady", "Failed"} :
       Persist(b, [WithResult(builders[b], status) EXCEPT
                     !.pc = "next", !.i = builders[b].i + 1,
                     !.failed = (status = "Failed")])
  /\ UNCHANGED <<procVars, place, instances, nextBuild, due, calls, running>>

\* Mutation: the goroutine returns after a failure without failing the build.
EndPulls_Returns(b) ==
  /\ At(b, "next") /\ ~MoreTargets(b)
  /\ IF builders[b].failed
     THEN End(b)
     ELSE Persist(b, [builders[b] EXCEPT !.pc = "ready",
                                         !.build.status = "ImageReady"])
  /\ UNCHANGED <<procVars, place, instances, nextBuild, due, calls, running>>

\* After the loop.
EndPulls(b) ==
  /\ At(b, "next") /\ ~MoreTargets(b)
  /\ IF builders[b].failed
     THEN EndWith(b, FailedBuild(builders[b].build))
     ELSE Persist(b, [builders[b] EXCEPT !.pc = "ready",
                                         !.build.status = "ImageReady"])
  /\ UNCHANGED <<procVars, place, instances, nextBuild, due, calls, running>>

Goto(b, pc) == builders' = [builders EXCEPT ![b].pc = pc] /\ UNCHANGED builds

\* waitForDeployTime: when the time has passed the context is not looked at.
CheckTime(b) ==
  /\ At(b, "ready")
  /\ Goto(b, IF b \in due THEN "store" ELSE "select")
  /\ UNCHANGED <<procVars, place, instances, nextBuild, due, calls, running>>

\* The select statement takes any of the cases that are ready, or waits.
Select(b) ==
  /\ At(b, "select")
  /\ \/ b \in due /\ Goto(b, "store")
     \/ builders[b].cancelled /\ End(b)
     \/ b \notin due /\ ~builders[b].cancelled /\ Goto(b, "parked")
  /\ UNCHANGED <<procVars, place, instances, nextBuild, due, calls, running>>

\* Time passes; the timer wakes the goroutine that waits for it.
TimeComes(b) ==
  /\ b \in DOMAIN builds \ due
  /\ due' = due \cup {b}
  /\ builders' = IF At(b, "parked") THEN [builders EXCEPT ![b].pc = "store"]
                 ELSE builders
  /\ UNCHANGED <<procVars, place, dbVars, calls, running>>

\* The instance as it was read, with the compose file of the build.
StoreCompose(b) ==
  /\ At(b, "store")
  /\ LET r    == builders[b]
         copy == [r.copy EXCEPT !.compose = r.build.compose]
     IN  /\ instances' = Put(instances, r.build.id, copy)
         /\ builders' = [builders EXCEPT ![b].copy = copy, ![b].pc = "acquire"]
  /\ UNCHANGED <<procVars, place, builds, nextBuild, due, calls, running>>

\* ExecuteOperation: the guard,
Acquire(b) ==
  /\ At(b, "acquire")
  /\ LET r == builders[b]
     IN  IF r.build.id \in DOMAIN running
         THEN EndWith(b, FailedBuild(r.build)) /\ UNCHANGED running
         ELSE /\ running' = Put(running, r.build.id,
                   [build |-> b, working |-> FALSE, copy |-> r.copy, envs |-> {}])
              /\ Goto(b, "launch")
  /\ UNCHANGED <<procVars, place, instances, nextBuild, due, calls>>

\* ... the instance and its targets as they are now, and the goroutine of the
\* operation; without an instance or a target the guard is released.
LaunchOperation(b) ==
  /\ At(b, "launch")
  /\ LET r == builders[b]
         i == r.build.id
     IN  IF i \in DOMAIN instances /\ Resolve(instances[i].target) # {}
         THEN /\ running' = Put(running, i,
                   [build |-> b, working |-> TRUE, copy |-> instances[i],
                    envs |-> Resolve(instances[i].target)])
              /\ Goto(b, "finish")
         ELSE /\ running' = Drop(running, {i})
              /\ EndWith(b, FailedBuild(r.build))
  /\ UNCHANGED <<procVars, place, instances, nextBuild, due, calls>>

\* Mutation: the results of the targets stay as they were.
FinishBuild_StatusOnly(b) ==
  /\ At(b, "finish")
  /\ EndWith(b, [builders[b].build EXCEPT !.status = "Deployed"])
  /\ UNCHANGED <<procVars, place, instances, nextBuild, due, calls, running>>

\* The operation was accepted.
FinishBuild(b) ==
  /\ At(b, "finish")
  /\ EndWith(b, [builders[b].build EXCEPT
                   !.status = "Deployed",
                   !.results = [j \in DOMAIN @ |->
                                  [@[j] EXCEPT !.status = "Deployed"]]])
  /\ UNCHANGED <<procVars, place, instances, nextBuild, due, calls, running>>

-----------------------------------------------------------------------------
(* Service instances and their operations, as far as builds meet them.     *)

\* ExecuteOperation for a client.
StartOperation(i) ==
  /\ Serving /\ "operation" \in Requests
  /\ i \in DOMAIN instances \ DOMAIN running
  /\ Resolve(instances[i].target) # {}
  /\ running' = Put(running, i,
       [build |-> Nobody, working |-> TRUE, copy |-> instances[i],
        envs |-> Resolve(instances[i].target)])
  /\ UNCHANGED <<procVars, place, dbVars, due, calls, builders>>

\* finalizeOperation writes the instance back, unless the targets' statuses
\* cannot be read, and the guard is released.
EndOperation(i) ==
  /\ i \in DOMAIN running /\ running[i].working
  /\ instances' \in {instances, Put(instances, i, running[i].copy)}
  /\ running' = Drop(running, {i})
  /\ UNCHANGED <<procVars, place, builds, nextBuild, due, calls, builders>>

\* serviceInstanceUpdate and serviceInstanceDelete.
EditInstance(i, compose, target) ==
  /\ Serving /\ "edit" \in Requests
  /\ i \in DOMAIN instances
  /\ Resolve(target) # {}
  /\ instances' = Put(instances, i, [compose |-> compose, target |-> target])
  /\ UNCHANGED <<procVars, place, builds, nextBuild, due, calls, builders, running>>

DeleteInstance(i) ==
  /\ Serving /\ "delete" \in Requests
  /\ i \in DOMAIN instances
  /\ instances' = Drop(instances, {i})
  /\ UNCHANGED <<procVars, place, builds, nextBuild, due, calls, builders, running>>

MoveEnvironment(e) ==
  /\ \E p \in Places : /\ <<place[e], p>> \in Membership
                       /\ place' = [place EXCEPT ![e] = p]
  /\ UNCHANGED <<procVars, dbVars, due, calls, builders, running>>

-----------------------------------------------------------------------------
(* The process.                                                            *)

Die ==
  /\ up' = FALSE
  /\ recovering' = {}
  /\ calls' = EmptyTable
  /\ builders' = EmptyTable
  /\ running' = EmptyTable
  /\ UNCHANGED <<place, dbVars, due>>

Crash == up /\ Die

\* An index out of range in a goroutine ends the process.
Panic(b) == OutOfRange(b) /\ Die

\* Mutation: cancelled builds are recovered too.
Unfinished_Cancelled == {b \in DOMAIN builds :
                           builds[b].status \in Open \cup {"Cancelled"}}

\* Mutation: the recovery forgets builds that wait for their time.
Unfinished_NotReady == {b \in DOMAIN builds :
                          builds[b].status \in {"Pending", "Pulling"}}

\* The builds that RecoverScheduledBuilds reads.
Unfinished == {b \in DOMAIN builds : builds[b].status \in Open}

\* The server is built again and reads the builds that have not ended.
Restart ==
  /\ ~up
  /\ up' = TRUE
  /\ recovering' = Unfinished
  /\ UNCHANGED <<place, dbVars, due, calls, builders, running>>

\* In the order of the bucket: a build of a deleted instance is skipped, one
\* without targets fails, the others are started over.
RecoverBuild(b) ==
  /\ up /\ b \in recovering /\ \A a \in recovering : b <= a
  /\ recovering' = recovering \ {b}
  /\ LET i    == builds[b].id
         envs == ResolveInOrder(instances[i].target)
     IN  IF i \notin DOMAIN instances THEN UNCHANGED <<builds, builders>>
         ELSE IF envs = <<>>
              THEN /\ builds' = [builds EXCEPT ![b].status = "Failed"]
                   /\ UNCHANGED builders
              ELSE /\ builders' = Put(builders, b, NewBuilder(builds[b], instances[i], envs))
                   /\ UNCHANGED builds
  /\ UNCHANGED <<up, place, instances, nextBuild, due, calls, running>>

-----------------------------------------------------------------------------
Handlers(c) ==
  \/ \E i \in Instances, compose \in ComposeFiles : BeginSchedule(c, i, compose)
  \/ \E b \in Builds : "cancel" \in Requests /\ BeginCancel(c, b)

HandlerStep(c) ==
  \/ ResolveSchedule(c) \/ CreateBuild(c) \/ LaunchBuild(c)
  \/ MarkCancelled(c) \/ SignalCancel(c)

\* What the goroutine does without waiting for anybody.
BuilderStep(b) ==
  \/ Start(b) \/ NextTarget(b) \/ Panic(b) \/ EndPulls(b)
  \/ CheckTime(b) \/ Select(b) \/ StoreCompose(b)
  \/ Acquire(b) \/ LaunchOperation(b) \/ FinishBuild(b)

InstanceStep(i) ==
  \/ StartOperation(i) \/ EndOperation(i) \/ DeleteInstance(i)
  \/ \E compose \in ComposeFiles, target \in Targets : EditInstance(i, compose, target)

Next ==
  \/ \E c \in Clients : Handlers(c) \/ HandlerStep(c)
  \/ \E b \in Builds : BuilderStep(b) \/ EndPull(b) \/ TimeComes(b) \/ RecoverBuild(b)
  \/ \E i \in Instances : InstanceStep(i)
  \/ \E e \in Environments : MoveEnvironment(e)
  \/ Crash
  \/ Restart

Spec == Init /\ [][Next]_vars

\* The scheduler runs every goroutine, time passes, and a supervisor starts
\* the process again.  Nothing in the code bounds a pull: its client has no
\* timeout and its context no deadline.
Fairness ==
  /\ \A c \in Clients : WF_vars(HandlerStep(c))
  /\ \A b \in Builds : /\ WF_vars(BuilderStep(b))
                       /\ WF_vars(TimeComes(b))
                       /\ WF_vars(RecoverBuild(b))
  /\ \A i \in Instances : WF_vars(EndOperation(i))
  /\ WF_vars(Restart)

\* The engines bring every pull to an end.
PullsReturn == \A b \in Builds : WF_vars(EndPull(b))

LiveSpec == Spec /\ Fairness /\ PullsReturn

-----------------------------------------------------------------------------
(* Safety.                                                                 *)

NotEnded(b) == b \in DOMAIN builds /\ builds[b].status \in Open

\* No build is forgotten: a record that has not ended has a goroutine, or a
\* handler about to start it, or is still to be recovered.  Holds as long as
\* nobody cancels builds or deletes their instance.
UnfinishedIsOwned ==
  up => \A b \in Builds :
          NotEnded(b) =>
            \/ b \in DOMAIN builders \cup recovering
            \/ \E c \in DOMAIN calls : calls[c].pc = "launch" /\ calls[c].b = b

\* The record agrees with its results: a failed build has no target left
\* waiting, a ready one has all images, a deployed one is deployed everywhere.
\* (Targets do not change here: a recovery that finds none fails the build and
\* leaves its results alone.)
ResultsAgree ==
  \A b \in DOMAIN builds :
    LET all(S) == \A j \in DOMAIN builds[b].results : builds[b].results[j].status \in S
    IN  CASE builds[b].status = "ImageReady" -> all({"ImageReady"})
          [] builds[b].status = "Deployed"   -> all({"Deployed"})
          [] builds[b].status = "Failed"     -> all({"ImageReady", "Failed", "Skipped"})
          [] OTHER -> TRUE

\* Nothing is deployed where the images are missing: an operation that a build
\* has started works only on environments where the build has pulled them, also
\* when it was started over and when a pull failed before.  (Neither targets
\* nor groups change here: ExecuteOperation resolves the targets anew.)
DeployedWherePulled ==
  \A i \in DOMAIN running : \A e \in running[i].envs :
    running[i].build # Nobody =>
      LET results == builds[running[i].build].results
      IN  \E j \in DOMAIN results :
            results[j].env = e /\ results[j].status \in {"ImageReady", "Deployed"}

-----------------------------------------------------------------------------
(* What a step may never do.                                               *)

\* Nobody is at work on the build: no goroutine, and no handler that starts
\* or cancels it.
Quiet(b) == b \notin DOMAIN builders /\ \A c \in DOMAIN calls : calls[c].b # b

\* A build that has ended, and on which nobody is at work, is over for good:
\* its record stays and no later event, a restart in particular, deploys it
\* again.
EndedIsFinal ==
  [][\A b \in DOMAIN builds :
       builds[b].status \notin Open /\ Quiet(b) =>
         /\ b \in DOMAIN builds' /\ builds'[b] = builds[b]
         /\ b \notin DOMAIN builders']_vars

-----------------------------------------------------------------------------
(* Liveness.                                                               *)

\* Once the process stays up every build ends, however often it was started
\* over before, if pulls return and nobody cancels or deletes.
BuildsFinish ==
  <>[]up => \A b \in Builds : NotEnded(b) ~> ~NotEnded(b)
=============================================================================
