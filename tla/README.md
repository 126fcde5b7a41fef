# Verification of Portainer

TLA+ models of the protocols in Portainer's server (`api/`) and of two in its
browser code (`app/`), the TLC runs that check them and the theorems TLAPS proves
about them. The first part is the inventory of the whole system; then the plan,
the models, the runs, the proofs and what is left out. Paths are relative to the
repository (those without a directory prefix to `api/`), line numbers to the
commit beside which these files are kept.

## 1. The system

Portainer is one Go process with an embedded bolt database. HTTP handlers,
background goroutines, cron jobs and edge agents' polls run concurrently and
meet in three places: the database (one writer at a time, but most operations
are several transactions), a few in-memory maps behind mutexes, and the
environments (Docker, Swarm, Kubernetes) that outlive the process. The browser
drives some operations itself, as a chain of requests.

| Component | State | Operations | What is hard |
|---|---|---|---|
| Service instances (`serviceinstance`, `http/handler/serviceinstances`) | buckets `service_instances`, `service_instance_operations`, `stacks`; map `running`; a goroutine per operation | create, update, delete, refresh; deploy, redeploy, start, stop, restart; finalization | requests against the goroutine's stale copy; fail-fast over targets; crash between any two writes; ownership of stacks with the same name |
| Scheduled builds (same file) | bucket of builds; map of cancel functions; a goroutine per build | schedule, pull, wait, deploy, cancel, recover | cancellation and recovery racing the goroutine; copies that are days old; parallel operations |
| Restart recovery (`cmd/portainer/main.go`) | the buckets above | stale stacks to Error, stale operations to Failed | runs before the server listens; must be enough for every crash point |
| Bucket store (`database`, `dataservices`) | bolt buckets and sequences | get, put, delete, next identifier | an update is a put: it recreates a deleted record |
| Stack lifecycle (`http/handler/stacks`, `stacks/*`) | bucket `stacks`, workflows and artifacts, project files | create, update, start, stop, delete, git redeploy, webhook | deployments in goroutines that write back a copy; the deployed commit recorded apart from the stack |
| GitOps polling (`gitops/scheduling`, `scheduler`, `http/handler/gitops/sources`) | map of jobs, cron entries | reconcile, tick, stop | values read before the lock and used under it |
| Container replacement (`app/react/docker/containers/CreateView`, `docker/container.go`) | a container in the engine, a chain of calls | stop, rename, create, connect, start, remove, undo | a call that fails or whose answer is lost at any point; two replacements of one container |
| Edge tunnels (`chisel`, `http/handler/endpointedge`, `http/proxy`) | maps of tunnels and proxies, response cache, chisel users | open, poll, use, idle check, close | closing a tunnel that was used after the decision; a response cached after the tunnel changed |
| AI assistant (`app/react/ai`, `ai`) | the chat store, a stream per question, the loop of tool calls | ask, stop, clear, read, call tools | events and failures of an earlier stream |
| Pending actions (`pendingactions`) | bucket of actions | create (deduplicated), execute, delete | a repeat taken for a duplicate of the one in flight; a panic taken for success |
| Offline gate, backup, restore | a reader-writer lock with timeouts | lock, pass, time out | restoring under running requests |
| Admin monitor | flag, cancel function | start, stop, time out | initialization racing the timeout |
| Concurrent runner (`concurrent`) | channels, workers | run | errors and cancellation |
| Edge stacks and jobs | versions, deployments and reports by environment | update, report, poll | reports of an older version |
| Snapshots, groups and tags, users and access control, API keys, registry proxy, Docker/Kubernetes clients, migrations, the rest of the frontend | records | CRUD, request-local work, I/O | little protocol of their own |

How they interact: a handler of service instances calls `ExecuteOperation`;
its goroutine uses the stack deployer, writes the `stacks` bucket that the
stack handlers also write, and resolves its targets from the environments and
groups that other handlers edit. Scheduled builds call `ExecuteOperation` too,
with `parallel` set. A restore stops the server inside the process and builds
it again from a new database, closing the old one first; for the goroutines of
the old server this is the same as a crash. `PROJECT.json` lists every
component with the reason for leaving it out, and the hazards at their lines.

Two browser operations talk to the server only request by request: a container
is replaced by a chain of engine calls, each proxied, and a chat is one request
whose answer is a stream. A request for an edge environment first opens a tunnel,
which the agent learns of by its next poll. A git source is polled by a cron job
that the handlers start and stop; its tick polls each stack that uses the source.

What makes each component correct:

* operations: one at a time for an instance, every one ends, results and
  outcome agree with what was done, nothing foreign is touched, requests that
  were accepted are not undone;
* builds: none is forgotten, every one ends, none is touched after its end, a
  cancelled one is not deployed, and the record says what was deployed where;
* git stacks: what is recorded as deployed is deployed, a stopped stack is down,
  a commit arrives whatever failed before;
* polling: exactly one job for a pollable source, none for others, timers that
  go on;
* replacement: a container that served before is never lost, a failure restores
  it, a success replaces it fully;
* tunnels: the agent hears of an open one, proxies lead to it, an idle one is
  closed;
* chats: an answer holds what was said to its question, all of it unless an
  error is shown, and the panel does not wait for ever;
* pending actions: every requested action is executed after the request;
* gate: no writer during a backup, no request waiting forever.

## 2. Plan

In order of importance; 1 to 6 are done.

1. `ServiceOperations`: instances, operations, guard, targets, crash and
   recovery, with `OperationJournal` as the abstract specification of the
   operation history. Theorems: every safety property of its runs, and that the
   operations keep the journal.
2. `ScheduledBuilds`: builds as further callers of `ExecuteOperation`;
   cancellation, recovery, and the index of results by targets that have
   changed. Theorems: types, builds that ended stay as they are, no build is
   forgotten, and status, results and images agree. Their parallel operations are
   in `ServiceOperations`.
3. `GitStacks`: polls, redeployment, stop, start, deletion and settings of one
   git stack. Theorems: types, a stopped stack is down, the recorded commit runs.
4. `SourcePolling`: which sources are polled. Theorems: types, jobs and cron
   entries, timers, and that polling matches the datastore.
5. `ContainerReplacement` over `DockerEngine`, with theorems on its types, on what
   survives, who serves, what a failure puts back and what two that meet leave;
   `Tunnels`, with theorems on its types, cached responses and proxies.
6. `AIChat`, with theorems on its types, on what the Stop button reaches and on
   what an answer holds: whose tokens, which tools, and all of them.
7. Edge stacks: versions and deployments against late reports of agents.
8. `PendingActions`, `OfflineGate`, `AdminMonitor`: small, mostly sequential.
9. Stack creation and Kubernetes stacks, then the stack handlers beside service
   instances.

The theorems state every safety property that the runs check. What is left to
prove is to do with fewer premises (section 5): the results of builds whose
targets change, and the journal when instances are deleted.

## 3. The models

**`Tables`** is a bucket as a function from the keys present to their records.
`Put` writes a record whether or not the key is present, because
`UpdateObject` is `bucket.Put`: a record written after its deletion is back. The
in-memory maps of the server are tables too.

**`ServiceStatus`** has the status values of `api/portainer.go` and the two
functions that condense statuses: `AggregateStatus` and `Outcome`, the switch
of `finalizeOperation`.

**`ServiceOperations`** is the component. Each database transaction is a step,
and so is each call that leaves the process; between two steps anything else
may happen.

| Variables | Code |
|---|---|
| `instances`, `operations`, `stacks`, `next...` | the buckets and their sequences |
| `running` | `Service.running`, the guard |
| `calls` | a handler between two of its transactions, by client, with the copy it has read |
| `runners` | `runOperation`: the instance and operation it holds in memory, a program counter and a stack for each target, and the phase (targets, statuses, final write) |
| `files`, `engine` | project files on disk; the containers of an instance on an environment |
| `place` | whether an environment is in the targeted group, out of it, or deleted |
| `up` | the process |

| Actions | Code |
|---|---|
| `Create`, `BeginUpdate`/`ResolveUpdate`/`WriteInstance`, `BeginRefresh`/`RefreshStatuses`/`WriteInstance`, `BeginDelete`/`EndDelete` | the handlers and `Create`, `Update`, `RefreshStatus`, `Delete` |
| `Acquire`, `ReadForOperation`, `AbortOperation`, `Launch` | `ExecuteOperation` |
| `StartTarget`, `EndTarget` | the loop of `runOperation`, each with its persisted result |
| `FindStack`, `CreateStackRecord`, `StoreComposeFile`, `DeployStack`, `UndeployStack`, `SaveStack` | `executeOnTarget` and what it calls, with their error paths |
| `FinalizeOperation`, `ReadStatuses`, `FinishOperation` | `finalizeOperation` and the deferred release |
| `Crash`, `Restart` | death of the process; recovery in `buildServer` |
| `MoveEnvironment` | other handlers that edit groups and delete environments |

Abstractions. Targets are sets, since identifiers in a list are distinct in
the requests modelled; the sequential loop may take them in any order, which
includes the code's. A compose file is an opaque value. Database writes do not
fail (the code only logs such failures); storing the file and the project
path, and reading the statuses of several targets, are one step each, and so
are the two recovery transactions, which run before anything else. Checks
without state (authorization, parsing) are not modelled. The refresh type of
operation is defined in the code but no request starts it. `parallel` is
`FALSE` for every HTTP request; the request `build` is the call that a scheduled
build makes, with `parallel` set. The stack handlers do not act on the stacks of service instances here.
A deployment that fails may have changed nothing or leave the project broken.

**`OperationJournal`** is what the history of operations promises to a client
that polls it: at most one open operation for an instance, targets that only
advance, an outcome that follows from them, an interruption that fails what was
open, and an end to every operation. It knows no guard, goroutine or stack.

**`ScheduledBuilds`** is the life of a build, from the request that schedules it
to its end or its recovery after a restart.

| Variables | Code |
|---|---|
| `instances`, `builds`, `nextBuild` | the buckets and the sequence of builds |
| `due` | builds whose `DeployAt` has passed |
| `calls` | `ScheduleBuild` and `CancelScheduledBuild` between two of their steps |
| `builders` | `runScheduledBuild`: its copies of the build and of the instance, the targets it resolved, a program counter, its context; a build is in the table as long as its cancel function is registered |
| `running` | the guard, with the operation that holds it: who started it, the instance it read, its environments |
| `up`, `recovering` | the process; the builds that `RecoverScheduledBuilds` has still to look at |
| `place` | as above |

| Actions | Code |
|---|---|
| `BeginSchedule`, `ResolveSchedule`, `CreateBuild`, `LaunchBuild` | `ScheduleBuild` |
| `BeginCancel`, `MarkCancelled`, `SignalCancel` | `CancelScheduledBuild` |
| `Start`, `NextTarget`, `EndPull`, `EndPulls` | `runScheduledBuild` up to `ImageReady`, with `pullImagesOnEndpoint` and `failScheduledBuild` |
| `CheckTime`, `Select`, `TimeComes` | `waitForDeployTime`: a time that has passed is taken without a look at the context; `select` takes any ready case |
| `StoreCompose`, `Acquire`, `LaunchOperation`, `FinishBuild` | the rest of `runScheduledBuild`, with `ExecuteOperation` |
| `StartOperation`, `EndOperation`, `EditInstance`, `DeleteInstance`, `MoveEnvironment` | other requests on the instance |
| `Crash`, `Panic`, `Restart`, `RecoverBuild` | death of the process, also by an index out of range; `RecoverScheduledBuilds`, before the server listens |

Here an operation is what a build can see of it: it holds the guard from
`ExecuteOperation` to its end and then writes back the instance it read, or
does not when the statuses of its targets cannot be read. Its steps are in
`ServiceOperations`, where `ops_results` runs them as a build does. An edit, a
deletion and the start of an operation by a client are one step each, since
their inner steps are there too, and the reading and the launch in
`LaunchOperation` are one. A compose file that does not parse is refused before
anything is stored, so that parsing is left out. Environments are listed in the
order of their identifiers, as in the bucket.

**`GitStacks`** is one compose stack from git. Each worker reads the stack when it
begins and writes its whole copy back; between two of its steps anything else may
happen.

| Variables | Code |
|---|---|
| `stack`, `hash` | the status in the stack's record; `Hash` of the artifact in its workflow |
| `head`, `files`, `containers` | the repository's latest commit; the commit in the project directory; the commit that runs, or `Broken` |
| `workers` | a poll, a webhook call or a request between two of its steps, with the copy it holds |
| `inFlight` | `singleflightGroup` |
| `disturbed`, `pushed` | for the properties: two workers met, or one was cut short; a commit arrived between clone and `LatestCommitID` |

| Actions | Code |
|---|---|
| `BeginPoll`, `JoinPoll`, `LoadGit`, `Fetch`, `Clone`, `Mark`, `Deploy`, `Finish` | `RedeployWhenChanged` and its second stage, `UpdateGitObject` |
| `BeginRedeploy`, `CloneAgain`, `ReadHash`, `Persist`, `CheckFirst`, `UndeployFirst`, `StoreFailure`, `DeployAgain`, `EndRedeploy`, `RevertHash` | `stackGitRedeploy`, `stackDeploy` and its `postDeploy` |
| `BeginStop`, `BeginStart`, `BeginDelete`, `BeginSettings`, `LoadSettings`, `Take`, `Bring`, `EndStop`, `EndStart`, `EndDelete`, `EndSettings` | the other handlers |
| `Push`, `Restart` | a commit; death of the server and `recoverStaleDeployingStacks` |

A commit is a number. Any step that talks to git, the registries or the
environment may fail, and a failed deployment may leave half of the containers.
With `MayForce` a poll that finds the recorded commit may deploy it again
(`AutoUpdate.ForceUpdate`, `deploy.go:180`).
With `Webhook` the workers in `Polls` are calls of the webhook, which have no
single flight; it is `FALSE` in the runs, and the difference is told below. Stacks
made from an app template, which polls leave alone (`deploy.go:155`), are left out.

**`SourcePolling`** is what decides which git sources are polled: handlers change
the datastore and then call `Reconcile`, in steps, because it reads the source
and its references before it takes the scheduler's lock.

| Variables | Code |
|---|---|
| `sources`, `uses` | the interval of each source (none, or gone); the source in the artifact of each stack |
| `jobs`, `entries` | the map of `SourceScheduler`; the entries of the cron scheduler |
| `handlers` | requests: a program counter, the sources still to reconcile, what was read |
| `behind` | for the properties: sources that changed and were not reconciled, or whose last `Reconcile` acted on what had changed since |

| Actions | Code |
|---|---|
| `CreateSource`, `UpdateSource`, `DeleteSource`, `CreateStack`, `DetachStack`, `DeleteNamespace`, `BeginRepoint`, `Repoint`, `RepointByURL` | the handlers that change sources or their users |
| `ReadSource`, `ReadReferences`, `Reconcile` | `Reconcile`, with `reconcileSource`, `StartJobEvery`, `stopLocked` |
| `Restart` | the server comes back, with `ReconcileAll` before the first request |

**`DockerEngine`** is what the callers rely on of a Docker engine: a table of
containers with unique names, when a call is accepted and what it leaves. It is
external. **`ContainerReplacement`** has the two sagas over it: the browser's
(`useCreateMutation.tsx`) and the server's (`Recreate`).

| Variables | Code |
|---|---|
| `containers`, `nextId` | the engine |
| `sagas` | by tab or request, the program counter and the old container as it was read |
| `late` | calls of `connectToExtraNetworks` whose answers nobody awaits any more (`Promise.all`) |
| `autoRemove`, `doomed` | the containers created with `HostConfig.AutoRemove`; those of them that a call stopped, which the daemon removes sooner or later (`AutoRemoved`) |
| `begun`, `faults` | counters for the bounds |

`Call` is one awaited call: the engine accepts or rejects it by its own rules,
and as a fault it may fail without an effect or lose its answer after it. The
tab's actions are `OpenForm`, `Submit`, `StopOld`, `RenameOld`, `CreateNew`,
`StartNew`, `DropNew`, `RenameBack`, `ApplySettings`, `ConnectOne`, `LateConnect`,
`RemoveOld` and `CloseTab`; the request's are `Inspect`, `StopCurrent` ...
`Inherit`, its deferred functions `UndoStop` ... `UndoStart`, and `ServerDies`.
The first container may have `AutoRemove`; the form sets it freely
(`toRequest.ts:21`, `CreateNew`), a recreation copies it (`container.go:188`,
`CreateAgain`).
Webhook and resource control are one field, `access`. The image is pulled before
and has no part in it.

**`Tunnels`** composes the tunnel service of `chisel` with its users: proxied
requests, the agents' polls and the response cache.

| Variables | Code |
|---|---|
| `tunnels`, `proxies`, `etag` | `activeTunnels`; `endpointProxies`; the cache of poll responses |
| `told`, `poll` | the response an agent acts on; the one being prepared for it |
| `loop` | the verification loop between two of its steps |
| `clients` | proxied requests: `Request`, `ReadConfig`, `Dialed`/`TimedOut`, `RegisterProxy`, `Serve` |
| `envs`, `snapshots` | environments and snapshots in the datastore |
| `crossed`, `overtaken` | for the properties: a cache entry or a proxy was deleted while its successor was being made |

`Open`, `Config`, `UpdateLastActivity` and `close` are the methods under the lock;
`PollStart` and `cacheResponse` the status request; `checkTunnels`,
`SnapshotTaken`, `SnapshotFailed`, `CloseIdle`, `CloseGone`, `Cleanup` and
`CloseAgain` the loop, whose snapshots run without the lock. Time is one bit, `fresh`, which `Elapses`
clears.

**`AIChat`** composes the chat panel's store and stream reader with the server's
`RunChat`. The browser runs one callback at a time, so an event is one step, and
the rejection that an abort causes is part of the step that aborts. `Panics` is a
panic in the model's client or a tool: `panic_logger.go:13` recovers it, so that the
body ends like any other and no event tells the browser (`Deserted`).

| Variables | Code |
|---|---|
| `messages`, `toolEvents`, `isStreaming`, `error`, `abortController` | the store |
| `reader`, `wire` | by chat, `streamChat` and the events on the way; `silent` is a `streamChat` that returned without having read a last event |
| `server` | by chat, the round, the tool calls left and what was said in `RunChat`; or that it panicked |
| `told`, `stray` | for the properties: what the server did for the current chat; a connection broke after a later chat began |

**`MCServiceOperations`**, **`MCScheduledBuilds`**, **`MCContainerReplacement`**,
**`MCGitStacks`** and **`MCSourcePolling`** give the constants their values for TLC.
The constants of `AIChat` and `Tunnels` need no more than the configuration.

## 4. The runs

| Run | Question | Bounds | States |
|---|---|---|---|
| `ops_results` | do results, outcome, stacks and containers agree, in sequence (`FailFast`) and in parallel (`ParallelReportsAll`; `SuccessIsReal`, `OneStackPerTarget`), and is the bucket a journal (`KeepsJournal`)? | 1 instance, 2 environments, 2 clients, 2 operations of the 5 types or of a build, crashes | 903 288 |
| `ops_group` | who may write which stack (`WorkersOwnTheirStack`, `ForeignUntouched`), is a Running record always somebody's (`RunningIsOwned`)? | a group of 2 environments that change, a foreign stack on one, 1 operation, updates, deletions, refreshes | 962 703 |
| `ops_live` | does an operation hold the guard alone (`GuardExact`), does every operation end, as the journal says (`ImplementsJournal`), and every guard come free (`GuardReleased`)? | 1 instance, 2 environments that may be deleted, 2 clients, 2 deployments, crashes | 111 750 |
| `builds_recover` | is no build forgotten, do record, results and images agree, does every build end (`UnfinishedIsOwned`, `ResultsAgree`, `DeployedWherePulled`, `BuildsFinish`)? | 1 instance, 2 listed environments, 2 builds, client operations, crashes | 154 112 |
| `builds_cancel` | is a build that ended over (`EndedIsFinal`)? | 1 build on a group that changes, 2 clients, cancellations, edits, deletions, crashes | 838 696 |
| `redeploy` | what does the record of a git stack say of its containers (`NothingSkipped`, `StoppedIsDown`)? | 2 polls, 1 client with 5 kinds of requests, `ForceUpdate` allowed, 3 commits, 1 restart, every step may fail | 5 034 471 |
| `redeploy_live` | is the latest commit recorded and running in the end, or else the stack in error (`CommitsArrive`)? | 2 polls, 1 client who redeploys, 2 commits, 1 restart | 304 794 |
| `polling` | is what should be polled polled (`PollingMatches`), by one job (`JobsAreTracked`) whose timer is left alone (`TimersGoOn`)? | 2 sources, 2 stacks, 2 handlers, 2 intervals, 3 job identifiers | 2 278 759 |
| `replace` | does a container survive its replacement (`ServiceSurvives`, `SomeoneServes`), its undoing (`RollbackRestores`) and give way to its successor (`OldGivesWay`)? | 2 names, 2 networks, with or without `AutoRemove`, 2 tabs, 2 requests, 2 sagas, 2 faults | 2 262 487 |
| `tunnels` | do agents hear of open tunnels (`CacheIsCurrent`, `OpenTunnelsAreHeard`), do proxies lead to them (`ProxiesFollowTunnels`), do idle ones close (`IdleTunnelsClose`)? | 2 environments, one of them deleted, 2 ports, 1 client, 2 opens | 426 620 |
| `chat` | does the panel show its own question's answer (`AnswersAreTheirOwn`, `ToolsShownAsTheyEnded`), whole unless it says so (`NoErrorMeansWhole`), stoppable (`StreamsAreStoppable`) and not for ever (`StreamingEnds`)? | 2 tools, 2 chats, 2 rounds, 2 calls a round, 1 token, a window of 2, panics | 446 333 |

The types of `ServiceOperations` and of `SourcePolling` are proved, so no run
checks them again.

The bounds are as large as a property needs to be broken. One operation meets
what the last one left, a request meets another between two of its steps, one
target fails where another has succeeded: two of each. `MaxOperations`,
`MaxBuilds`, `MaxOpens` and `MaxSagas` are in the guards of the step that begins
something, so that nothing accepted is cut short; `MaxStacks` is as large as the
targets can need. `ops_live` has room for a second operation beside the first, so
that only the guard keeps them apart, and lets environments and with them the
members go while an operation is under way. `ops_results` has one compose file
text: a result is about what was stored and what runs, not about two texts. In
`redeploy` two polls share a flight or follow each other;
one client is enough, because the properties set apart what requests did that
met each other (`disturbed`), and a third commit lets one come before, between
and after two polls. In `polling` two handlers cross, and three identifiers are
one more than there are jobs at a time. In `replace` two sagas cross with two
faults, one that breaks a saga and one that breaks its undoing. In `chat` the
second question meets what is left of the first one.

Preconditions. `UnfinishedIsOwned` holds as long as nobody cancels or deletes: a
goroutine that returns on its cancelled context may have undone the cancellation,
and a build of a deleted instance is passed over by the recovery. `ResultsAgree`
and `DeployedWherePulled` are checked while targets and groups stay. The
properties of `redeploy` speak of stacks at rest on which no two requests met,
those of `tunnels` name the crossings they exclude. The properties of `replace` are
promised as long as no container with `AutoRemove` was stopped (`KeptAtStop`), and
name the faults that they exclude. Those of `chat` set apart a connection that
breaks late (`stray`), and `NoErrorMeansWhole` an answer whose body ended without a
last event; `StreamingEnds` says that this is all a panel may wait for. Each
exclusion is a behaviour listed below, found by checking the property without it.

Deadlock is checked in the runs of operations, builds and polling, where a crash
or a restart is always possible. In the others (`CHECK_DEADLOCK FALSE`) the sagas,
questions, opens, commits and restarts are bounded and the system rests once they
are used up. Symmetry, of polls, tabs and
requests, is used only in runs without liveness.

**Fairness.**

* Operations (`FairSpec`): every handler and every goroutine keeps taking steps
  (the Go scheduler; engine calls end at the latest with the 30 minute context of
  `runOperation`), and the process is started again after a crash (a supervisor,
  as the container's restart policy in the documentation). Nothing is assumed of
  clients, and crashes may go on for ever.
* Builds: the same, and time passes (`TimeComes`). The code bounds no pull, so that
  `PullsReturn` is an assumption of `LiveSpec` alone. A crash starts a build over
  from its first pull, so that endless crashes keep it from its end:
  `BuildsFinish` asks for it once the process stays up.
* Git stacks: polls keep coming and going on, and requests that began are answered
  (weakly fair: cron and scheduler), and no step fails every time it is tried
  (strongly fair success of each).
* Tunnels: agents poll, and the monitor's loop goes on (weakly fair); it looks at
  the tunnels in the random order of a Go map, so that each is looked at
  infinitely often (strongly fair).
* Chats: the server answers, the model ends its stream (`llmRequestTimeout`, five
  minutes, `llm.go:18`), tools return or panic, the browser reads what arrived.
  Nothing is assumed of the user.

### Where the code and what is said of it differ

`found_edit_lost` violates `EditsSurvive`: `finalizeOperation` writes back the
instance read before the operation, undoing an update accepted meanwhile.

Seen in the models too, without a run of their own.

Operations and builds:

* deletion ignores the guard; the goroutine's next writes bring the operation and
  the instance back (`EndDelete` before `FinishOperation`);
* an error between `createStackRecord` and the deployment leaves the stack, and
  then the instance, in Deploying although nothing is in progress;
* the goroutine's next persist overwrites `Cancelled`; if it then returns on its
  context the build stays open, and the next restart starts the cancelled build
  over;
* a recovered build reports the targets resolved now in the results of those
  resolved when it was scheduled. With more of them than results the index is out
  of range, and the server dies, at every start (`Panic`);
* an operation that ends between the storing of the compose file and the guard
  puts the old file back, which is then deployed in the name of the build;
* after a crash an operation is Failed, which is said to mean that all targets
  failed (`portainer.go:2976`), although some had succeeded (`RecoverOperation`);
* with a failed and a stopped target and none running an instance is Partial,
  where the comment on the status (`portainer.go:2948`) says Failed
  (`AggregateStatus`);
* a cancellation after a build is stored and before its cancel function is
  registered reaches nobody, and the build goes on (`SignalCancel` between
  `CreateBuild` and `LaunchBuild`);
* a build and its targets are Deployed, "the scheduled deploy completed", when
  its operation is accepted (`FinishBuild` before `EndOperation`);
* a build writes back the instance as it was when it was scheduled and undoes
  later edits, as `finalizeOperation` does (`StoreCompose`);
* a comment (`service.go:489`) says that pulls are bounded by the request
  context; the context is the goroutine's and has no deadline (`PullsReturn`).

Git stacks:

* a redeployment clones before it asks for `LatestCommitID`: a commit pushed in
  between is recorded as deployed and never is, since polls compare the recorded
  commit alone (`pushed` excludes it);
* a crash, or a failure whose reverting fails, after `Persist` leaves the new
  commit recorded and the old one running (`disturbed`);
* webhook calls have no single flight: two that overlap can leave a commit
  recorded that does not run. With `Webhook` set to `TRUE`, `NothingSkipped` is
  violated;
* a deletion that fails half way leaves an Active stack with half its containers;
  a poll under way during a deletion writes the record back; one under way
  during a stop starts the containers again;
* a crash between the undeployment of a stop and its record leaves an Active stack
  without containers; a change of settings writes back the status it has read;
* an error in reading the registries leaves the stack in Deploying;
* a redeployment that failed or was cut short after it recorded its commit is not
  repeated by the polls, which compare the recorded commit alone: the stack stays in
  Error at the latest commit until somebody redeploys it (`CommitsArrive`);
* a change of settings during a forced poll writes back the status it read, so that
  a stack whose deployment fails meanwhile may say Active (`disturbed`).

Polling:

* `Reconcile` takes the lock after its reads (`scheduler.go:105`), so that two of
  them that cross may apply the older read last: a source polled after its
  deletion, or not at all, until something reconciles it (`behind`);
* no `Reconcile` follows a failed creation of a stack (`director.go:136`) or the
  deletion of a namespace, and a change of URL reconciles the old source only
  (`stack_update_git.go:247`);
* a source deleted between the validation of a stack's new source and its
  recording leaves the stack with a source that is gone, which a comment excludes
  (`source_artifact.go:292`).

Container replacement:

* neither replacement asks whether the old container has `AutoRemove`. The daemon
  removes such a container at its stop; the renaming is then refused, the undoing
  finds nothing, and no container is left, without any fault or second actor
  (`KeptAtStop` excludes it; `container.go:188`, `toRequest.ts:21`). The views hide
  Recreate and Duplicate for these containers (`useCanRecreateContainer.ts:10`), but
  the handler (`recreate.go:50`) and a form submitted with the name of one do not ask;
* on any failure "the old container" is said to get its original name back
  (`useCreateMutation.tsx:168`). It gets the name typed in the form, and stays
  stopped; a failure in the settings or the networks leaves both containers
  (`RollbackRestores` says what does hold);
* a second attempt after that stops the successor, and then cannot rename it;
* two tabs, or a tab and a recreation, can leave nothing running without any
  fault; a server that dies within `Recreate` undoes nothing at its next start.

Tunnels:

* the loop closes a tunnel that a request used after the loop decided it was idle
  (`service.go:284`), although a use is said to avoid the timeout
  (`tunnel.go:182`);
* a request that waited for the tunnel dials the port it read before, which may be
  another environment's by then.

Chats:

* stopping or clearing a chat while it streams shows an error, the abort's;
* a connection of an earlier chat that breaks late resets the streaming flag of
  the current one (`stray`);
* a body that ends without a last event, as after a panic that
  `panic_logger.go:13` recovers, leaves the panel waiting, since `streamChat` returns
  and nothing resets `isStreaming`; Stop then shows the part that came as an answer
  without an error (`Panics`, `Deserted`).

## 5. The proofs

All of them hold for every value of the constants, and rest on the named
assumptions of the modules only, which TLC evaluates in their runs:

* `ServiceOperations`: the bounds are numbers (`BoundsAssumption`), and the
  workload is made of what the types allow (`WorkloadAssumption`);
* `SourcePolling`: `ConstantsAssumption`; `GitStacks`, `Tunnels` and `AIChat`: the
  bounds are numbers and the sets what they are meant to be;
* `ContainerReplacement`: the bounds are numbers (`BoundsAssumption`), and a browser
  tab is not a request that the server handles (`ActorsAssumption`);
* `ScheduledBuilds`: none.

Five theorems have a premise of their own, which says for which workloads they
hold; each is what the run of the property chooses, since outside of it the
property is not meant to hold:

* `JournalKept`: no client deletes an instance, which deletes its operations too;
* `NoBuildForgotten`: nobody cancels or deletes (`NoWithdrawals`);
* `ResultsFollowStatus` and `NothingUnpulled`: targets stay as they are, for nobody
  edits or cancels and groups keep their members (`Steady`). With edits the index of
  results by target is off, a hazard listed in `PROJECT.json`;
* `RecordedCommitsRun`: no webhook (`~Webhook`).

* `TablesTheorems`: what `Put`, `Drop` and `EXCEPT` do to a table.
* `ServiceOperationsProofs`: every safety property of `ops_results`, `ops_group`
  and `ops_live` (`GuardExact`), each layer used by the next.
  `Spec => []TypeOK` (`TypeOKCorrect`) and `Spec => []WorkersOwnTheirStack`
  (`WorkersOwn`). `TypeOK` alone is not
  inductive: `SaveStack` writes `stacks[k]` for the stack that a worker holds,
  which is a record only if `k` is present. So the invariant carries
  `WorkersOwnTheirStack`; this one in turn needs `Allocated`, that identifiers
  not yet given out are free, or else `CreateStackRecord` could overwrite the
  stack in another worker's hand. One lemma for each action, and for the
  goroutine's steps three lemmas on how a record moves (`GotoMove`,
  `TakeStackMove`, `ReportType`).
  `Spec => []GuardExact` (`GuardIsExact`) speaks of the set of holders; `GuardInv`
  says the same of pairs of holders.
  Only four steps take, hand over or release the guard, each with its lemma;
  all others are shown quiet (`QuietGuard`). `Launch` hands it over and needs
  `Allocated`, because the new goroutine must not replace an old one.
  `RecordInv` says what a goroutine's own record of its operation is at each place
  of each worker (`RunnerInv`), that the bucket holds the same, and that a dead
  process has neither goroutine nor guard. From it follow `RunningIsOwned` (`RunningOwned`), `FailFast`
  (`SequenceFailsFast`: in sequence at most one target is running or has failed) and `ParallelReportsAll` (`BuildReportsAll`).
  `Spec => KeepsJournal` (`JournalKept`) is the refinement of `OperationJournal`, step by
  step: `Launch` is `Begin`, a report is `Progress`, the final write is `Finish`, the
  recovery after a restart is `Interrupt`, and everything else stutters. That the
  bucket's record is the goroutine's is `RecordInv`; that no other goroutine writes
  it is the guard.
  `StackInv` joins the stacks to the workers: two stacks of one instance on one
  environment do not exist, nor an own stack beside a foreign one of the same name
  (`NamesInv`), and each worker's stack and containers are as far as its place says
  (`WorkInv`). A step touches only what belongs to its instance and environment
  (`TouchesOnly`), and the guard says that no other worker has the same. Hence
  `SuccessIsReal` (`SuccessHolds`), `OneStackPerTarget` (`OneStackEach`) and
  `ForeignUntouched` (`ForeignStays`).
* `ScheduledBuildsProofs`: all that its runs check but liveness.
  `Spec => EndedIsFinal` (`EndedBuildsStay`). A record
  is written by its goroutine or by a handler, and `Quiet` says there is none;
  what is left is that `CreateBuild` writes a fresh record and that recovery
  takes only open builds. The invariant is `FinalInv`: identifiers not given out
  are free (`Allocated`), and while builds are recovered no handler runs and
  what is still to be recovered is open and has no goroutine (`RecoveryAlone`).
  `NoWithdrawals => (Spec => []UnfinishedIsOwned)` (`NoBuildForgotten`) for
  workloads in which nobody cancels or deletes: besides `Allocated`, the
  invariant `OwnedInv` says that no context is cancelled and every
  instance of a build exists, so that no goroutine returns without a last word
  and the recovery passes over no build.
  `Spec => []TypeOK` (`BuildsTyped`) needs that the targets of a build can be listed
  (`Listed`): a finite set of numbers has a least element, and so an order.
  `Steady => (Spec => []ResultsAgree)` (`ResultsFollowStatus`) and
  `Steady => (Spec => []DeployedWherePulled)` (`NothingUnpulled`): with the targets `T`
  and what they resolve to `R` fixed for ever, `AgreeInv(T, R)` says of every record,
  of every goroutine's copy of it, of every call and of every operation launched that
  its results are listed by `R` and are what its status and place allow (`Agrees`,
  `Progress`), and that an operation is on environments whose image is ready.
* `ContainerReplacementProofs`: all that its run checks, for any number of
  replacements at a time. `KeptAtStop` is part of the properties, as they are
  checked: `doomed` only grows (`NextTags`), so while it is empty the daemon has
  removed nothing (`AutoKeeps`), and each invariant below is shown under that
  premise. One lemma for each step of a replacement says what
  it does to the replacement (`SagaShape`), to the containers (`TableShape`), to what
  runs (`ServeShape`), to a replacement left alone (`Tracks`) and to another that it
  meets (`Meets`); the invariants follow from these and open no step again.
  `Spec => []TypeOK` (`ReplacementTyped`): `FreshInv` counts identifiers, for those used
  and those that replacements under way will still take together are as many as were
  begun; and a new container is nobody else's new one and younger than its old one.
  `Spec => []ServiceSurvives` (`ContainerSurvives`) and `Spec => []SomeoneServes`
  (`RecreationServes`) from `StandsInv`: there is a container that has run, that
  nobody may still undo, and that is as young as every new container that took over
  (`Safe`). Old containers are removed only by those that took over, and are older
  than what took over; so it is not the one removed, or there is a younger one that
  stands as well. While nothing has failed it runs, or who stopped it still owes a
  container that runs (`Served`).
  `Spec => []RollbackRestores` (`FailureRestores`) from `TrackInv`: no two containers have
  one name (`Unique`), and a lone replacement has the containers where its place says
  (`Where`), up to the last call of the undoing.
  `Spec => OldGivesWay` (`OldIsReplaced`): the property speaks of the first two
  replacements (`begun <= 2`), of which no third is at work (`FewInv`). As long as the
  old container of one is there, its new one has the name and the networks
  (`Successor`), and the other, if it works on that new one, waits before its renaming
  or undoes (`GiveInv`, `Waits`): it cannot rename it, since the old container has the
  name it would need, and what else it does there is gentle (`Gently`). That it began
  there knowing the name comes from `TrackInv`, for the first was alone until then.
* `SourcePollingProofs`: all that its run checks.
  `Spec => []JobsAreTracked` (`JobsTracked`): the map and the cron scheduler
  agree, because a new entry has a new identifier (`NewIdIsNew`) and so no two
  jobs share one (`DistinctIds`). `Spec => TimersGoOn` (`TimersKept`) holds of each step
  by itself. `Spec => []PollingMatches` (`PollingIsRight`) speaks of handlers at
  rest and is far from inductive: `MatchInv` says of every source, at any moment,
  that if it is not left behind, then either some handler has still to
  reconcile it (`Pending`) or its job is the right one (`Matches`), and that what
  a handler has read of a source that has not changed since is still so
  (`Fresh`). Each handler that changes a source makes it pending; `Reconcile`
  applies a fresh read, or leaves the source behind.

* `GitStacksProofs`: the three invariants of its run, in three layers, each used
  by the next.
  `Spec => []TypeOK` (`GitTypes`): `TypeInv` adds that a worker's task and place
  belong together (`Fits`) and what it holds at that place (`Holds`): a commit that
  is written back has been read, and none is newer than the latest.
  `Spec => []StoppedIsDown` (`StoppedStacksAreDown`) is far from inductive, since it
  speaks of stacks at rest. `CalmInv` says what holds at any moment while no request
  has met another worker: workers at the same time are polls and at most one change
  of settings (`Apart`), each is in line with the stack's status (`StackFits`: a poll
  or a stop works on a stack that is up), a removal that succeeded left no
  containers (`Taken`), and a stopped stack is down or being started.
  `~Webhook => (Spec => []NothingSkipped)` (`RecordedCommitsRun`): a single poll
  flies (`OneFlight`), and it goes forward (`FlightForward`): what it replaces is
  not newer than what it brings, which is not newer than what is in the directory, nor,
  once deployed, than what runs. A flight that deploys the recorded commit again meets no change of
  settings, and the stack is not Active until it ends (`AgainForward`).
  Nobody writes back a commit newer than the recorded
  one (`WritesBack`), the directory is never behind the record (`FilesForward`), and so
  an active stack recorded at the latest commit runs it (`Runs`). The lemmas
  `AloneCalm` and `AloneForward` carry the requests, which are alone at work.
* `TunnelsProofs`: `Spec => []TypeOK` (`TunnelTypes`),
  `Spec => []CacheIsCurrent` (`CachedResponsesAreCurrent`) and
  `Spec => []ProxiesFollowTunnels` (`ProxiesLead`). A response is read from the tunnel
  first and cached later, and a proxy reads its port before it is registered. So
  `CacheInv` and `ProxyInv` say of what is in preparation what the property says of
  what is stored: a step that changes what `Config` would answer clears the
  cached response and marks the prepared one as crossed, any other keeps both
  (`SameConfigKeeps`), and a tunnel that closes is marked until its proxies are gone, and those being made
  as overtaken.
* `AIChatProofs`: `Spec => []TypeOK` (`ChatTypes`),
  `Spec => []StreamsAreStoppable` (`StopReachesStreams`) and
  `Spec => []AnswersAreTheirOwn` (`AnswersStayTheirOwn`), and
  `Spec => []ToolsShownAsTheyEnded` (`ToolsShownRight`) and
  `Spec => []NoErrorMeansWhole` (`CompleteAnswers`). `TypeInv` adds that a round has
  calls left while one is to begin or executed. `StreamInv` says what browser and
  server know of each other (`Turn`), what is on the way (`OnTheWay`: one final event
  and then the end, both last, and a reader that has read the former has only the
  latter to come), and, unless a connection broke late, that only the current chat
  streams and that the store says so (`StoreFollows`). Hence no token is read by a
  reader that outlived its last event. `AnswerInv` needs the wire too: the tokens on
  the way number on from those of the answer, without a gap, up to what the server
  has sent (`Numbered`); reading one (`NumberedRead`) and sending one
  (`NumberedSend`) keep it so.
  `ToolInv` does the same for the calls of tools: the events on the way begin and
  end calls that count on from those that the panel shows (`Script`), so that an end
  finds its own call, whatever the names, and has what the tool answered. When the
  last event is read, nothing is left on the way but the end of the stream, so an
  answer without an error is whole. After a panic only the end is on the way, and
  what reads it is `silent`: it streams for the store, which still holds its
  controller, and for `StreamInv`, but `NoErrorMeansWhole` does not speak of it.

Only model-checked: the liveness properties
(`ImplementsJournal`, whose safety part is `KeepsJournal`, `GuardReleased`,
`BuildsFinish`, `CommitsArrive`, `OpenTunnelsAreHeard`, `IdleTunnelsClose`,
`StreamingEnds`). Liveness under fairness and `ENABLED`,
induction over data and `RECURSIVE` operators are out of the prover's reach; no
module declares one of the latter.

## 6. What is not modelled

`PROJECT.json` gives the reason at each component; in short:

* of the plan: edge stacks, for their size; pending actions, the offline gate and
  the admin monitor, whose faults are a line or two each and listed as hazards;
  the creation of stacks, Kubernetes stacks, and the stack handlers on the stacks
  of service instances;
* inside modelled components: chisel's users, of which one stays behind for each
  closed tunnel (`tunnel.go:100`), `keepTunnelAlive`, and the search for a port
  when all are used, which has no end (`tunnel.go:195`); instances that list an
  environment twice; the assembly of the model's stream and the tools
  themselves; pulling images for a replacement; ticks of a source that overlap,
  which cron allows (`scheduler.go:33`), are the overlapping polls of
  `GitStacks`;
* request-local work (access control, registry and engine proxies), one-shot code
  (migrations), external tools behind their interfaces, and the rest of the
  frontend, which is views and records with no protocol of their own. This is
  most of the repository by size.
