----------------------------- MODULE GitStacks -----------------------------
(***************************************************************************)
(* A compose stack deployed from a git repository: the polls of its source *)
(* (or its webhook), which deploy new commits, and what users ask of it    *)
(* meanwhile (redeploy, stop, start, change its settings, delete it).      *)
(* Each of them reads the stack when it begins and writes its whole copy   *)
(* back when it ends.  The commit deployed is recorded apart from the      *)
(* stack, as the Hash of its artifact.  Stacks made from an app template,  *)
(* which polls leave alone (deploy.go:155), are not modelled.              *)
(***************************************************************************)
EXTENDS Integers, FiniteSets

CONSTANTS Polls,        \* polls of the source, or calls of the webhook
          Clients,      \* requests
          Requests,     \* what they ask for
          Webhook,      \* the stack is updated by a webhook
          MayForce,     \* its AutoUpdate may ask for ForceUpdate
          MaxCommits,   \* commits of the repository
          MaxRestarts   \* crashes of the server

Kinds == {"redeploy", "stop", "start", "settings", "delete"}

ASSUME ConstantsAssumption ==
    /\ MaxCommits \in Nat \ {0} /\ MaxRestarts \in Nat
    /\ Webhook \in BOOLEAN /\ MayForce \in BOOLEAN /\ Requests \subseteq Kinds
    /\ Polls \cap Clients = {}

VARIABLES head,         \* the latest commit of the repository
          stack,        \* the stack's record
          hash,         \* Hash of its artifact, NoCommit without the workflow
          files,        \* the commit in its directory, NoCommit if unusable
          containers,   \* the commit its containers run
          workers,      \* the polls and the requests
          inFlight,     \* singleflightGroup runs a poll
          restarts,     \* crashes so far
          disturbed,    \* for the properties: a request met another worker, or a stop,
                        \* start or deletion was cut short
          pushed        \* a commit arrived between clone and LatestCommitID

vars == <<head, stack, hash, files, containers, workers, inFlight, restarts, disturbed, pushed>>

Workers == Polls \cup Clients
NoCommit == 0
Broken == -1
Commits == 1..MaxCommits

\* A record is told by its Status; Retrying is Deploying with Error as the
\* DeploymentStartStatus, which is read for nothing else.
Absent == "Absent"
Stack == {"Active", "Inactive", "Deploying", "Retrying", "Error"}
InProgress == {"Deploying", "Retrying"}

\* What a worker holds: the stack as it read it, as long as it may write it back,
\* the hash read and the new one, whether its work on the environment succeeded.
Worker == [task: Kinds \cup {"none", "poll"},
           pc: {"idle", "load", "fetch", "clone", "hash", "mark", "persist",
                "check", "undeploy", "failed", "deploy", "end", "revert"},
           stack: Stack \cup {Absent}, old: Commits \cup {NoCommit},
           new: Commits \cup {NoCommit}, ok: BOOLEAN]
Idle == [task |-> "none", pc |-> "idle", stack |-> Absent,
         old |-> NoCommit, new |-> NoCommit, ok |-> TRUE]

TypeOK ==
    /\ head \in Commits
    /\ stack \in Stack \cup {Absent}
    /\ hash \in Commits \cup {NoCommit} /\ files \in Commits \cup {NoCommit}
    /\ containers \in Commits \cup {NoCommit, Broken}
    /\ workers \in [Workers -> Worker]
    /\ \A w \in Workers :
          /\ workers[w].pc \in {"mark", "persist"} \/ workers[w].task = "settings"
               => workers[w].stack \in Stack
          /\ workers[w].pc \in {"fetch", "persist"} => workers[w].old \in Commits
    /\ inFlight \in BOOLEAN /\ disturbed \in BOOLEAN /\ pushed \in BOOLEAN
    /\ restarts \in 0..MaxRestarts

\* The stack was created from the first commit.
Init ==
    /\ head = 1 /\ hash = 1 /\ files = 1 /\ containers = 1
    /\ stack = "Active"
    /\ workers = [w \in Workers |-> Idle]
    /\ inFlight = FALSE /\ restarts = 0
    /\ disturbed = FALSE /\ pushed = FALSE

-----------------------------------------------------------------------------
(* The record, the directory and the environment.                          *)

Goes(w, pc) == workers' = [workers EXCEPT ![w].pc = pc]
GoesOk(w, pc, ok) == workers' = [workers EXCEPT ![w].pc = pc, ![w].ok = ok]
Ends(w) == workers' = [workers EXCEPT ![w] = Idle]
At(w, task, pc) == workers[w].task = task /\ workers[w].pc = pc

\* Update is a put: a deleted record comes back.
Update(s) == stack' = s

Deploying(s) == IF s = "Error" THEN "Retrying" ELSE "Deploying"
DeploymentResult(ok) == IF ok THEN "Active" ELSE "Error"
UndeploymentResult(ok) == IF ok THEN "Inactive" ELSE "Error"

WorkflowExists == hash # NoCommit

\* Deployers read the directory; a failure may leave half of the containers.
DeployFiles(ok) ==
    IF ok THEN files # NoCommit /\ containers' = files
          ELSE containers' \in {containers, Broken}

Undeploy(ok) ==
    IF ok THEN containers' = NoCommit ELSE containers' \in {containers, Broken}

\* A poll that deploys the recorded commit again.
Forced(v) ==
    /\ workers[v].task = "poll"
    /\ workers[v].new = workers[v].old /\ workers[v].new # NoCommit

\* Two workers meet; a poll may meet another poll or, unless it is forced, a
\* change of settings.
Harmless == {{"poll"}, {"poll", "settings"}}
Meets(w, task) ==
    \E v \in Workers \ {w} :
        /\ workers[v] # Idle
        /\ {task, workers[v].task} \in Harmless => task = "settings" /\ Forced(v)

\* old is the hash read with the stack; a poll reads it later.
Begin(w, task, pc, copy, old) ==
    /\ workers[w] = Idle
    /\ workers' = [workers EXCEPT ![w] = [task |-> task, pc |-> pc, stack |-> copy,
                                          old |-> old, new |-> NoCommit, ok |-> TRUE]]
    /\ disturbed' = (disturbed \/ Meets(w, task))

-----------------------------------------------------------------------------
(* A poll: RedeployWhenChanged.                                            *)

Release(w) == inFlight' = (inFlight /\ Webhook)

BeginPoll(w) ==
    /\ stack \notin {Absent, "Inactive"}
    /\ Begin(w, "poll", "load", stack, NoCommit)
    /\ UNCHANGED <<head, stack, hash, files, containers, inFlight, restarts, pushed>>

\* The function of another poll of the stack is running: this one gets its result.
JoinPoll(w) ==
    /\ At(w, "poll", "load") /\ inFlight
    /\ Ends(w)
    /\ UNCHANGED <<head, stack, hash, files, containers, inFlight, restarts, disturbed, pushed>>

\* A faulty form: polls of one stack run side by side.
LoadGit_Together(w) ==
    /\ At(w, "poll", "load")
    /\ \/ Ends(w) /\ UNCHANGED inFlight
       \/ /\ WorkflowExists
          /\ workers' = [workers EXCEPT ![w].pc = "fetch", ![w].old = hash]
          /\ inFlight' = ~Webhook
    /\ UNCHANGED <<head, stack, hash, files, containers, restarts, disturbed, pushed>>

\* A faulty form: a stack whose workflow is gone is polled.
LoadGit_WithoutWorkflow(w) ==
    /\ At(w, "poll", "load") /\ ~inFlight
    /\ \/ Ends(w) /\ UNCHANGED inFlight
       \/ /\ workers' = [workers EXCEPT ![w].pc = "fetch", ![w].old = hash]
          /\ inFlight' = ~Webhook
    /\ UNCHANGED <<head, stack, hash, files, containers, restarts, disturbed, pushed>>

\* The environment may be offline, and the workflow gone.
LoadGit(w) ==
    /\ At(w, "poll", "load") /\ ~inFlight
    /\ \/ Ends(w) /\ UNCHANGED inFlight
       \/ /\ WorkflowExists
          /\ workers' = [workers EXCEPT ![w].pc = "fetch", ![w].old = hash]
          /\ inFlight' = ~Webhook
    /\ UNCHANGED <<head, stack, hash, files, containers, restarts, disturbed, pushed>>

\* LatestCommitID; an error of it, or the same commit, ends the poll, unless the
\* stack asks for ForceUpdate: then what is there is deployed again.
Fetch(w) ==
    /\ At(w, "poll", "fetch")
    /\ \/ Ends(w) /\ Release(w) /\ UNCHANGED disturbed
       \/ /\ head # workers[w].old
          /\ workers' = [workers EXCEPT ![w].pc = "clone", ![w].new = head]
          /\ UNCHANGED <<inFlight, disturbed>>
       \/ /\ MayForce /\ head = workers[w].old /\ WorkflowExists
          /\ workers' = [workers EXCEPT ![w].pc = "mark", ![w].new = head]
          /\ disturbed' = (disturbed \/ \E v \in Workers : workers[v].task = "settings")
          /\ UNCHANGED inFlight
    /\ UNCHANGED <<head, stack, hash, files, containers, restarts, pushed>>

\* The clone is made into the directory itself.  SaveStackStatus needs the workflow.
Clone(w) ==
    /\ At(w, "poll", "clone")
    /\ \/ files' \in {files, NoCommit} /\ Ends(w) /\ Release(w)
       \/ /\ files' = head
          /\ IF WorkflowExists THEN Goes(w, "mark") /\ UNCHANGED inFlight
                               ELSE Ends(w) /\ Release(w)
    /\ UNCHANGED <<head, stack, hash, containers, restarts, disturbed, pushed>>

\* Registries are read next; an error there ends the poll.
Mark(w) ==
    /\ At(w, "poll", "mark")
    /\ Update(Deploying(workers[w].stack))
    /\ \/ /\ workers' = [workers EXCEPT ![w].pc = "deploy", ![w].stack = Absent]
          /\ UNCHANGED inFlight
       \/ Ends(w) /\ Release(w)
    /\ UNCHANGED <<head, hash, files, containers, restarts, disturbed, pushed>>

Deploy(w) ==
    /\ At(w, "poll", "deploy")
    /\ \E ok \in BOOLEAN : DeployFiles(ok) /\ GoesOk(w, "end", ok)
    /\ UNCHANGED <<head, stack, hash, files, inFlight, restarts, disturbed, pushed>>

\* The transaction that records a success needs the workflow, or all of it fails.
Finish(w) ==
    /\ At(w, "poll", "end")
    /\ LET ok == workers[w].ok IN
       IF ok /\ ~WorkflowExists
         THEN UNCHANGED <<stack, hash>>
         ELSE /\ Update(DeploymentResult(ok))
              /\ hash' = IF ok THEN workers[w].new ELSE hash
    /\ Ends(w) /\ Release(w)
    /\ UNCHANGED <<head, files, containers, restarts, disturbed, pushed>>

-----------------------------------------------------------------------------
(* Redeploy: stackGitRedeploy, then stackDeploy in a goroutine.            *)

BeginRedeploy(c) ==
    /\ "redeploy" \in Requests
    /\ stack \notin {Absent} \cup InProgress /\ WorkflowExists
    /\ Begin(c, "redeploy", "clone", stack, hash)
    /\ UNCHANGED <<head, stack, hash, files, containers, inFlight, restarts, pushed>>

\* CloneWithBackup puts the directory back when the clone fails.
CloneAgain(c) ==
    /\ At(c, "redeploy", "clone")
    /\ \/ Ends(c) /\ UNCHANGED files
       \/ files' = head /\ Goes(c, "hash")
    /\ UNCHANGED <<head, stack, hash, containers, inFlight, restarts, disturbed, pushed>>

\* LatestCommitID, asked after the clone; an error leaves the new directory.
ReadHash(c) ==
    /\ At(c, "redeploy", "hash")
    /\ \/ Ends(c)
       \/ workers' = [workers EXCEPT ![c].pc = "persist", ![c].new = head,
                                     ![c].stack = Deploying(@)]
    /\ UNCHANGED <<head, stack, hash, files, containers, inFlight, restarts, disturbed, pushed>>

\* The stack and the hash are stored, then the goroutine begins.
Persist(c) ==
    /\ At(c, "redeploy", "persist")
    /\ IF WorkflowExists
         THEN /\ Update(workers[c].stack)
              /\ hash' = workers[c].new
              /\ workers' = [workers EXCEPT ![c].pc = "check", ![c].stack = Absent]
         ELSE Ends(c) /\ UNCHANGED <<stack, hash>>
    /\ UNCHANGED <<head, files, containers, inFlight, restarts, disturbed, pushed>>

\* The stack is read again: one that was in error is undeployed first.
CheckFirst(c) ==
    /\ At(c, "redeploy", "check")
    /\ \/ stack = Absent /\ Ends(c)
       \/ stack \notin {Absent, "Retrying"} /\ Goes(c, "deploy")
       \/ stack = "Retrying" /\ Goes(c, "undeploy")
    /\ UNCHANGED <<head, stack, hash, files, containers, inFlight, restarts, disturbed, pushed>>

UndeployFirst(c) ==
    /\ At(c, "redeploy", "undeploy")
    /\ \E ok \in BOOLEAN : Undeploy(ok) /\ Goes(c, IF ok THEN "deploy" ELSE "failed")
    /\ UNCHANGED <<head, stack, hash, files, inFlight, restarts, disturbed, pushed>>

\* A failure is stored, and the deployment tried all the same.
StoreFailure(c) ==
    /\ At(c, "redeploy", "failed")
    /\ IF stack = Absent
         THEN Ends(c) /\ UNCHANGED stack
         ELSE Update(UndeploymentResult(FALSE)) /\ Goes(c, "deploy")
    /\ UNCHANGED <<head, hash, files, containers, inFlight, restarts, disturbed, pushed>>

DeployAgain(c) ==
    /\ At(c, "redeploy", "deploy")
    /\ \E ok \in BOOLEAN : DeployFiles(ok) /\ GoesOk(c, "end", ok)
    /\ UNCHANGED <<head, stack, hash, files, inFlight, restarts, disturbed, pushed>>

EndRedeploy(c) ==
    /\ At(c, "redeploy", "end")
    /\ IF stack = Absent
         THEN Ends(c) /\ UNCHANGED stack
         ELSE /\ Update(DeploymentResult(workers[c].ok))
              /\ IF workers[c].ok THEN Ends(c) ELSE Goes(c, "revert")
    /\ UNCHANGED <<head, hash, files, containers, inFlight, restarts, disturbed, pushed>>

\* postDeploy of a failure: the hash as it was, if the stack is still there.
RevertHash(c) ==
    /\ At(c, "redeploy", "revert")
    /\ hash' = IF stack # Absent /\ WorkflowExists THEN workers[c].old ELSE hash
    /\ Ends(c)
    /\ UNCHANGED <<head, stack, files, containers, inFlight, restarts, disturbed, pushed>>

-----------------------------------------------------------------------------
(* The other requests.                                                     *)

BeginStop(c) ==
    /\ "stop" \in Requests
    /\ stack \notin {Absent, "Inactive"} \cup InProgress
    /\ Begin(c, "stop", "undeploy", Absent, NoCommit)
    /\ UNCHANGED <<head, stack, hash, files, containers, inFlight, restarts, pushed>>

BeginStart(c) ==
    /\ "start" \in Requests
    /\ stack = "Inactive"
    /\ Begin(c, "start", "deploy", Absent, NoCommit)
    /\ UNCHANGED <<head, stack, hash, files, containers, inFlight, restarts, pushed>>

\* Deleting asks nothing of the status.
BeginDelete(c) ==
    /\ "delete" \in Requests
    /\ stack # Absent
    /\ Begin(c, "delete", "undeploy", Absent, NoCommit)
    /\ UNCHANGED <<head, stack, hash, files, containers, inFlight, restarts, pushed>>

BeginSettings(c) ==
    /\ "settings" \in Requests
    /\ stack # Absent
    /\ Begin(c, "settings", "load", stack, NoCommit)
    /\ UNCHANGED <<head, stack, hash, files, containers, inFlight, restarts, pushed>>

\* The git configuration is read apart from the stack.
LoadSettings(c) ==
    /\ At(c, "settings", "load")
    /\ \/ ~WorkflowExists /\ Ends(c)
       \/ /\ WorkflowExists
          /\ workers' = [workers EXCEPT ![c].pc = "end", ![c].old = hash]
    /\ UNCHANGED <<head, stack, hash, files, containers, inFlight, restarts, disturbed, pushed>>

\* A failure to remove the resources ends the deletion.
Take(c) ==
    /\ workers[c].task \in {"stop", "delete"} /\ workers[c].pc = "undeploy"
    /\ \E ok \in BOOLEAN :
        /\ Undeploy(ok)
        /\ IF ok \/ workers[c].task = "stop"
             THEN GoesOk(c, "end", ok) /\ UNCHANGED disturbed
             ELSE Ends(c) /\ disturbed' = TRUE
    /\ UNCHANGED <<head, stack, hash, files, inFlight, restarts, pushed>>

Bring(c) ==
    /\ At(c, "start", "deploy")
    /\ \E ok \in BOOLEAN : DeployFiles(ok) /\ GoesOk(c, "end", ok)
    /\ UNCHANGED <<head, stack, hash, files, inFlight, restarts, disturbed, pushed>>

\* A faulty form: a stop that failed is stored like one that worked.
EndStop_AlwaysInactive(c) ==
    /\ At(c, "stop", "end")
    /\ IF workers[c].ok /\ ~WorkflowExists
         THEN UNCHANGED stack
         ELSE Update(UndeploymentResult(TRUE))
    /\ Ends(c)
    /\ UNCHANGED <<head, hash, files, containers, inFlight, restarts, disturbed, pushed>>

\* The answer shows the git settings: without the workflow a success is not stored.
EndStop(c) ==
    /\ At(c, "stop", "end")
    /\ IF workers[c].ok /\ ~WorkflowExists
         THEN UNCHANGED stack
         ELSE Update(UndeploymentResult(workers[c].ok))
    /\ Ends(c)
    /\ UNCHANGED <<head, hash, files, containers, inFlight, restarts, disturbed, pushed>>

EndStart(c) ==
    /\ At(c, "start", "end")
    /\ IF workers[c].ok /\ ~WorkflowExists
         THEN UNCHANGED stack
         ELSE Update(DeploymentResult(workers[c].ok))
    /\ Ends(c)
    /\ UNCHANGED <<head, hash, files, containers, inFlight, restarts, disturbed, pushed>>

\* The whole stack and the whole git configuration, as they were read.
EndSettings(c) ==
    /\ At(c, "settings", "end")
    /\ IF WorkflowExists
         THEN Update(workers[c].stack) /\ hash' = workers[c].old
         ELSE UNCHANGED <<stack, hash>>
    /\ Ends(c)
    /\ UNCHANGED <<head, files, containers, inFlight, restarts, disturbed, pushed>>

EndDelete(c) ==
    /\ At(c, "delete", "end")
    /\ stack' = Absent /\ hash' = NoCommit /\ files' = NoCommit
    /\ Ends(c)
    /\ UNCHANGED <<head, containers, inFlight, restarts, disturbed, pushed>>

-----------------------------------------------------------------------------
(* The repository, and a crash of the server with its restart.             *)

Push ==
    /\ head < MaxCommits
    /\ head' = head + 1
    /\ pushed' = (pushed \/ \E c \in Clients : At(c, "redeploy", "hash"))
    /\ UNCHANGED <<stack, hash, files, containers, workers, inFlight, restarts, disturbed>>

Interrupted == {w \in Workers : workers[w] # Idle}

\* A faulty form: a stack whose deployment was cut short keeps its status.
Restart_KeepsStatus ==
    /\ restarts < MaxRestarts
    /\ restarts' = restarts + 1
    /\ files' \in IF \E w \in Workers : workers[w].pc = "clone"
                    THEN {files, NoCommit} ELSE {files}
    /\ workers' = [w \in Workers |-> Idle]
    /\ inFlight' = FALSE
    /\ disturbed' = (disturbed \/ \E w \in Interrupted :
                                    workers[w].task \notin {"poll", "settings", "redeploy"})
    /\ UNCHANGED <<head, stack, hash, containers, pushed>>

\* recoverStaleDeployingStacks runs before anything else.  A clone may be half made.
Restart ==
    /\ restarts < MaxRestarts
    /\ restarts' = restarts + 1
    /\ files' \in IF \E w \in Workers : workers[w].pc = "clone"
                    THEN {files, NoCommit} ELSE {files}
    /\ stack' = IF stack \in InProgress THEN "Error" ELSE stack
    /\ workers' = [w \in Workers |-> Idle]
    /\ inFlight' = FALSE
    /\ disturbed' = (disturbed \/ \E w \in Interrupted :
                                    workers[w].task \notin {"poll", "settings", "redeploy"})
    /\ UNCHANGED <<head, hash, containers, pushed>>

Poll(w) ==
    BeginPoll(w) \/ JoinPoll(w) \/ LoadGit(w) \/ Fetch(w) \/ Clone(w) \/ Mark(w)
        \/ Deploy(w) \/ Finish(w)

Answer(c) ==
    \/ CloneAgain(c) \/ ReadHash(c) \/ Persist(c) \/ CheckFirst(c) \/ UndeployFirst(c)
    \/ StoreFailure(c) \/ DeployAgain(c) \/ EndRedeploy(c) \/ RevertHash(c)
    \/ Take(c) \/ Bring(c) \/ EndStop(c) \/ EndStart(c)
    \/ LoadSettings(c) \/ EndSettings(c) \/ EndDelete(c)

Ask(c) ==
    BeginRedeploy(c) \/ BeginStop(c) \/ BeginStart(c) \/ BeginDelete(c) \/ BeginSettings(c)

Next ==
    \/ \E w \in Polls : Poll(w)
    \/ \E c \in Clients : Answer(c) \/ Ask(c)
    \/ Push \/ Restart

Spec == Init /\ [][Next]_vars

(* The scheduler polls as long as the server is up, a request that began   *)
(* is answered, and whatever can fail in a poll does not fail every time.  *)
GoesOn(w) == workers'[w] # Idle

Fairness ==
    /\ \A w \in Polls : WF_vars(Poll(w))
    /\ \A c \in Clients : WF_vars(Answer(c))
    /\ SF_vars(\E w \in Polls : LoadGit(w) /\ GoesOn(w))
    /\ SF_vars(\E w \in Polls : Fetch(w) /\ GoesOn(w))
    /\ SF_vars(\E w \in Polls : Clone(w) /\ GoesOn(w))
    /\ SF_vars(\E w \in Polls : Mark(w) /\ GoesOn(w))
    /\ SF_vars(\E w \in Polls : Deploy(w) /\ workers'[w].ok)

FairSpec == Spec /\ Fairness

-----------------------------------------------------------------------------
AtRest == \A w \in Workers : workers[w] = Idle

(* When nothing is going on and no request met another, an active stack    *)
(* whose recorded commit is the latest runs that commit: polls compare     *)
(* these two only, and would never deploy it again (update.go:46).         *)
NothingSkipped ==
    AtRest /\ ~disturbed /\ ~pushed /\ stack = "Active" /\ hash = head => containers = head

(* When nothing is going on and no request met another, the containers of  *)
(* an inactive or deleted stack are gone, whatever polls, failures and     *)
(* restarts came before (stack_stop.go:102, stack_delete.go:115).          *)
StoppedIsDown ==
    AtRest /\ ~disturbed /\ stack \in {"Inactive", Absent} => containers = NoCommit

(* As long as the stack is neither stopped nor deleted, commits arrive:    *)
(* whatever fails meanwhile and after a restart, again and again the       *)
(* latest commit is recorded and runs, or the stack says it is in error: a *)
(* redeploy recorded the commit before it failed or was cut short, and     *)
(* polls do not repeat it.  Not so once a request met another worker or a  *)
(* commit came between clone and LatestCommitID (deploy.go:49-50).         *)
Polled == stack \notin {Absent, "Inactive"} /\ WorkflowExists
CommitsArrive ==
    <>[]Polled =>
        []<>(hash = head /\ (containers = head \/ stack = "Error" \/ disturbed \/ pushed))
=============================================================================
