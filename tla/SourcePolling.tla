--------------------------- MODULE SourcePolling ---------------------------
(***************************************************************************)
(* Which git sources are polled, and how often (api/gitops/scheduling).    *)
(* Handlers change sources and the stacks that use them in the datastore,  *)
(* and then call Reconcile, which reads the source, then the references to *)
(* it, and then starts, restarts or stops the source's job in the cron     *)
(* scheduler under its lock.  What a job does when its time comes is the   *)
(* poll of GitStacks.                                                      *)
(***************************************************************************)
EXTENDS Tables, Integers, Sequences, FiniteSets

CONSTANTS Sources, Stacks, Handlers,
          Intervals,    \* polling intervals
          JobIds        \* names of cron entries

NoInterval == 0
Gone == -1              \* a source that is not in the datastore

ASSUME ConstantsAssumption ==
    /\ Intervals \subseteq Nat \ {0} /\ JobIds \subseteq Nat
    /\ "none" \notin Sources

VARIABLES sources,      \* by source, its interval
          uses,         \* by stack, the source of its artifact
          jobs,         \* the map of SourceScheduler
          entries,      \* the entries of the cron scheduler
          handlers,     \* the requests
          behind        \* for the properties: sources that changed and were not
                        \* reconciled, or whose last Reconcile acted on what had
                        \* changed since it was read

vars == <<sources, uses, jobs, entries, handlers, behind>>

None == "none"

Job == [id: JobIds, interval: Intervals]
Entry == [source: Sources, interval: Intervals]

\* todo: the sources to reconcile, the first of them in progress.
\* stale: the source or its references changed since they were read.
Handler == [pc: {"idle", "repoint", "new URL", "read", "references", "apply"},
            stack: Stacks \cup {None}, from: Sources \cup {None}, to: Sources \cup {None},
            todo: {<<>>} \cup (Sources \X {None}) \cup (Sources \X Sources),
            interval: Intervals \cup {NoInterval, Gone}, used: BOOLEAN, stale: BOOLEAN]
Idle == [pc |-> "idle", stack |-> None, from |-> None, to |-> None, todo |-> <<>>,
         interval |-> NoInterval, used |-> FALSE, stale |-> FALSE]

TypeOK ==
    /\ sources \in [Sources -> Intervals \cup {NoInterval, Gone}]
    /\ uses \in [Stacks -> Sources \cup {None}]
    /\ IsTable(jobs, Sources, Job) /\ IsTable(entries, JobIds, Entry)
    /\ handlers \in [Handlers -> Handler]
    /\ behind \subseteq Sources

Init ==
    /\ sources = [s \in Sources |-> Gone]
    /\ uses = [k \in Stacks |-> None]
    /\ jobs = EmptyTable /\ entries = EmptyTable
    /\ handlers = [h \in Handlers |-> Idle]
    /\ behind = {}

-----------------------------------------------------------------------------
Exists(s) == sources[s] # Gone

\* sourceReferenced; artifacts whose stack is gone do not count.
Referenced(s) == \E k \in Stacks : uses[k] = s

\* It is to be polled.
Wanted(s) == sources[s] \in Intervals /\ Referenced(s)

\* The handlers that have read something of these sources.
Stale(changed) ==
    [h \in Handlers |->
        IF handlers[h].pc \in {"references", "apply"} /\ handlers[h].todo[1] \in changed
          THEN [handlers[h] EXCEPT !.stale = TRUE] ELSE handlers[h]]

\* A handler about to reconcile one source, or one and then another.
Todo(s) == [Idle EXCEPT !.pc = "read", !.todo = <<s, None>>]
TodoBoth(s, t) == [Idle EXCEPT !.pc = "read", !.todo = IF s = t THEN <<s, None>> ELSE <<s, t>>]

\* The handler of a change of these sources goes on, the others are behind.
Changed(h, changed, next) == handlers' = [Stale(changed) EXCEPT ![h] = next]

\* The source is reconciled afterwards, unless a step in between fails.
ReconciledOrNot(h, s) ==
    \/ Changed(h, {s}, Todo(s)) /\ UNCHANGED behind
    \/ Changed(h, {s}, Idle) /\ behind' = behind \cup {s}

-----------------------------------------------------------------------------
(* Handlers: the change in the datastore.                                  *)

\* Create and update then test the connection, and may fail to store the result.
CreateSource(h, s) ==
    /\ handlers[h] = Idle /\ ~Exists(s)
    /\ \E i \in Intervals \cup {NoInterval} : sources' = [sources EXCEPT ![s] = i]
    /\ ReconciledOrNot(h, s)
    /\ UNCHANGED <<uses, jobs, entries>>

UpdateSource(h, s) ==
    /\ handlers[h] = Idle /\ Exists(s)
    /\ \E i \in Intervals \cup {NoInterval} : sources' = [sources EXCEPT ![s] = i]
    /\ ReconciledOrNot(h, s)
    /\ UNCHANGED <<uses, jobs, entries>>

DeleteSource(h, s) ==
    /\ handlers[h] = Idle /\ Exists(s) /\ ~Referenced(s)
    /\ sources' = [sources EXCEPT ![s] = Gone]
    /\ Changed(h, {s}, Todo(s))
    /\ UNCHANGED <<uses, jobs, entries, behind>>

\* The workflow and the stack; then it is deployed, and postDeploy reconciles the
\* source if that succeeded.
CreateStack(h, k) ==
    /\ handlers[h] = Idle /\ uses[k] = None
    /\ \E s \in Sources :
        /\ Exists(s)
        /\ uses' = [uses EXCEPT ![k] = s]
        /\ ReconciledOrNot(h, s)
    /\ UNCHANGED <<sources, jobs, entries>>

\* The stack is deleted, or its file is edited and it leaves git.
DetachStack(h, k) ==
    /\ handlers[h] = Idle /\ uses[k] # None
    /\ uses' = [uses EXCEPT ![k] = None]
    \* The source to reconcile is the one found: none if it is gone.
    /\ Changed(h, {uses[k]}, IF Exists(uses[k]) THEN Todo(uses[k]) ELSE Idle)
    /\ UNCHANGED <<sources, jobs, entries, behind>>

\* The Kubernetes proxy deletes the stacks of a namespace, and reconciles nothing.
DeleteNamespace(k) ==
    /\ uses[k] # None
    /\ uses' = [uses EXCEPT ![k] = None]
    /\ handlers' = Stale({uses[k]})
    /\ behind' = behind \cup {uses[k]}
    /\ UNCHANGED <<sources, jobs, entries>>

\* The git settings of a stack are changed.  Its source is read here, and the one
\* that is named instead is validated; they are stored below.
BeginRepoint(h, k) ==
    /\ handlers[h] = Idle /\ uses[k] # None /\ Exists(uses[k])
    /\ \E s \in Sources, pc \in {"repoint", "new URL"} :
        /\ IF pc = "repoint" THEN Exists(s) ELSE s # uses[k]
        /\ handlers' = [handlers EXCEPT
             ![h] = [Idle EXCEPT !.pc = pc, !.stack = k, !.from = uses[k], !.to = s]]
    /\ UNCHANGED <<sources, uses, jobs, entries, behind>>

\* A faulty form: the source the stack leaves is not reconciled.
Repoint_NewOnly(h) ==
    LET k == handlers[h].stack  from == handlers[h].from  to == handlers[h].to IN
    /\ handlers[h].pc = "repoint"
    /\ IF uses[k] = None
         THEN handlers' = [handlers EXCEPT ![h] = Idle] /\ UNCHANGED uses
         ELSE /\ uses' = [uses EXCEPT ![k] = IF uses[k] = from THEN to ELSE uses[k]]
              /\ Changed(h, IF uses[k] = from THEN {from, to} ELSE {}, Todo(to))
    /\ UNCHANGED <<sources, jobs, entries, behind>>

\* The artifact is replaced if it still names the source that was read.  Without
\* its workflow nothing is stored.
Repoint(h) ==
    LET k == handlers[h].stack  from == handlers[h].from  to == handlers[h].to IN
    /\ handlers[h].pc = "repoint"
    /\ IF uses[k] = None
         THEN handlers' = [handlers EXCEPT ![h] = Idle] /\ UNCHANGED uses
         ELSE /\ uses' = [uses EXCEPT ![k] = IF uses[k] = from THEN to ELSE uses[k]]
              /\ Changed(h, IF uses[k] = from THEN {from, to} ELSE {}, TodoBoth(to, from))
    /\ UNCHANGED <<sources, jobs, entries, behind>>

\* Another URL is given instead of a source: the source of that URL, created if
\* there is none, is taken in the transaction and is not reconciled.
RepointByURL(h) ==
    LET k == handlers[h].stack  from == handlers[h].from  to == handlers[h].to
        moves == uses[k] = from IN
    /\ handlers[h].pc = "new URL"
    /\ IF uses[k] = None \/ ~Exists(from)
         THEN handlers' = [handlers EXCEPT ![h] = Idle] /\ UNCHANGED <<sources, uses, behind>>
         ELSE /\ sources' = IF Exists(to) THEN sources ELSE [sources EXCEPT ![to] = NoInterval]
              /\ uses' = [uses EXCEPT ![k] = IF moves THEN to ELSE uses[k]]
              /\ Changed(h, (IF moves THEN {from, to} ELSE {}) \cup (IF Exists(to) THEN {} ELSE {to}),
                         Todo(from))
              /\ behind' = IF moves THEN behind \cup {to} ELSE behind
    /\ UNCHANGED <<jobs, entries>>

-----------------------------------------------------------------------------
(* Reconcile.                                                              *)

ReadSource(h) ==
    /\ handlers[h].pc = "read"
    /\ LET s == handlers[h].todo[1] IN
       handlers' = [handlers EXCEPT ![h].pc = IF Exists(s) THEN "references" ELSE "apply",
                                    ![h].interval = sources[s], ![h].used = FALSE,
                                    ![h].stale = FALSE]
    /\ UNCHANGED <<sources, uses, jobs, entries, behind>>

ReadReferences(h) ==
    /\ handlers[h].pc = "references"
    /\ handlers' = [handlers EXCEPT ![h].pc = "apply",
                                    ![h].used = Referenced(handlers[h].todo[1])]
    /\ UNCHANGED <<sources, uses, jobs, entries, behind>>

NewId == CHOOSE i \in JobIds \ DOMAIN entries : TRUE

\* stopLocked, with StopJob.
Stop(s) ==
    IF s \in DOMAIN jobs
      THEN jobs' = Drop(jobs, {s}) /\ entries' = Drop(entries, {jobs[s].id})
      ELSE UNCHANGED <<jobs, entries>>

\* A faulty form: the entry of the earlier job goes on.
Start_KeepsEntry(s, i) ==
    LET left == entries IN
    /\ JobIds \ DOMAIN entries # {}
    /\ entries' = Put(left, NewId, [source |-> s, interval |-> i])
    /\ jobs' = Put(jobs, s, [id |-> NewId, interval |-> i])

\* StartJobEvery, the entry of an earlier job being removed first.
Start(s, i) ==
    LET left == IF s \in DOMAIN jobs THEN Drop(entries, {jobs[s].id}) ELSE entries IN
    /\ JobIds \ DOMAIN entries # {}
    /\ entries' = Put(left, NewId, [source |-> s, interval |-> i])
    /\ jobs' = Put(jobs, s, [id |-> NewId, interval |-> i])

\* A faulty form: a job is started whatever runs already.
Apply_Always(s, i, used) ==
    IF i \notin Intervals \/ ~used THEN Stop(s)
    ELSE Start(s, i)

\* What is wanted of the source's job, from what was read.
Apply(s, i, used) ==
    IF i \notin Intervals \/ ~used THEN Stop(s)
    ELSE IF s \in DOMAIN jobs /\ jobs[s].interval = i THEN UNCHANGED <<jobs, entries>>
    ELSE Start(s, i)

\* The handler then reconciles its next source or ends.
Reconcile(h) ==
    /\ handlers[h].pc = "apply"
    /\ LET s == handlers[h].todo[1]  next == handlers[h].todo[2] IN
       /\ Apply(s, handlers[h].interval, handlers[h].used)
       /\ behind' = IF handlers[h].stale THEN behind \cup {s} ELSE behind \ {s}
       /\ handlers' = [handlers EXCEPT ![h] = IF next = None THEN Idle ELSE Todo(next)]
    /\ UNCHANGED <<sources, uses>>

\* The server comes back and ReconcileAll runs before the first request.
Restart ==
    /\ LET polled == {s \in Sources : Wanted(s)} IN
       \E id \in [polled -> JobIds] :
          /\ \A s, t \in polled : id[s] = id[t] => s = t
          /\ jobs' = [s \in polled |-> [id |-> id[s], interval |-> sources[s]]]
          /\ entries' = [i \in {id[s] : s \in polled} |->
                [source |-> CHOOSE s \in polled : id[s] = i,
                 interval |-> sources[CHOOSE s \in polled : id[s] = i]]]
    /\ handlers' = [h \in Handlers |-> Idle]
    /\ behind' = {}
    /\ UNCHANGED <<sources, uses>>

Next ==
    \/ \E h \in Handlers :
        \/ \E s \in Sources : CreateSource(h, s) \/ UpdateSource(h, s) \/ DeleteSource(h, s)
        \/ \E k \in Stacks : CreateStack(h, k) \/ DetachStack(h, k) \/ BeginRepoint(h, k)
        \/ Repoint(h) \/ RepointByURL(h)
        \/ ReadSource(h) \/ ReadReferences(h) \/ Reconcile(h)
    \/ \E k \in Stacks : DeleteNamespace(k)
    \/ Restart

Spec == Init /\ [][Next]_vars

-----------------------------------------------------------------------------
(* The cron scheduler runs one entry for each job of the map and no other: *)
(* an entry nobody can stop would poll its source for ever                 *)
(* (scheduler.go:124, 149-153).                                            *)
JobsAreTracked ==
    /\ \A s \in DOMAIN jobs :
          /\ jobs[s].id \in DOMAIN entries
          /\ entries[jobs[s].id] = [source |-> s, interval |-> jobs[s].interval]
    /\ \A i \in DOMAIN entries : \E s \in DOMAIN jobs : jobs[s].id = i

(* When no handler is at work, the sources polled are those that have an   *)
(* interval and a stack, each at its interval, except where a Reconcile    *)
(* acted on what had changed meanwhile or was never called (behind, of the *)
(* handlers that do not reconcile what they change).  The handlers that do *)
(* reconcile every source they affect, also the one that a stack leaves    *)
(* (stack_update_git.go:273-283).                                          *)
PollingMatches ==
    (\A h \in Handlers : handlers[h] = Idle) =>
        \A s \in Sources \ behind :
            /\ s \in DOMAIN jobs <=> Wanted(s)
            /\ s \in DOMAIN jobs => jobs[s].interval = sources[s]

(* Reconciling a source leaves a job with the right interval alone: each   *)
(* new job begins a new interval, and a source reconciled often enough     *)
(* would never be polled (scheduler.go:119-122).                           *)
TimersGoOn ==
    [][\/ \A s \in DOMAIN jobs \cap DOMAIN jobs' :
            jobs'[s].interval = jobs[s].interval => jobs'[s] = jobs[s]
       \/ Restart]_vars
=============================================================================
