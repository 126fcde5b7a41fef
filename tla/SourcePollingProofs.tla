------------------------- MODULE SourcePollingProofs -------------------------
(***************************************************************************)
(* What holds of the polling of sources for every number of sources,       *)
(* stacks and requests: the types, one cron entry for each job             *)
(* (JobsAreTracked), no timer reset for nothing (TimersGoOn), and the      *)
(* sources polled are those that should be (PollingMatches).               *)
(***************************************************************************)
EXTENDS SourcePolling, TablesTheorems

-----------------------------------------------------------------------------
(* Jobs and entries.  These steps need no types.                           *)

\* Two jobs never share an entry: the entry names its source.
LEMMA DistinctIds ==
  ASSUME JobsAreTracked, NEW s \in DOMAIN jobs, NEW t \in DOMAIN jobs, s # t
  PROVE  jobs[s].id # jobs[t].id
<1>1. ASSUME NEW r \in DOMAIN jobs
      PROVE  entries[jobs[r].id].source = r
  <2>1. entries[jobs[r].id] = [source |-> r, interval |-> jobs[r].interval]
    BY DEF JobsAreTracked
  <2>2. [source |-> r, interval |-> jobs[r].interval].source = r
    OBVIOUS
  <2> QED BY <2>1, <2>2
<1> QED BY <1>1

\* Stopping a job removes its entry and no other.
LEMMA StopTracks ==
  ASSUME JobsAreTracked, NEW s, Stop(s)
  PROVE  JobsAreTracked'
<1>1. CASE s \notin DOMAIN jobs
  BY <1>1 DEF Stop, JobsAreTracked
<1>2. CASE s \in DOMAIN jobs
  <2>1. /\ jobs' = Drop(jobs, {s})
        /\ entries' = Drop(entries, {jobs[s].id})
    BY <1>2 DEF Stop
  <2>2. \A t \in DOMAIN jobs \ {s} : jobs[t].id # jobs[s].id
    BY <1>2, DistinctIds
  <2> QED BY <1>2, <2>1, <2>2 DEF Drop, JobsAreTracked
<1> QED BY <1>1, <1>2

\* The identifier of a new entry is not in use.
LEMMA NewIdIsNew ==
  ASSUME JobIds \ DOMAIN entries # {}
  PROVE  NewId \in JobIds \ DOMAIN entries
BY DEF NewId

\* Starting a job adds an entry, after the removal of the earlier one.
LEMMA StartTracks ==
  ASSUME JobsAreTracked, NEW s, NEW i, Start(s, i)
  PROVE  JobsAreTracked'
<1> DEFINE left == IF s \in DOMAIN jobs THEN Drop(entries, {jobs[s].id}) ELSE entries
           new == NewId
<1>1. /\ new \notin DOMAIN entries
      /\ entries' = Put(left, new, [source |-> s, interval |-> i])
      /\ jobs' = Put(jobs, s, [id |-> new, interval |-> i])
  BY NewIdIsNew DEF Start
<1>2. /\ DOMAIN left = DOMAIN entries \ {jobs[t].id : t \in DOMAIN jobs \cap {s}}
      /\ \A k \in DOMAIN left : left[k] = entries[k]
  BY DEF Drop
<1>3. \A t \in DOMAIN jobs \ {s} : jobs[t].id \in DOMAIN left
  BY <1>2, DistinctIds DEF JobsAreTracked
<1> HIDE DEF left, new
<1>4. /\ DOMAIN jobs' = DOMAIN jobs \cup {s}
      /\ jobs'[s] = [id |-> new, interval |-> i]
      /\ \A t \in DOMAIN jobs \ {s} : jobs'[t] = jobs[t]
  BY <1>1 DEF Put
<1>5. /\ DOMAIN entries' = DOMAIN left \cup {new}
      /\ entries'[new] = [source |-> s, interval |-> i]
      /\ \A k \in DOMAIN left : entries'[k] = entries[k]
  BY <1>1, <1>2 DEF Put
<1>6. ASSUME NEW t \in DOMAIN jobs'
      PROVE  /\ jobs'[t].id \in DOMAIN entries'
             /\ entries'[jobs'[t].id] = [source |-> t, interval |-> jobs'[t].interval]
  <2>1. CASE t = s
    BY <2>1, <1>4, <1>5
  <2>2. CASE t # s
    BY <2>2, <1>3, <1>4, <1>5, <1>6 DEF JobsAreTracked
  <2> QED BY <2>1, <2>2
<1>7. ASSUME NEW k \in DOMAIN entries'
      PROVE  \E t \in DOMAIN jobs' : jobs'[t].id = k
  <2>1. CASE k = new
    BY <2>1, <1>4
  <2>2. CASE k # new
    <3>1. k \in DOMAIN left
      BY <2>2, <1>5, <1>7
    <3>2. PICK t \in DOMAIN jobs : jobs[t].id = k
      BY <3>1, <1>2 DEF JobsAreTracked
    <3>3. t # s
      BY <3>1, <3>2, <1>2
    <3> QED BY <3>2, <3>3, <1>4
  <2> QED BY <2>1, <2>2
<1> QED BY <1>6, <1>7 DEF JobsAreTracked

\* After the server came back each pollable source has a job of its own.
LEMMA RestartTracks ==
  ASSUME Restart
  PROVE  JobsAreTracked'
<1> DEFINE polled == {s \in Sources : Wanted(s)}
<1>1. PICK id \in [polled -> JobIds] :
        /\ \A s, t \in polled : id[s] = id[t] => s = t
        /\ jobs' = [s \in polled |-> [id |-> id[s], interval |-> sources[s]]]
        /\ entries' = [i \in {id[s] : s \in polled} |->
              [source |-> CHOOSE s \in polled : id[s] = i,
               interval |-> sources[CHOOSE s \in polled : id[s] = i]]]
  BY DEF Restart
<1> HIDE DEF polled
<1>2. \A s \in polled : (CHOOSE t \in polled : id[t] = id[s]) = s
  BY <1>1
<1> QED BY <1>1, <1>2 DEF JobsAreTracked

\* Jobs and entries change together, only when a handler applies what it read
\* and when the server comes back.
LEMMA NextJobs ==
  ASSUME [Next]_vars
  PROVE  \/ \E h \in Handlers : Reconcile(h)
         \/ Restart
         \/ UNCHANGED <<jobs, entries>>
BY DEF Next, vars, CreateSource, UpdateSource, DeleteSource, CreateStack,
       DetachStack, DeleteNamespace, BeginRepoint, Repoint, RepointByURL,
       ReadSource, ReadReferences

LEMMA NextTracks ==
  ASSUME JobsAreTracked, [Next]_vars
  PROVE  JobsAreTracked'
<1>1. CASE \E h \in Handlers : Reconcile(h)
  BY <1>1, StopTracks, StartTracks DEF Reconcile, Apply, JobsAreTracked
<1>2. CASE Restart
  BY <1>2, RestartTracks
<1>3. CASE UNCHANGED <<jobs, entries>>
  BY <1>3 DEF JobsAreTracked
<1> QED BY <1>1, <1>2, <1>3, NextJobs

\* The cron scheduler runs one entry for each job of the map and no other
\* (scheduler.go:124, 149-153).
THEOREM JobsTracked == Spec => []JobsAreTracked
<1>1. Init => JobsAreTracked
  BY DEF Init, EmptyTable, JobsAreTracked
<1> QED BY <1>1, NextTracks, PTL DEF Spec

\* Applying what was read leaves a job with the right interval alone.
LEMMA ApplyKeepsTimers ==
  ASSUME NEW s, NEW i, NEW used, Apply(s, i, used)
  PROVE  \A t \in DOMAIN jobs \cap DOMAIN jobs' :
           jobs'[t].interval = jobs[t].interval => jobs'[t] = jobs[t]
<1>1. CASE Stop(s)
  BY <1>1 DEF Stop, Drop
<1>2. CASE UNCHANGED <<jobs, entries>>
  BY <1>2
<1>3. CASE Start(s, i) /\ ~(s \in DOMAIN jobs /\ jobs[s].interval = i)
  BY <1>3 DEF Start, Put
<1> QED BY <1>1, <1>2, <1>3 DEF Apply

\* Reconciling a source that has its job resets no timer (scheduler.go:119).
THEOREM TimersKept == Spec => TimersGoOn
<1>1. ASSUME [Next]_vars
      PROVE  [\/ \A s \in DOMAIN jobs \cap DOMAIN jobs' :
                   jobs'[s].interval = jobs[s].interval => jobs'[s] = jobs[s]
              \/ Restart]_vars
  BY <1>1, NextJobs, ApplyKeepsTimers DEF Reconcile
<1> QED BY <1>1, PTL DEF Spec, TimersGoOn

-----------------------------------------------------------------------------
(* Types.                                                                  *)

Working == {"read", "references", "apply"}

\* A handler that reconciles has a source to reconcile, and one that repoints
\* has a stack and two sources.
Equipped(r) ==
  /\ r.pc \in Working => r.todo # <<>>
  /\ r.pc \in {"repoint", "new URL"} =>
       r.stack \in Stacks /\ r.from \in Sources /\ r.to \in Sources

Good == {r \in Handler : Equipped(r)}

TypeInv == TypeOK /\ handlers \in [Handlers -> Good]

\* The records that handlers take on.
LEMMA NewHandlers ==
  /\ Idle \in Good
  /\ \A s \in Sources : Todo(s) \in Good
  /\ \A s, t \in Sources : TodoBoth(s, t) \in Good
BY ConstantsAssumption DEF Good, Equipped, Handler, Idle, Todo, TodoBoth, Working

\* A handler that holds stale reads stays what it is otherwise.
LEMMA StaleGood ==
  ASSUME handlers \in [Handlers -> Good], NEW changed
  PROVE  /\ Stale(changed) \in [Handlers -> Good]
         /\ \A h \in Handlers :
              /\ Stale(changed)[h].pc = handlers[h].pc
              /\ Stale(changed)[h].todo = handlers[h].todo
              /\ Stale(changed)[h].interval = handlers[h].interval
              /\ Stale(changed)[h].used = handlers[h].used
              /\ \/ Stale(changed)[h] = handlers[h]
                 \/ Stale(changed)[h].stale = TRUE
              /\ (/\ handlers[h].pc \in {"references", "apply"}
                  /\ handlers[h].todo[1] \in changed) => Stale(changed)[h].stale = TRUE
<1>1. ASSUME NEW h \in Handlers
      PROVE  [handlers[h] EXCEPT !.stale = TRUE] \in Good
  <2> DEFINE r == handlers[h]
             q == [handlers[h] EXCEPT !.stale = TRUE]
  <2>1. r \in Handler /\ Equipped(r)
    BY DEF Good
  <2>2. q \in Handler
    BY <2>1 DEF Handler
  <2>3. /\ q.pc = r.pc /\ q.todo = r.todo /\ q.stack = r.stack
        /\ q.from = r.from /\ q.to = r.to
    BY <2>1 DEF Handler
  <2> HIDE DEF r, q
  <2>4. q \in Good
    BY <2>1, <2>2, <2>3 DEF Good, Equipped
  <2> QED BY <2>4 DEF q
<1>2. Stale(changed) \in [Handlers -> Good]
  BY <1>1 DEF Stale
<1> QED BY <1>2 DEF Stale, Good, Handler

\* What a handler has read, when it reads on.
LEMMA ReadGood ==
  ASSUME NEW r \in Good, r.pc \in Working,
         NEW pc \in {"references", "apply"}, NEW used \in BOOLEAN, NEW stale \in BOOLEAN,
         NEW interval \in Intervals \cup {NoInterval, Gone}
  PROVE  [r EXCEPT !.pc = pc, !.interval = interval, !.used = used, !.stale = stale] \in Good
<1> DEFINE q == [r EXCEPT !.pc = pc, !.interval = interval, !.used = used, !.stale = stale]
<1>1. q \in Handler
  <2>1. r \in Handler
    BY DEF Good
  <2> DEFINE A == {"idle", "repoint", "new URL", "read", "references", "apply"}
             T == {<<>>} \cup (Sources \X {None}) \cup (Sources \X Sources)
             S == Sources \cup {None}
             K == Stacks \cup {None}
             V == Intervals \cup {NoInterval, Gone}
  <2>2. Handler = [pc: A, stack: K, from: S, to: S, todo: T, interval: V,
                   used: BOOLEAN, stale: BOOLEAN]
    BY DEF Handler
  <2>3. pc \in A /\ interval \in V
    OBVIOUS
  <2> HIDE DEF A, T, S, K, V
  <2> QED BY <2>1, <2>2, <2>3
<1>2. q.pc = pc /\ q.todo = r.todo
  BY DEF Good, Handler
<1>3. r.todo # <<>>
  BY DEF Good, Equipped
<1> HIDE DEF q
<1>4. q \in Good
  BY <1>1, <1>2, <1>3 DEF Good, Equipped
<1> QED BY <1>4 DEF q

\* What a handler reconciles next is a source.
LEMMA TodoSources ==
  ASSUME NEW r \in Good, r.pc \in Working
  PROVE  r.todo[1] \in Sources /\ r.todo[2] \in Sources \cup {None}
BY DEF Good, Equipped, Handler, Working

\* Starting and stopping keep the types of jobs and entries.
LEMMA ApplyTypes ==
  ASSUME TypeOK, NEW s \in Sources, NEW i, NEW used, Apply(s, i, used)
  PROVE  IsTable(jobs', Sources, Job) /\ IsTable(entries', JobIds, Entry)
<1>0. IsTable(jobs, Sources, Job) /\ IsTable(entries, JobIds, Entry)
  BY DEF TypeOK
<1>1. CASE Stop(s)
  <2>1. CASE s \in DOMAIN jobs
    <3>1. jobs' = Drop(jobs, {s}) /\ entries' = Drop(entries, {jobs[s].id})
      BY <1>1, <2>1 DEF Stop
    <3>2. IsTable(Drop(jobs, {s}), Sources, Job)
      BY <1>0, DropTable
    <3>3. IsTable(Drop(entries, {jobs[s].id}), JobIds, Entry)
      BY <1>0, DropTable
    <3> QED BY <3>1, <3>2, <3>3
  <2>2. CASE s \notin DOMAIN jobs
    BY <1>0, <1>1, <2>2 DEF Stop, IsTable
  <2> QED BY <2>1, <2>2
<1>2. CASE UNCHANGED <<jobs, entries>>
  BY <1>2 DEF TypeOK, IsTable
<1>3. CASE Start(s, i) /\ i \in Intervals
  <2> DEFINE left == IF s \in DOMAIN jobs THEN Drop(entries, {jobs[s].id}) ELSE entries
  <2>1. IsTable(left, JobIds, Entry)
    BY DropTable DEF TypeOK
  <2>2. NewId \in JobIds
    BY <1>3, NewIdIsNew DEF Start
  <2>3. [source |-> s, interval |-> i] \in Entry /\ [id |-> NewId, interval |-> i] \in Job
    BY <1>3, <2>2 DEF Entry, Job
  <2>4. /\ entries' = Put(left, NewId, [source |-> s, interval |-> i])
        /\ jobs' = Put(jobs, s, [id |-> NewId, interval |-> i])
    BY <1>3 DEF Start
  <2> HIDE DEF left
  <2> QED BY <2>1, <2>2, <2>3, <2>4, PutTable DEF TypeOK
<1> QED BY <1>1, <1>2, <1>3 DEF Apply

LEMMA RestartTypes ==
  ASSUME TypeOK, Restart
  PROVE  IsTable(jobs', Sources, Job) /\ IsTable(entries', JobIds, Entry)
<1> DEFINE polled == {s \in Sources : Wanted(s)}
<1>1. PICK id \in [polled -> JobIds] :
        /\ \A s, t \in polled : id[s] = id[t] => s = t
        /\ jobs' = [s \in polled |-> [id |-> id[s], interval |-> sources[s]]]
        /\ entries' = [i \in {id[s] : s \in polled} |->
              [source |-> CHOOSE s \in polled : id[s] = i,
               interval |-> sources[CHOOSE s \in polled : id[s] = i]]]
  BY DEF Restart
<1>2. \A s \in polled : s \in Sources /\ sources[s] \in Intervals
  BY DEF Wanted
<1> HIDE DEF polled
<1>3. \A i \in {id[s] : s \in polled} : (CHOOSE s \in polled : id[s] = i) \in polled
  BY <1>1
<1>4. IsTable(jobs', Sources, Job)
  BY <1>1, <1>2 DEF IsTable, Job
<1>5. IsTable(entries', JobIds, Entry)
  BY <1>1, <1>2, <1>3 DEF IsTable, Entry
<1> QED BY <1>4, <1>5

LEMMA InitTypes == ASSUME Init PROVE TypeInv
<1>1. TypeOK
  BY NewHandlers, EmptyIsTable DEF Init, TypeOK, Good
<1> QED BY <1>1, NewHandlers DEF Init, TypeInv

\* The changes that handlers make in the datastore.
LEMMA ChangeTypes ==
  ASSUME TypeInv, NEW h \in Handlers,
         \/ \E s \in Sources : CreateSource(h, s) \/ UpdateSource(h, s) \/ DeleteSource(h, s)
         \/ \E k \in Stacks : CreateStack(h, k) \/ DetachStack(h, k) \/ BeginRepoint(h, k)
         \/ Repoint(h) \/ RepointByURL(h)
         \/ \E k \in Stacks : DeleteNamespace(k)
  PROVE  TypeInv'
<1> USE DEF TypeInv
<1>0. ASSUME NEW changed, NEW next \in Good, Changed(h, changed, next)
      PROVE  handlers' \in [Handlers -> Good]
  BY <1>0, StaleGood DEF Changed
<1>1. ASSUME NEW s \in Sources, CreateSource(h, s) \/ UpdateSource(h, s)
      PROVE  TypeInv'
  <2>1. handlers' \in [Handlers -> Good]
    BY <1>1, <1>0, NewHandlers DEF CreateSource, UpdateSource, ReconciledOrNot
  <2> QED BY <1>1, <2>1 DEF CreateSource, UpdateSource, ReconciledOrNot, TypeOK, Good, IsTable
<1>2. ASSUME NEW s \in Sources, DeleteSource(h, s)
      PROVE  TypeInv'
  <2>1. handlers' \in [Handlers -> Good]
    BY <1>2, <1>0, NewHandlers DEF DeleteSource
  <2> QED BY <1>2, <2>1 DEF DeleteSource, TypeOK, Good, IsTable
<1>3. ASSUME NEW k \in Stacks, CreateStack(h, k)
      PROVE  TypeInv'
  <2>1. PICK s \in Sources : uses' = [uses EXCEPT ![k] = s] /\ ReconciledOrNot(h, s)
    BY <1>3 DEF CreateStack
  <2>2. handlers' \in [Handlers -> Good]
    BY <2>1, <1>0, NewHandlers DEF ReconciledOrNot
  <2> QED BY <1>3, <2>1, <2>2 DEF CreateStack, ReconciledOrNot, TypeOK, Good, IsTable
<1>4. ASSUME NEW k \in Stacks, DetachStack(h, k)
      PROVE  TypeInv'
  <2>1. uses[k] \in Sources
    BY <1>4 DEF DetachStack, TypeOK
  <2>2. handlers' \in [Handlers -> Good]
    BY <1>4, <2>1, <1>0, NewHandlers DEF DetachStack
  <2> QED BY <1>4, <2>2 DEF DetachStack, TypeOK, Good, IsTable
<1>5. ASSUME NEW k \in Stacks, BeginRepoint(h, k)
      PROVE  TypeInv'
  <2>1. uses[k] \in Sources
    BY <1>5 DEF BeginRepoint, TypeOK
  <2>2. PICK s \in Sources, pc \in {"repoint", "new URL"} :
          handlers' = [handlers EXCEPT
             ![h] = [Idle EXCEPT !.pc = pc, !.stack = k, !.from = uses[k], !.to = s]]
    BY <1>5 DEF BeginRepoint
  <2>3. [Idle EXCEPT !.pc = pc, !.stack = k, !.from = uses[k], !.to = s] \in Good
    BY <2>1 DEF Idle, Good, Handler, Equipped, Working
  <2>4. handlers' \in [Handlers -> Good]
    BY <2>2, <2>3
  <2> QED BY <1>5, <2>4 DEF BeginRepoint, TypeOK, Good, IsTable
<1>6. CASE Repoint(h)
  <2>1. handlers[h].from \in Sources /\ handlers[h].to \in Sources
    BY <1>6 DEF Repoint, Good, Equipped
  <2>2. handlers' \in [Handlers -> Good]
    BY <1>6, <2>1, <1>0, NewHandlers DEF Repoint
  <2> QED BY <1>6, <2>1, <2>2 DEF Repoint, TypeOK, Good, IsTable
<1>7. CASE RepointByURL(h)
  <2>1. handlers[h].from \in Sources /\ handlers[h].to \in Sources
    BY <1>7 DEF RepointByURL, Good, Equipped
  <2>2. handlers' \in [Handlers -> Good]
    BY <1>7, <2>1, <1>0, NewHandlers DEF RepointByURL
  <2>3. sources' \in [Sources -> Intervals \cup {NoInterval, Gone}]
    BY <1>7, <2>1 DEF RepointByURL, TypeOK
  <2>4. uses' \in [Stacks -> Sources \cup {None}]
    BY <1>7, <2>1 DEF RepointByURL, TypeOK
  <2>5. behind' \subseteq Sources /\ UNCHANGED <<jobs, entries>>
    BY <1>7, <2>1 DEF RepointByURL, TypeOK
  <2> QED BY <2>2, <2>3, <2>4, <2>5 DEF TypeOK, Good, IsTable
<1>8. ASSUME NEW k \in Stacks, DeleteNamespace(k)
      PROVE  TypeInv'
  BY <1>8, StaleGood DEF DeleteNamespace, TypeOK, Good, IsTable
<1> QED BY <1>1, <1>2, <1>3, <1>4, <1>5, <1>6, <1>7, <1>8

\* Reconcile, and the restart.
LEMMA ReconcileTypes ==
  ASSUME TypeInv, NEW h \in Handlers,
         ReadSource(h) \/ ReadReferences(h) \/ Reconcile(h) \/ Restart
  PROVE  TypeInv'
<1> USE DEF TypeInv
<1>1. CASE ReadSource(h)
  <2>1. handlers[h].todo[1] \in Sources
    BY <1>1, TodoSources DEF ReadSource, Working
  <2>2. sources[handlers[h].todo[1]] \in Intervals \cup {NoInterval, Gone}
    BY <2>1 DEF TypeOK
  <2>3. [handlers[h] EXCEPT
             !.pc = IF Exists(handlers[h].todo[1]) THEN "references" ELSE "apply",
             !.interval = sources[handlers[h].todo[1]], !.used = FALSE,
             !.stale = FALSE] \in Good
    BY <1>1, <2>2, ReadGood DEF ReadSource, Working
  <2>7. handlers' \in [Handlers -> Good]
    BY <1>1, <2>3 DEF ReadSource
  <2> QED BY <1>1, <2>7 DEF ReadSource, TypeOK, Good, IsTable
<1>2. CASE ReadReferences(h)
  <2>1. Referenced(handlers[h].todo[1]) \in BOOLEAN
    BY DEF Referenced
  <2>2. handlers[h].interval \in Intervals \cup {NoInterval, Gone}
        /\ handlers[h].stale \in BOOLEAN
    BY DEF Good, Handler
  <2>3. [handlers[h] EXCEPT !.pc = "apply", !.interval = handlers[h].interval,
             !.used = Referenced(handlers[h].todo[1]), !.stale = handlers[h].stale] \in Good
    BY <1>2, <2>1, <2>2, ReadGood DEF ReadReferences, Working
  <2>4. [handlers[h] EXCEPT !.pc = "apply", !.used = Referenced(handlers[h].todo[1])] \in Good
    BY <2>3 DEF Good, Handler
  <2>7. handlers' \in [Handlers -> Good]
    BY <1>2, <2>4 DEF ReadReferences
  <2> QED BY <1>2, <2>7 DEF ReadReferences, TypeOK, Good, IsTable
<1>3. CASE Reconcile(h)
  <2>1. /\ handlers[h].todo[1] \in Sources
        /\ handlers[h].todo[2] \in Sources \cup {None}
    BY <1>3, TodoSources DEF Reconcile, Working
  <2>2. handlers' \in [Handlers -> Good]
    BY <1>3, <2>1, NewHandlers DEF Reconcile
  <2>3. IsTable(jobs', Sources, Job) /\ IsTable(entries', JobIds, Entry)
    BY <1>3, <2>1, ApplyTypes DEF Reconcile
  <2> QED BY <1>3, <2>1, <2>2, <2>3 DEF Reconcile, TypeOK, Good
<1>4. CASE Restart
  <2>1. handlers' \in [Handlers -> Good]
    BY <1>4, NewHandlers DEF Restart
  <2> QED BY <1>4, <2>1, RestartTypes DEF Restart, TypeOK, Good
<1> QED BY <1>1, <1>2, <1>3, <1>4

LEMMA NextTypes ==
  ASSUME TypeInv, [Next]_vars
  PROVE  TypeInv'
<1>1. CASE UNCHANGED vars
  BY <1>1 DEF vars, TypeInv, TypeOK, IsTable
<1>2. CASE Restart
  <2>1. CASE Handlers = {}
    BY <1>2, <2>1, RestartTypes, NewHandlers DEF Restart, TypeInv, TypeOK
  <2>2. CASE Handlers # {}
    BY <1>2, <2>2, ReconcileTypes
  <2> QED BY <2>1, <2>2
<1>3. ASSUME NEW k \in Stacks, DeleteNamespace(k) PROVE TypeInv'
  BY <1>3, StaleGood DEF DeleteNamespace, TypeInv, TypeOK, Good, IsTable
<1>4. ASSUME NEW h \in Handlers,
             \/ \E s \in Sources : CreateSource(h, s) \/ UpdateSource(h, s) \/ DeleteSource(h, s)
             \/ \E k \in Stacks : CreateStack(h, k) \/ DetachStack(h, k) \/ BeginRepoint(h, k)
             \/ Repoint(h) \/ RepointByURL(h)
             \/ ReadSource(h) \/ ReadReferences(h) \/ Reconcile(h)
      PROVE  TypeInv'
  BY <1>4, ChangeTypes, ReconcileTypes
<1> QED BY <1>1, <1>2, <1>3, <1>4 DEF Next

\* The state keeps its types.
THEOREM PollingTypes == Spec => []TypeOK
<1>1. TypeInv => TypeOK
  BY DEF TypeInv
<1> QED BY <1>1, InitTypes, NextTypes, PTL DEF Spec

-----------------------------------------------------------------------------
(* The sources polled are those that should be.                            *)

\* Some handler has still to reconcile the source.
Pending(s) ==
  \E h \in Handlers : /\ handlers[h].pc \in Working
                      /\ s = handlers[h].todo[1] \/ s = handlers[h].todo[2]

\* The source's job is the one that it should have.
Matches(s) ==
  /\ s \in DOMAIN jobs <=> Wanted(s)
  /\ s \in DOMAIN jobs => jobs[s].interval = sources[s]

\* What a handler has read holds, unless it is marked as stale.
Fresh(h) ==
  handlers[h].stale = FALSE =>
    /\ handlers[h].pc \in {"references", "apply"} =>
         handlers[h].interval = sources[handlers[h].todo[1]]
    /\ (handlers[h].pc = "apply" /\ handlers[h].interval \in Intervals) =>
         (handlers[h].used <=> Referenced(handlers[h].todo[1]))

MatchInv ==
  /\ TypeInv
  /\ \A s \in Sources \ behind : Pending(s) \/ Matches(s)
  /\ \A h \in Handlers : Fresh(h)

\* A handler that goes on reconciling as it was, marked if its source changed.
GoesOn(g, changed) ==
  /\ handlers'[g].pc = handlers[g].pc
  /\ handlers'[g].todo = handlers[g].todo
  /\ handlers'[g].interval = handlers[g].interval
  /\ handlers'[g].used = handlers[g].used
  /\ handlers'[g] = handlers[g] \/ handlers'[g].stale = TRUE
  /\ (/\ handlers[g].pc \in {"references", "apply"}
      /\ handlers[g].todo[1] \in changed) => handlers'[g].stale = TRUE

\* A handler that changes something in the datastore reconciles nothing yet.
Turns(g) ==
  handlers[g].pc \notin Working /\ handlers'[g].pc \notin {"references", "apply"}

\* Whoever changes sources or stacks marks the handlers that have read them,
\* and reconciles what it changed, or the source is behind from then on.
LEMMA DataStepMatches ==
  ASSUME MatchInv, TypeInv', NEW changed,
         UNCHANGED <<jobs, entries>>, behind \subseteq behind',
         \A g \in Handlers : GoesOn(g, changed) \/ Turns(g),
         \A s \in Sources \ changed :
            sources'[s] = sources[s] /\ (Referenced(s)' <=> Referenced(s)),
         \A s \in Sources \ behind' :
            \/ Pending(s)'
            \/ (Wanted(s)' <=> Wanted(s)) /\ (Wanted(s) => sources'[s] = sources[s])
  PROVE  MatchInv'
<1>1. ASSUME NEW s \in Sources \ behind'
      PROVE  Pending(s)' \/ Matches(s)'
  <2>1. Pending(s) \/ Matches(s)
    BY DEF MatchInv
  <2>2. CASE Pending(s)
    BY <2>2 DEF Pending, GoesOn, Turns
  <2>3. CASE Matches(s) /\ ~Pending(s)'
    BY <2>3 DEF Matches
  <2> QED BY <2>1, <2>2, <2>3
<1>2. ASSUME NEW g \in Handlers
      PROVE  Fresh(g)'
  <2>1. CASE Turns(g)
    BY <2>1 DEF Turns, Fresh
  <2>2. CASE GoesOn(g, changed) /\ handlers'[g].stale = FALSE
            /\ handlers[g].pc \in {"references", "apply"}
    <3>1. handlers'[g] = handlers[g] /\ handlers[g].todo[1] \notin changed
      BY <2>2 DEF GoesOn
    <3>2. handlers[g].todo[1] \in Sources
      BY <2>2, TodoSources DEF MatchInv, TypeInv, Working
    <3> QED BY <3>1, <3>2 DEF MatchInv, Fresh
  <2>3. CASE GoesOn(g, changed) /\ handlers[g].pc \notin {"references", "apply"}
    BY <2>3 DEF GoesOn, Fresh
  <2> QED BY <2>1, <2>2, <2>3 DEF Fresh
<1> QED BY <1>1, <1>2 DEF MatchInv

\* Changed, as DataStepMatches sees it.
LEMMA ChangedFollows ==
  ASSUME TypeInv, NEW h \in Handlers, NEW changed, NEW next \in Good,
         handlers[h].pc \notin Working, next.pc \notin {"references", "apply"},
         Changed(h, changed, next)
  PROVE  /\ \A g \in Handlers : GoesOn(g, changed) \/ Turns(g)
         /\ handlers'[h] = next
<1>1. handlers \in [Handlers -> Good]
  BY DEF TypeInv
<1>2. Stale(changed) \in [Handlers -> Good]
  BY <1>1, StaleGood
<1>3. handlers' = [Stale(changed) EXCEPT ![h] = next]
  BY DEF Changed
<1>4. handlers'[h] = next
  BY <1>2, <1>3
<1>5. \A g \in Handlers \ {h} : handlers'[g] = Stale(changed)[g]
  BY <1>2, <1>3
<1>6. ASSUME NEW g \in Handlers \ {h}
      PROVE  GoesOn(g, changed)
  <2> DEFINE new == Stale(changed)[g]
  <2>1. /\ new.pc = handlers[g].pc /\ new.todo = handlers[g].todo
        /\ new.interval = handlers[g].interval /\ new.used = handlers[g].used
        /\ new = handlers[g] \/ new.stale = TRUE
        /\ (/\ handlers[g].pc \in {"references", "apply"}
            /\ handlers[g].todo[1] \in changed) => new.stale = TRUE
    BY <1>1, StaleGood
  <2>2. handlers'[g] = new
    BY <1>5
  <2> HIDE DEF new
  <2> QED BY <2>1, <2>2 DEF GoesOn
<1>7. Turns(h)
  BY <1>4 DEF Turns
<1> QED BY <1>4, <1>6, <1>7

\* The sources that a handler about to reconcile has before it.
LEMMA TodoPending ==
  ASSUME NEW h \in Handlers, NEW s \in Sources
  PROVE  /\ handlers'[h] = Todo(s) => Pending(s)'
         /\ \A t \in Sources : handlers'[h] = TodoBoth(s, t) => Pending(s)' /\ Pending(t)'
<1>1. ASSUME handlers'[h] = Todo(s) PROVE Pending(s)'
  <2>1. Todo(s).pc = "read" /\ Todo(s).todo = <<s, None>>
    BY DEF Todo, Idle
  <2> QED BY <1>1, <2>1 DEF Pending, Working
<1>2. ASSUME NEW t \in Sources, handlers'[h] = TodoBoth(s, t)
      PROVE  Pending(s)' /\ Pending(t)'
  <2>1. /\ TodoBoth(s, t).pc = "read"
        /\ TodoBoth(s, t).todo = IF s = t THEN <<s, None>> ELSE <<s, t>>
    BY DEF TodoBoth, Idle
  <2> QED BY <1>2, <2>1 DEF Pending, Working
<1> QED BY <1>1, <1>2

\* The records with which handlers begin and end.
LEMMA TodoFields ==
  /\ Idle.pc = "idle"
  /\ \A s : Todo(s).pc = "read"
  /\ \A s, t : TodoBoth(s, t).pc = "read"
BY DEF Idle, Todo, TodoBoth

\* Creating, changing and deleting sources.
LEMMA SourceStepMatches ==
  ASSUME MatchInv, TypeInv', NEW h \in Handlers, NEW s \in Sources,
         CreateSource(h, s) \/ UpdateSource(h, s) \/ DeleteSource(h, s)
  PROVE  MatchInv'
<1>1. /\ handlers[h] = Idle /\ UNCHANGED <<uses, jobs, entries>>
      /\ \A t \in Sources \ {s} : sources'[t] = sources[t]
      /\ \/ Changed(h, {s}, Todo(s)) /\ UNCHANGED behind
         \/ Changed(h, {s}, Idle) /\ behind' = behind \cup {s}
  BY DEF CreateSource, UpdateSource, DeleteSource, ReconciledOrNot, MatchInv, TypeInv, TypeOK
<1>2. handlers[h].pc \notin Working
  BY <1>1, TodoFields DEF Working
<1>3. /\ \A g \in Handlers : GoesOn(g, {s}) \/ Turns(g)
      /\ handlers'[h] = Todo(s) \/ s \in behind'
  BY <1>1, <1>2, ChangedFollows, NewHandlers, TodoFields DEF MatchInv
<1>4. \A t \in Sources : Referenced(t)' <=> Referenced(t)
  BY <1>1 DEF Referenced
<1>5. \A t \in Sources \ {s} : Wanted(t)' <=> Wanted(t)
  BY <1>1, <1>4 DEF Wanted
<1>6. \A t \in Sources \ behind' :
        Pending(t)' \/ ((Wanted(t)' <=> Wanted(t)) /\ (Wanted(t) => sources'[t] = sources[t]))
  BY <1>1, <1>3, <1>5, TodoPending
<1>7. behind \subseteq behind'
  BY <1>1
<1> QED BY <1>1, <1>3, <1>4, <1>6, <1>7, DataStepMatches

\* What a change of one stack's source does to the references.
LEMMA UsesReferences ==
  ASSUME TypeOK, NEW k \in Stacks, NEW v \in Sources \cup {None}, uses' = [uses EXCEPT ![k] = v]
  PROVE  \A t \in Sources \ {uses[k], v} : Referenced(t)' <=> Referenced(t)
BY DEF TypeOK, Referenced

\* A change of what refers to one source,
LEMMA ReferenceStepMatches ==
  ASSUME MatchInv, TypeInv', NEW h \in Handlers, NEW s \in Sources,
         handlers[h] = Idle, UNCHANGED <<sources, jobs, entries>>,
         \A t \in Sources \ {s} : Referenced(t)' <=> Referenced(t),
         \/ Changed(h, {s}, Todo(s)) /\ UNCHANGED behind
         \/ Changed(h, {s}, Idle) /\ behind' = behind \cup {s}
         \/ Changed(h, {s}, Idle) /\ UNCHANGED behind /\ ~Exists(s)
  PROVE  MatchInv'
<1>1. handlers[h].pc \notin Working
  BY TodoFields DEF Working
<1>2. /\ \A g \in Handlers : GoesOn(g, {s}) \/ Turns(g)
      /\ handlers'[h] = Todo(s) \/ s \in behind' \/ ~Exists(s)
  BY <1>1, ChangedFollows, NewHandlers, TodoFields DEF MatchInv
<1>3. \A t \in Sources \ {s} : Wanted(t)' <=> Wanted(t)
  BY DEF Wanted
<1>4. ~Exists(s) => ~Wanted(s) /\ ~Wanted(s)'
  BY ConstantsAssumption DEF Exists, Wanted, Gone
<1>5. \A t \in Sources \ behind' :
        Pending(t)' \/ ((Wanted(t)' <=> Wanted(t)) /\ (Wanted(t) => sources'[t] = sources[t]))
  BY <1>2, <1>3, <1>4, TodoPending
<1>6. behind \subseteq behind'
  OBVIOUS
<1> QED BY <1>2, <1>5, <1>6, DataStepMatches

\* ... when a stack is created or leaves git,
LEMMA StackStepMatches ==
  ASSUME MatchInv, TypeInv', NEW h \in Handlers, NEW k \in Stacks,
         CreateStack(h, k) \/ DetachStack(h, k)
  PROVE  MatchInv'
<1>0. TypeOK
  BY DEF MatchInv, TypeInv
<1>1. CASE CreateStack(h, k)
  <2>1. PICK s \in Sources : uses' = [uses EXCEPT ![k] = s] /\ ReconciledOrNot(h, s)
    BY <1>1 DEF CreateStack
  <2>2. \A t \in Sources \ {s} : Referenced(t)' <=> Referenced(t)
    BY <1>0, <1>1, <2>1, UsesReferences, ConstantsAssumption DEF CreateStack, None
  <2> QED BY <1>1, <2>1, <2>2, ReferenceStepMatches DEF CreateStack, ReconciledOrNot
<1>2. CASE DetachStack(h, k)
  <2>1. uses[k] \in Sources
    BY <1>0, <1>2 DEF DetachStack, TypeOK
  <2>2. \A t \in Sources \ {uses[k]} : Referenced(t)' <=> Referenced(t)
    BY <1>0, <1>2, <2>1, UsesReferences, ConstantsAssumption DEF DetachStack, None
  <2> QED BY <1>2, <2>1, <2>2, ReferenceStepMatches DEF DetachStack
<1> QED BY <1>1, <1>2

\* ... and when a namespace goes with its stacks.
LEMMA NamespaceStepMatches ==
  ASSUME MatchInv, TypeInv', NEW k \in Stacks, DeleteNamespace(k)
  PROVE  MatchInv'
<1>0. TypeOK /\ handlers \in [Handlers -> Good]
  BY DEF MatchInv, TypeInv
<1>1. uses[k] \in Sources
  BY <1>0 DEF DeleteNamespace, TypeOK
<1>2. \A t \in Sources \ {uses[k]} : Referenced(t)' <=> Referenced(t)
  BY <1>0, <1>1, UsesReferences, ConstantsAssumption DEF DeleteNamespace, None
<1>3. \A t \in Sources \ {uses[k]} : Wanted(t)' <=> Wanted(t)
  BY <1>2 DEF DeleteNamespace, Wanted
<1>4. handlers' = Stale({uses[k]}) /\ behind' = behind \cup {uses[k]}
      /\ UNCHANGED <<sources, jobs, entries>>
  BY DEF DeleteNamespace
<1>5. \A g \in Handlers : GoesOn(g, {uses[k]})
  BY <1>0, <1>4, StaleGood DEF GoesOn
<1> QED BY <1>2, <1>3, <1>4, <1>5, DataStepMatches

\* Changing a stack's git settings: which source it had is read,
LEMMA BeginRepointMatches ==
  ASSUME MatchInv, TypeInv', NEW h \in Handlers, NEW k \in Stacks, BeginRepoint(h, k)
  PROVE  MatchInv'
<1>0. handlers \in [Handlers -> Good]
  BY DEF MatchInv, TypeInv
<1>1. PICK s \in Sources, pc \in {"repoint", "new URL"} :
          handlers' = [handlers EXCEPT
             ![h] = [Idle EXCEPT !.pc = pc, !.stack = k, !.from = uses[k], !.to = s]]
  BY DEF BeginRepoint
<1>2. [Idle EXCEPT !.pc = pc, !.stack = k, !.from = uses[k], !.to = s].pc = pc
  BY DEF Idle
<1>3. Turns(h)
  BY <1>0, <1>1, <1>2, TodoFields DEF BeginRepoint, Turns, Working
<1>4. \A g \in Handlers \ {h} : GoesOn(g, {})
  BY <1>0, <1>1 DEF GoesOn
<1>5. UNCHANGED <<sources, uses, jobs, entries, behind>>
  BY DEF BeginRepoint
<1>6. \A t \in Sources : (Referenced(t)' <=> Referenced(t)) /\ (Wanted(t)' <=> Wanted(t))
  BY <1>5 DEF Referenced, Wanted
<1> QED BY <1>3, <1>4, <1>5, <1>6, DataStepMatches

\* ... and the artifact is pointed to another source
LEMMA RepointMatches ==
  ASSUME MatchInv, TypeInv', NEW h \in Handlers, Repoint(h)
  PROVE  MatchInv'
<1>0. TypeOK /\ handlers \in [Handlers -> Good]
  BY DEF MatchInv, TypeInv
<1>a. PICK k \in Stacks, from \in Sources, to \in Sources :
        handlers[h].stack = k /\ handlers[h].from = from /\ handlers[h].to = to
  BY <1>0 DEF Repoint, Good, Equipped
<1> DEFINE moves == uses[k] = from
<1>1. handlers[h].pc = "repoint" /\ UNCHANGED <<sources, jobs, entries, behind>>
  BY DEF Repoint
<1>2. handlers[h].pc \notin Working
  BY <1>1 DEF Working
<1>3. CASE uses[k] = None
  <2>1. handlers' = [handlers EXCEPT ![h] = Idle] /\ UNCHANGED uses
    BY <1>a, <1>3 DEF Repoint
  <2>2. Turns(h) /\ \A g \in Handlers \ {h} : GoesOn(g, {})
    BY <1>0, <1>2, <2>1, TodoFields DEF Turns, GoesOn
  <2>3. \A t \in Sources : (Referenced(t)' <=> Referenced(t)) /\ (Wanted(t)' <=> Wanted(t))
    BY <1>1, <2>1 DEF Referenced, Wanted
  <2> QED BY <1>1, <2>2, <2>3, DataStepMatches
<1>4. CASE uses[k] # None
  <2> DEFINE changed == IF moves THEN {from, to} ELSE {}
  <2>1. /\ uses' = [uses EXCEPT ![k] = IF moves THEN to ELSE uses[k]]
        /\ Changed(h, changed, TodoBoth(to, from))
    BY <1>a, <1>4 DEF Repoint
  <2>2. /\ \A g \in Handlers : GoesOn(g, changed) \/ Turns(g)
        /\ handlers'[h] = TodoBoth(to, from)
    BY <1>1, <1>2, <2>1, ChangedFollows, NewHandlers, TodoFields DEF MatchInv
  <2>3. Pending(from)' /\ Pending(to)'
    BY <1>1, <2>2, TodoPending
  <2>4. \A t \in Sources \ changed : Referenced(t)' <=> Referenced(t)
    <3>1. CASE moves
      BY <1>0, <1>1, <2>1, <3>1, UsesReferences
    <3>2. CASE ~moves
      BY <1>0, <1>1, <2>1, <3>2 DEF TypeOK, Referenced
    <3> QED BY <3>1, <3>2
  <2>5. \A t \in Sources \ changed : Wanted(t)' <=> Wanted(t)
    BY <1>1, <2>4 DEF Wanted
  <2>6. \A t \in Sources \ behind' :
          Pending(t)' \/ ((Wanted(t)' <=> Wanted(t)) /\ (Wanted(t) => sources'[t] = sources[t]))
    BY <1>1, <2>3, <2>5
  <2> HIDE DEF changed
  <2> QED BY <1>1, <2>2, <2>4, <2>6, DataStepMatches
<1> QED BY <1>3, <1>4

\* ... or to the source of another URL.
LEMMA RepointByURLMatches ==
  ASSUME MatchInv, TypeInv', NEW h \in Handlers, RepointByURL(h)
  PROVE  MatchInv'
<1>0. TypeOK /\ handlers \in [Handlers -> Good]
  BY DEF MatchInv, TypeInv
<1>a. PICK k \in Stacks, from \in Sources, to \in Sources :
        handlers[h].stack = k /\ handlers[h].from = from /\ handlers[h].to = to
  BY <1>0 DEF RepointByURL, Good, Equipped
<1> DEFINE moves == uses[k] = from
<1>1. handlers[h].pc = "new URL" /\ UNCHANGED <<jobs, entries>>
  BY DEF RepointByURL
<1>2. handlers[h].pc \notin Working
  BY <1>1 DEF Working
<1>3. CASE uses[k] = None \/ ~Exists(from)
  <2>1. handlers' = [handlers EXCEPT ![h] = Idle] /\ UNCHANGED <<sources, uses, behind>>
    BY <1>a, <1>3 DEF RepointByURL
  <2>2. Turns(h) /\ \A g \in Handlers \ {h} : GoesOn(g, {})
    BY <1>0, <1>2, <2>1, TodoFields DEF Turns, GoesOn
  <2>3. \A t \in Sources : (Referenced(t)' <=> Referenced(t)) /\ (Wanted(t)' <=> Wanted(t))
    BY <2>1 DEF Referenced, Wanted
  <2> QED BY <1>1, <2>1, <2>2, <2>3, DataStepMatches
<1>4. CASE ~(uses[k] = None \/ ~Exists(from))
  <2> DEFINE changed == (IF moves THEN {from, to} ELSE {}) \cup (IF Exists(to) THEN {} ELSE {to})
  <2>1. /\ sources' = IF Exists(to) THEN sources ELSE [sources EXCEPT ![to] = NoInterval]
        /\ uses' = [uses EXCEPT ![k] = IF moves THEN to ELSE uses[k]]
        /\ Changed(h, changed, Todo(from))
        /\ behind' = IF moves THEN behind \cup {to} ELSE behind
    BY <1>a, <1>4 DEF RepointByURL
  <2>2. /\ \A g \in Handlers : GoesOn(g, changed) \/ Turns(g)
        /\ handlers'[h] = Todo(from)
    BY <1>1, <1>2, <2>1, ChangedFollows, NewHandlers, TodoFields DEF MatchInv
  <2>3. Pending(from)'
    BY <1>1, <2>2, TodoPending
  <2>4. \A t \in Sources : t \in changed \/ (Referenced(t)' <=> Referenced(t))
    <3>1. CASE moves
      BY <1>0, <1>1, <2>1, <3>1, UsesReferences
    <3>2. CASE ~moves
      BY <1>0, <1>1, <2>1, <3>2 DEF TypeOK, Referenced
    <3> QED BY <3>1, <3>2
  <2>5. \A t \in Sources \ changed : sources'[t] = sources[t]
    BY <1>0, <2>1 DEF TypeOK
  <2>6. \A t \in Sources \ changed : Wanted(t)' <=> Wanted(t)
    BY <2>4, <2>5 DEF Wanted
  <2>7. ~Exists(to) => ~Wanted(to) /\ ~Wanted(to)'
    <3>1. Gone \notin Intervals /\ NoInterval \notin Intervals
      BY ConstantsAssumption DEF Gone, NoInterval
    <3>2. ~Exists(to) => sources[to] = Gone /\ sources'[to] = NoInterval
      BY <1>0, <2>1 DEF TypeOK, Exists
    <3> QED BY <3>1, <3>2 DEF Wanted
  <2>8. \A t \in Sources \ behind' :
          Pending(t)' \/ ((Wanted(t)' <=> Wanted(t)) /\ (Wanted(t) => sources'[t] = sources[t]))
    BY <2>1, <2>3, <2>5, <2>6, <2>7
  <2>9. behind \subseteq behind'
    BY <2>1
  <2> HIDE DEF changed
  <2> QED BY <1>1, <2>2, <2>4, <2>5, <2>8, <2>9, DataStepMatches
<1> QED BY <1>3, <1>4

\* What the two reads of Reconcile leave in the handler.
LEMMA ReadSourceFields ==
  ASSUME handlers \in [Handlers -> Good], NEW h \in Handlers, ReadSource(h)
  PROVE  /\ handlers'[h].pc = IF Exists(handlers[h].todo[1]) THEN "references" ELSE "apply"
         /\ handlers'[h].todo = handlers[h].todo
         /\ handlers'[h].interval = sources[handlers[h].todo[1]]
         /\ \A g \in Handlers \ {h} : handlers'[g] = handlers[g]
<1> DEFINE pc == IF Exists(handlers[h].todo[1]) THEN "references" ELSE "apply"
           interval == sources[handlers[h].todo[1]]
           r == handlers[h]
           q == [r EXCEPT !.pc = pc, !.interval = interval, !.used = FALSE, !.stale = FALSE]
<1>1. handlers' = [handlers EXCEPT ![h] = q]
  BY DEF ReadSource
<1>2. r \in Handler
  BY DEF Good
<1>3. q.pc = pc /\ q.todo = r.todo /\ q.interval = interval
  <2> HIDE DEF pc, interval, r
  <2> QED BY <1>2 DEF Handler
<1> HIDE DEF q
<1> QED BY <1>1, <1>3

LEMMA ReadReferencesFields ==
  ASSUME handlers \in [Handlers -> Good], NEW h \in Handlers, ReadReferences(h)
  PROVE  /\ handlers'[h].pc = "apply"
         /\ handlers'[h].used = Referenced(handlers[h].todo[1])
         /\ handlers'[h].todo = handlers[h].todo
         /\ handlers'[h].interval = handlers[h].interval
         /\ handlers'[h].stale = handlers[h].stale
         /\ \A g \in Handlers \ {h} : handlers'[g] = handlers[g]
<1> DEFINE used == Referenced(handlers[h].todo[1])
           r == handlers[h]
           q == [r EXCEPT !.pc = "apply", !.used = used]
<1>1. handlers' = [handlers EXCEPT ![h] = q]
  BY DEF ReadReferences
<1>2. r \in Handler
  BY DEF Good
<1>3. /\ q.pc = "apply" /\ q.used = used /\ q.todo = r.todo
      /\ q.interval = r.interval /\ q.stale = r.stale
  <2> HIDE DEF used, r
  <2> QED BY <1>2 DEF Handler
<1> HIDE DEF q
<1> QED BY <1>1, <1>3

\* Reconcile reads,
LEMMA ReadStepMatches ==
  ASSUME MatchInv, TypeInv', NEW h \in Handlers, ReadSource(h) \/ ReadReferences(h)
  PROVE  MatchInv'
<1>0. TypeOK /\ handlers \in [Handlers -> Good] /\ handlers' \in [Handlers -> Good]
  BY DEF MatchInv, TypeInv
<1>1. /\ UNCHANGED <<sources, uses, jobs, entries, behind>>
      /\ handlers[h].pc \in Working /\ handlers'[h].pc \in Working
      /\ handlers'[h].todo = handlers[h].todo
      /\ \A g \in Handlers \ {h} : handlers'[g] = handlers[g]
  <2>1. CASE ReadSource(h)
    BY <1>0, <2>1, ReadSourceFields DEF ReadSource, Working
  <2>2. CASE ReadReferences(h)
    BY <1>0, <2>2, ReadReferencesFields DEF ReadReferences, Working
  <2> QED BY <2>1, <2>2
<1>2. \A t : (Referenced(t)' <=> Referenced(t)) /\ (Wanted(t)' <=> Wanted(t))
  BY <1>1 DEF Referenced, Wanted
<1>3. \A t : Pending(t) => Pending(t)'
  BY <1>1 DEF Pending
<1>4. \A t : Matches(t) => Matches(t)'
  BY <1>1, <1>2 DEF Matches
<1>5. \A g \in Handlers \ {h} : Fresh(g)'
  BY <1>1, <1>2 DEF MatchInv, Fresh
<1>6. Fresh(h)'
  <2>1. CASE ReadSource(h)
    <3>1. /\ handlers'[h].interval = sources[handlers[h].todo[1]]
          /\ handlers'[h].pc = IF Exists(handlers[h].todo[1]) THEN "references" ELSE "apply"
      BY <1>0, <2>1, ReadSourceFields
    <3>2. Gone \notin Intervals
      BY ConstantsAssumption DEF Gone
    <3> QED BY <1>1, <3>1, <3>2 DEF Fresh, Exists
  <2>2. CASE ReadReferences(h)
    <3>1. /\ handlers'[h].interval = handlers[h].interval
          /\ handlers'[h].stale = handlers[h].stale
          /\ handlers'[h].used = Referenced(handlers[h].todo[1])
          /\ handlers[h].pc = "references"
      BY <1>0, <2>2, ReadReferencesFields DEF ReadReferences
    <3> QED BY <1>1, <1>2, <3>1 DEF MatchInv, Fresh
  <2> QED BY <2>1, <2>2
<1> QED BY <1>1, <1>3, <1>4, <1>5, <1>6 DEF MatchInv

\* ... and applies what it read, to this source alone.
LEMMA ApplyJobs ==
  ASSUME TypeOK, NEW s \in Sources, NEW i, NEW used \in BOOLEAN, Apply(s, i, used)
  PROVE  /\ s \in DOMAIN jobs' <=> (i \in Intervals /\ used)
         /\ s \in DOMAIN jobs' => jobs'[s].interval = i
         /\ \A t \in Sources \ {s} : /\ t \in DOMAIN jobs' <=> t \in DOMAIN jobs
                                     /\ t \in DOMAIN jobs => jobs'[t] = jobs[t]
<1>1. CASE ~(i \in Intervals /\ used)
  BY <1>1 DEF Apply, Stop, Drop
<1>2. CASE i \in Intervals /\ used /\ s \in DOMAIN jobs /\ jobs[s].interval = i
  BY <1>2 DEF Apply
<1>3. CASE i \in Intervals /\ used /\ ~(s \in DOMAIN jobs /\ jobs[s].interval = i)
  BY <1>3 DEF Apply, Start, Put
<1> QED BY <1>1, <1>2, <1>3

LEMMA ReconcileMatches ==
  ASSUME MatchInv, TypeInv', NEW h \in Handlers, Reconcile(h)
  PROVE  MatchInv'
<1>0. TypeOK /\ handlers \in [Handlers -> Good]
  BY DEF MatchInv, TypeInv
<1>a. handlers[h].pc = "apply"
  BY DEF Reconcile
<1>b. PICK s \in Sources, next \in Sources \cup {None} :
        s = handlers[h].todo[1] /\ next = handlers[h].todo[2]
  BY <1>0, <1>a, TodoSources DEF Working
<1>1. /\ Apply(s, handlers[h].interval, handlers[h].used)
      /\ behind' = IF handlers[h].stale THEN behind \cup {s} ELSE behind \ {s}
      /\ handlers' = [handlers EXCEPT ![h] = IF next = None THEN Idle ELSE Todo(next)]
      /\ UNCHANGED <<sources, uses>>
  BY <1>b DEF Reconcile
<1>2. handlers[h].used \in BOOLEAN /\ handlers[h].stale \in BOOLEAN
  BY <1>0 DEF Good, Handler
<1>3. \A t : (Referenced(t)' <=> Referenced(t)) /\ (Wanted(t)' <=> Wanted(t))
  BY <1>1 DEF Referenced, Wanted
<1>4. /\ \A g \in Handlers \ {h} : handlers'[g] = handlers[g]
      /\ handlers'[h] = IF next = None THEN Idle ELSE Todo(next)
  BY <1>0, <1>1
<1>5. s \notin behind' => Matches(s)'
  <2>1. ASSUME s \notin behind'
        PROVE  Matches(s)'
    <3>1. handlers[h].stale = FALSE
      BY <1>1, <1>2, <2>1
    <3>2. /\ handlers[h].interval = sources[s]
          /\ handlers[h].interval \in Intervals => (handlers[h].used <=> Referenced(s))
      BY <1>a, <1>b, <3>1 DEF MatchInv, Fresh
    <3>3. Wanted(s) <=> (handlers[h].interval \in Intervals /\ handlers[h].used)
      BY <3>2 DEF Wanted
    <3>4. s \in DOMAIN jobs' <=> Wanted(s)
      BY <1>0, <1>1, <1>2, <3>3, ApplyJobs
    <3>5. s \in DOMAIN jobs' => jobs'[s].interval = sources[s]
      BY <1>0, <1>1, <1>2, <3>2, ApplyJobs
    <3> QED BY <1>1, <1>3, <3>4, <3>5 DEF Matches
  <2> QED BY <2>1
<1>6. ASSUME NEW t \in Sources \ {s}, t \notin behind'
      PROVE  Pending(t)' \/ Matches(t)'
  <2>1. Pending(t) \/ Matches(t)
    BY <1>1, <1>6 DEF MatchInv
  <2>2. CASE Matches(t)
    <3>1. /\ t \in DOMAIN jobs' <=> t \in DOMAIN jobs
          /\ t \in DOMAIN jobs => jobs'[t] = jobs[t]
      BY <1>0, <1>1, <1>2, ApplyJobs
    <3> QED BY <1>1, <1>3, <2>2, <3>1 DEF Matches
  <2>3. CASE Pending(t)
    <3>1. PICK g \in Handlers : /\ handlers[g].pc \in Working
                                /\ t = handlers[g].todo[1] \/ t = handlers[g].todo[2]
      BY <2>3 DEF Pending
    <3>2. CASE g # h
      BY <1>4, <3>1, <3>2 DEF Pending
    <3>3. CASE g = h
      <4>1. t = next /\ next # None
        BY <1>b, <1>6, <3>1, <3>3, ConstantsAssumption DEF None
      <4>2. handlers'[h] = Todo(t)
        BY <1>4, <4>1
      <4> QED BY <4>2, TodoPending
    <3> QED BY <3>2, <3>3
  <2> QED BY <2>1, <2>2, <2>3
<1>7. ASSUME NEW g \in Handlers PROVE Fresh(g)'
  <2>1. CASE g = h
    BY <1>4, <2>1, TodoFields DEF Fresh
  <2>2. CASE g # h
    BY <1>1, <1>3, <1>4, <2>2 DEF MatchInv, Fresh
  <2> QED BY <2>1, <2>2
<1> QED BY <1>5, <1>6, <1>7 DEF MatchInv

\* After a restart every job is started from what is stored.
LEMMA RestartMatches ==
  ASSUME MatchInv, TypeInv', Restart
  PROVE  MatchInv'
<1>1. /\ DOMAIN jobs' = {s \in Sources : Wanted(s)}
      /\ \A s \in DOMAIN jobs' : jobs'[s].interval = sources[s]
      /\ UNCHANGED <<sources, uses>>
      /\ handlers' = [h \in Handlers |-> Idle]
  BY DEF Restart
<1>2. \A t : Wanted(t)' <=> Wanted(t)
  BY <1>1 DEF Wanted, Referenced
<1>3. \A t \in Sources : Matches(t)'
  BY <1>1, <1>2 DEF Matches
<1>4. \A g \in Handlers : Fresh(g)'
  BY <1>1, TodoFields DEF Fresh
<1> QED BY <1>3, <1>4 DEF MatchInv

LEMMA NextMatches ==
  ASSUME MatchInv, [Next]_vars
  PROVE  MatchInv'
<1>0. TypeInv'
  BY NextTypes DEF MatchInv
<1>1. CASE UNCHANGED vars
  <2>1. \A t : Wanted(t)' <=> Wanted(t)
    BY <1>1 DEF vars, Wanted, Referenced
  <2>2. \A t : (Pending(t) => Pending(t)') /\ (Matches(t) => Matches(t)')
    BY <1>1, <2>1 DEF vars, Pending, Matches
  <2>3. \A g \in Handlers : Fresh(g)'
    BY <1>1 DEF vars, MatchInv, Fresh, Referenced
  <2> QED BY <1>0, <1>1, <2>2, <2>3 DEF vars, MatchInv
<1>2. ASSUME NEW h \in Handlers,
             \/ \E s \in Sources : CreateSource(h, s) \/ UpdateSource(h, s) \/ DeleteSource(h, s)
             \/ \E k \in Stacks : CreateStack(h, k) \/ DetachStack(h, k) \/ BeginRepoint(h, k)
             \/ Repoint(h) \/ RepointByURL(h)
             \/ ReadSource(h) \/ ReadReferences(h) \/ Reconcile(h)
      PROVE  MatchInv'
  BY <1>0, <1>2, SourceStepMatches, StackStepMatches, BeginRepointMatches, RepointMatches,
     RepointByURLMatches, ReadStepMatches, ReconcileMatches
<1>3. ASSUME NEW k \in Stacks, DeleteNamespace(k) PROVE MatchInv'
  BY <1>0, <1>3, NamespaceStepMatches
<1>4. CASE Restart
  BY <1>0, <1>4, RestartMatches
<1> QED BY <1>1, <1>2, <1>3, <1>4 DEF Next

LEMMA InitMatches == ASSUME Init PROVE MatchInv
<1>1. TypeInv
  BY InitTypes
<1>2. Gone \notin Intervals
  BY ConstantsAssumption DEF Gone
<1>3. \A s \in Sources : Matches(s)
  BY <1>2 DEF Init, Matches, Wanted, EmptyTable
<1>4. \A h \in Handlers : Fresh(h)
  BY TodoFields DEF Init, Fresh
<1> QED BY <1>1, <1>3, <1>4 DEF MatchInv

\* When no handler is at work, the sources polled are those that should be, each
\* at its interval, except those that are behind (stack_update_git.go:273-283).
THEOREM PollingIsRight == Spec => []PollingMatches
<1>1. ASSUME MatchInv PROVE PollingMatches
  <2>1. ASSUME \A h \in Handlers : handlers[h] = Idle, NEW s \in Sources \ behind
        PROVE  Matches(s)
    <3>1. ~Pending(s)
      BY <2>1, TodoFields DEF Pending, Working
    <3> QED BY <1>1, <2>1, <3>1 DEF MatchInv
  <2> QED BY <2>1 DEF Matches, PollingMatches
<1> QED BY <1>1, InitMatches, NextMatches, PTL DEF Spec
=============================================================================
