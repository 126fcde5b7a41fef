------------------------ MODULE ScheduledBuildsProofs ------------------------
(***************************************************************************)
(* What holds of scheduled builds for every value of the constants: types, *)
(* an ended build is over (EndedIsFinal), no build is forgotten            *)
(* (UnfinishedIsOwned) as long as nobody cancels or deletes, and, while    *)
(* targets and groups stay, the results of a build follow its status       *)
(* (ResultsAgree) and nothing is deployed where it was not pulled          *)
(* (DeployedWherePulled).                                                  *)
(***************************************************************************)
EXTENDS ScheduledBuilds, TablesTheorems, FiniteSetTheorems, WellFoundedInduction

-----------------------------------------------------------------------------
(* An ended build is over.                                                 *)

\* Builds have been given out, goroutines and requests work on builds.
Allocated ==
  /\ nextBuild \in Nat
  /\ \A b \in DOMAIN builds : b \in Nat /\ b < nextBuild
  /\ DOMAIN builders \subseteq DOMAIN builds
  /\ \A c \in DOMAIN calls :
       /\ {"pc", "b"} \subseteq DOMAIN calls[c]
       /\ calls[c].pc \in {"launch", "mark", "signal"} => calls[c].b \in DOMAIN builds

\* The recovery runs alone with the goroutines it has started, and has only
\* builds ahead of it that have not ended.
RecoveryAlone ==
  /\ \A b \in recovering : /\ b \in DOMAIN builds
                           /\ builds[b].status \in Open
                           /\ b \notin DOMAIN builders
  /\ recovering # {} => DOMAIN calls = {}
  /\ ~up => DOMAIN calls = {} /\ DOMAIN builders = {}

FinalInv == Allocated /\ RecoveryAlone

\* At the start there is no build.
LEMMA InitFinal == ASSUME Init PROVE FinalInv
BY DEF Init, FinalInv, Allocated, RecoveryAlone, EmptyTable

\* The goroutine of one build leaves every other build alone.
BuilderEffect(b) ==
  /\ b \in DOMAIN builders
  /\ UNCHANGED <<up, recovering, calls, nextBuild>>
  /\ DOMAIN builders' \subseteq DOMAIN builders
  /\ DOMAIN builds' \subseteq DOMAIN builds \cup {b}
  /\ \A a \in DOMAIN builds \ {b} : a \in DOMAIN builds' /\ builds'[a] = builds[a]
  /\ b \in DOMAIN builds => b \in DOMAIN builds'

\* Persisting a goroutine's record,
LEMMA PersistEffect ==
  ASSUME NEW b, NEW r, b \in DOMAIN builders, Persist(b, r),
         UNCHANGED <<up, recovering, calls, nextBuild>>
  PROVE  BuilderEffect(b)
BY DEF Persist, Put, BuilderEffect

\* ... ending it with a last word,
LEMMA EndWithEffect ==
  ASSUME NEW b, NEW build, b \in DOMAIN builders, EndWith(b, build),
         UNCHANGED <<up, recovering, calls, nextBuild>>
  PROVE  BuilderEffect(b)
BY DEF EndWith, Put, Drop, BuilderEffect

\* ... and steps that do not write the record.
LEMMA SilentEffect ==
  ASSUME NEW b, b \in DOMAIN builders, builds' = builds,
         DOMAIN builders' \subseteq DOMAIN builders,
         UNCHANGED <<up, recovering, calls, nextBuild>>
  PROVE  BuilderEffect(b)
BY DEF BuilderEffect

\* Every step of a goroutine but a panic.
LEMMA BuilderStepEffect ==
  ASSUME NEW b, BuilderStep(b) \/ EndPull(b), ~Panic(b)
  PROVE  BuilderEffect(b)
<1>1. CASE Start(b)
  BY <1>1, PersistEffect DEF Start, At, procVars
<1>2. CASE NextTarget(b)
  <2>1. /\ b \in DOMAIN builders
        /\ UNCHANGED <<up, recovering, calls, nextBuild>>
    BY <1>2 DEF NextTarget, MoreTargets, At, procVars
  <2>2. End(b) \/ \E r : Persist(b, r)
    BY <1>2 DEF NextTarget
  <2>3. End(b) => BuilderEffect(b)
    BY <2>1, SilentEffect DEF End, Drop
  <2> QED BY <2>1, <2>2, <2>3, PersistEffect
<1>3. CASE EndPull(b)
  BY <1>3, PersistEffect DEF EndPull, At, procVars
<1>4. CASE EndPulls(b)
  <2>1. /\ b \in DOMAIN builders
        /\ UNCHANGED <<up, recovering, calls, nextBuild>>
    BY <1>4 DEF EndPulls, At, procVars
  <2>2. (\E r : Persist(b, r)) \/ \E build : EndWith(b, build)
    BY <1>4 DEF EndPulls
  <2> QED BY <2>1, <2>2, PersistEffect, EndWithEffect
<1>5. CASE CheckTime(b) \/ Select(b)
  BY <1>5, SilentEffect DEF CheckTime, Select, Goto, End, Drop, At, procVars
<1>6. CASE StoreCompose(b)
  BY <1>6, SilentEffect DEF StoreCompose, At, procVars
<1>7. CASE Acquire(b) \/ LaunchOperation(b)
  <2>1. /\ b \in DOMAIN builders
        /\ UNCHANGED <<up, recovering, calls, nextBuild>>
    BY <1>7 DEF Acquire, LaunchOperation, At, procVars
  <2>2. Goto(b, "launch") \/ Goto(b, "finish") \/ \E build : EndWith(b, build)
    BY <1>7 DEF Acquire, LaunchOperation
  <2>3. Goto(b, "launch") \/ Goto(b, "finish") => BuilderEffect(b)
    BY <2>1, SilentEffect DEF Goto
  <2> QED BY <2>1, <2>2, <2>3, EndWithEffect
<1>8. CASE FinishBuild(b)
  BY <1>8, EndWithEffect DEF FinishBuild, At, procVars
<1> QED BY <1>1, <1>2, <1>3, <1>4, <1>5, <1>6, <1>7, <1>8 DEF BuilderStep

\* Such a step keeps the invariant and all ended builds nobody works on.
LEMMA EffectFinal ==
  ASSUME FinalInv, NEW b, BuilderEffect(b)
  PROVE  FinalInv'
<1> USE DEF BuilderEffect
<1>1. Allocated'
  BY DEF FinalInv, Allocated
<1>2. RecoveryAlone'
  BY DEF FinalInv, RecoveryAlone
<1> QED BY <1>1, <1>2 DEF FinalInv

\* What EndedIsFinal says of a step.
EndedStays ==
  \A b \in DOMAIN builds :
    builds[b].status \notin Open /\ Quiet(b) =>
      /\ b \in DOMAIN builds' /\ builds'[b] = builds[b]
      /\ b \notin DOMAIN builders'

\* A goroutine works on a build that is not quiet.
LEMMA EffectStays ==
  ASSUME NEW b, BuilderEffect(b)
  PROVE  EndedStays
BY DEF BuilderEffect, EndedStays, Quiet

\* Steps that change neither builds nor goroutines' builds, and start no request
\* on a build.
LEMMA SilentFinal ==
  ASSUME FinalInv, UNCHANGED <<up, recovering, builds, nextBuild, calls>>,
         DOMAIN builders' \subseteq DOMAIN builders
  PROVE  FinalInv' /\ EndedStays
BY DEF FinalInv, Allocated, RecoveryAlone, EndedStays, Quiet

\* A request with record v begins.
Begins(c, v) == /\ calls' = Put(calls, c, v)
                /\ {"pc", "b"} \subseteq DOMAIN v
                /\ v.pc = "resolve" \/ v.b \in DOMAIN builds

\* Requests that begin while the server listens.
LEMMA HandlersFinal ==
  ASSUME FinalInv, NEW c, Handlers(c)
  PROVE  FinalInv' /\ EndedStays
<1>1. /\ UNCHANGED <<up, recovering, builds, nextBuild, builders>>
      /\ up /\ recovering = {}
  BY DEF Handlers, BeginSchedule, BeginCancel, Serving, procVars, dbVars
<1>2. EndedStays
  BY <1>1 DEF EndedStays, Quiet
<1>3. RecoveryAlone'
  BY <1>1 DEF FinalInv, RecoveryAlone
<1>4. Allocated'
  <2>1. \E v : Begins(c, v)
    <3>1. ASSUME NEW i, NEW compose, BeginSchedule(c, i, compose) PROVE \E v : Begins(c, v)
      <4> DEFINE v == [pc |-> "resolve", b |-> Nobody, copy |-> instances[i],
                       envs |-> << >>,
                       build |-> [id |-> i, compose |-> compose,
                                  status |-> "Pending", results |-> << >>]]
      <4>1. calls' = Put(calls, c, v)
        BY <3>1 DEF BeginSchedule
      <4>2. {"pc", "b"} \subseteq DOMAIN v /\ v.pc = "resolve"
        OBVIOUS
      <4> QED BY <4>1, <4>2 DEF Begins
    <3>2. ASSUME NEW b, BeginCancel(c, b) PROVE \E v : Begins(c, v)
      <4> DEFINE v == [pc |-> "mark", b |-> b, build |-> builds[b]]
      <4>1. calls' = Put(calls, c, v) /\ b \in DOMAIN builds
        BY <3>2 DEF BeginCancel
      <4>2. {"pc", "b"} \subseteq DOMAIN v /\ v.b = b
        OBVIOUS
      <4> QED BY <4>1, <4>2 DEF Begins
    <3> QED BY <3>1, <3>2 DEF Handlers
  <2> QED BY <1>1, <2>1 DEF Begins, FinalInv, Allocated, Put
<1> QED BY <1>2, <1>3, <1>4 DEF FinalInv

\* The steps of a request: only creating the record, launching the goroutine
\* and cancelling touch a build, and that one is not quiet.
LEMMA HandlerStepFinal ==
  ASSUME FinalInv, NEW c, HandlerStep(c)
  PROVE  FinalInv' /\ EndedStays
<1>0. c \in DOMAIN calls /\ UNCHANGED <<up, recovering>> /\ recovering = {} /\ up
  BY DEF HandlerStep, ResolveSchedule, CreateBuild, LaunchBuild, MarkCancelled,
         SignalCancel, procVars, FinalInv, RecoveryAlone
<1>1. CASE ResolveSchedule(c)
  <2>1. UNCHANGED <<builds, nextBuild, builders>>
    BY <1>1 DEF ResolveSchedule, dbVars
  <2>2. /\ DOMAIN calls' \subseteq DOMAIN calls
        /\ \A d \in DOMAIN calls' :
             \/ calls'[d] = calls[d]
             \/ DOMAIN calls'[d] = DOMAIN calls[d] /\ calls'[d].pc = "create"
    <3>1. CASE Return(c)
      BY <3>1 DEF Return, Drop
    <3>2. CASE ~Return(c)
      BY <1>0, <1>1, <3>2 DEF ResolveSchedule, FinalInv, Allocated
    <3> QED BY <3>1, <3>2
  <2> QED BY <1>0, <2>1, <2>2 DEF FinalInv, Allocated, RecoveryAlone, EndedStays, Quiet
<1>2. CASE CreateBuild(c)
  <2>1. /\ builds' = Put(builds, nextBuild, calls[c].build)
        /\ nextBuild' = nextBuild + 1
        /\ builders' = builders
        /\ DOMAIN calls' = DOMAIN calls
        /\ \A d \in DOMAIN calls : d # c => calls'[d] = calls[d]
        /\ calls'[c].b = nextBuild /\ DOMAIN calls'[c] = DOMAIN calls[c]
    BY <1>0, <1>2 DEF CreateBuild, FinalInv, Allocated
  <2>2. /\ DOMAIN builds' = DOMAIN builds \cup {nextBuild}
        /\ \A b \in DOMAIN builds : b # nextBuild => builds'[b] = builds[b]
    BY <2>1 DEF Put
  <2>3. nextBuild \in Nat /\ nextBuild \notin DOMAIN builds
    BY DEF FinalInv, Allocated
  <2>4. Allocated'
    BY <1>0, <2>1, <2>2, <2>3 DEF FinalInv, Allocated
  <2> QED BY <1>0, <2>1, <2>2, <2>3, <2>4
          DEF FinalInv, Allocated, RecoveryAlone, EndedStays, Quiet
<1>3. CASE LaunchBuild(c)
  <2>1. /\ UNCHANGED <<builds, nextBuild>>
        /\ DOMAIN builders' = DOMAIN builders \cup {calls[c].b}
        /\ calls' = Drop(calls, {c})
        /\ calls[c].b \in DOMAIN builds
    BY <1>0, <1>3 DEF LaunchBuild, Put, Return, dbVars, FinalInv, Allocated
  <2> QED BY <1>0, <2>1
          DEF Drop, FinalInv, Allocated, RecoveryAlone, EndedStays, Quiet
<1>4. CASE MarkCancelled(c)
  <2>1. /\ UNCHANGED <<nextBuild, builders>>
        /\ calls[c].b \in DOMAIN builds
        /\ DOMAIN builds' = DOMAIN builds
        /\ \A b \in DOMAIN builds : b # calls[c].b => builds'[b] = builds[b]
        /\ DOMAIN calls' = DOMAIN calls
        /\ \A d \in DOMAIN calls : d # c => calls'[d] = calls[d]
        /\ calls'[c].b = calls[c].b /\ DOMAIN calls'[c] = DOMAIN calls[c]
    BY <1>0, <1>4 DEF MarkCancelled, Put, FinalInv, Allocated
  <2> QED BY <1>0, <2>1 DEF FinalInv, Allocated, RecoveryAlone, EndedStays, Quiet
<1>5. CASE SignalCancel(c)
  <2>1. /\ UNCHANGED <<builds, nextBuild>>
        /\ DOMAIN builders' \subseteq DOMAIN builders
        /\ calls' = Drop(calls, {c})
    BY <1>5 DEF SignalCancel, Return, Drop, dbVars
  <2> QED BY <1>0, <2>1
          DEF Drop, FinalInv, Allocated, RecoveryAlone, EndedStays, Quiet
<1> QED BY <1>1, <1>2, <1>3, <1>4, <1>5 DEF HandlerStep

\* The death of the process leaves the records.
LEMMA DieFinal ==
  ASSUME FinalInv, Die
  PROVE  FinalInv' /\ EndedStays
BY DEF Die, dbVars, EmptyTable, FinalInv, Allocated, RecoveryAlone, EndedStays, Quiet

\* The recovery reads open builds, with nobody at work,
LEMMA RestartFinal ==
  ASSUME FinalInv, Restart
  PROVE  FinalInv' /\ EndedStays
BY DEF Restart, Unfinished, dbVars, FinalInv, Allocated, RecoveryAlone, EndedStays, Quiet

\* ... and works on one of them at a time.
LEMMA RecoverFinal ==
  ASSUME FinalInv, NEW b, RecoverBuild(b)
  PROVE  FinalInv' /\ EndedStays
<1>1. /\ UNCHANGED <<up, nextBuild, calls>>
      /\ up /\ b \in recovering /\ recovering' = recovering \ {b}
      /\ b \in DOMAIN builds /\ builds[b].status \in Open
  BY DEF RecoverBuild, FinalInv, RecoveryAlone
<1>2. /\ DOMAIN builders' \subseteq DOMAIN builders \cup {b}
      /\ DOMAIN builds' = DOMAIN builds
      /\ \A a \in DOMAIN builds \ {b} : builds'[a] = builds[a]
  BY DEF RecoverBuild, Put
<1> QED BY <1>1, <1>2 DEF FinalInv, Allocated, RecoveryAlone, EndedStays, Quiet

\* Every step.
LEMMA NextFinal ==
  ASSUME FinalInv, [Next]_vars
  PROVE  FinalInv' /\ (Next => EndedStays)
<1>1. ASSUME NEW c, Handlers(c) \/ HandlerStep(c) PROVE FinalInv' /\ EndedStays
  BY <1>1, HandlersFinal, HandlerStepFinal
<1>2. ASSUME NEW b, BuilderStep(b) \/ EndPull(b) PROVE FinalInv' /\ EndedStays
  BY <1>2, BuilderStepEffect, EffectFinal, EffectStays, DieFinal DEF Panic
<1>3. ASSUME NEW b, TimeComes(b) PROVE FinalInv' /\ EndedStays
  BY <1>3, SilentFinal DEF TimeComes, procVars, dbVars
<1>4. ASSUME NEW b, RecoverBuild(b) PROVE FinalInv' /\ EndedStays
  BY <1>4, RecoverFinal
<1>5. ASSUME NEW i, InstanceStep(i) PROVE FinalInv' /\ EndedStays
  BY <1>5, SilentFinal DEF InstanceStep, StartOperation, EndOperation,
     DeleteInstance, EditInstance, procVars, dbVars
<1>6. ASSUME NEW e, MoveEnvironment(e) PROVE FinalInv' /\ EndedStays
  BY <1>6, SilentFinal DEF MoveEnvironment, procVars, dbVars
<1>7. CASE Crash
  BY <1>7, DieFinal DEF Crash
<1>8. CASE Restart
  BY <1>8, RestartFinal
<1>9. CASE UNCHANGED vars
  BY <1>9, SilentFinal DEF vars
<1> QED BY <1>1, <1>2, <1>3, <1>4, <1>5, <1>6, <1>7, <1>8, <1>9 DEF Next

\* A build that has ended, and that nobody is at work on, stays as it is and is
\* never taken up again: by no other request, and by no recovery.
THEOREM EndedBuildsStay == Spec => EndedIsFinal
<1>1. Init => FinalInv
  BY InitFinal
<1>2. FinalInv /\ [Next]_vars => FinalInv'
  BY NextFinal
<1>3. FinalInv /\ [Next]_vars => [EndedStays]_vars
  BY NextFinal
<1>4. EndedIsFinal <=> [][EndedStays]_vars
  BY DEF EndedIsFinal, EndedStays
<1> QED BY <1>1, <1>2, <1>3, <1>4, PTL DEF Spec

-----------------------------------------------------------------------------
(* No build is forgotten.                                                  *)

\* The fields that the argument speaks of are there, and builds belong to
\* instances.
BuildShape(x)   == {"id", "status", "results"} \subseteq DOMAIN x /\ x.id \in Instances
BuilderShape(r) == /\ {"pc", "build", "copy", "i", "failed", "cancelled"} \subseteq DOMAIN r
                   /\ BuildShape(r.build)
                   /\ ~r.cancelled
CallShape(q)    == /\ {"pc", "b", "build", "envs"} \subseteq DOMAIN q
                   /\ BuildShape(q.build)
                   /\ q.pc \in {"resolve", "create", "launch"}

\* Nobody cancels and nothing is deleted, so goroutines come to their end and
\* every build has its instance.
OwnedInv ==
  /\ UnfinishedIsOwned
  /\ \A c \in DOMAIN calls : CallShape(calls[c])
  /\ \A b \in DOMAIN builders : BuilderShape(builders[b])
  /\ \A b \in DOMAIN builds : BuildShape(builds[b])
  /\ Instances \subseteq DOMAIN instances

\* The goroutine goes on, or ends the build.
KeepsOn(b) == \E r : /\ BuilderShape(r)
                     /\ builders' = [builders EXCEPT ![b] = r]
                     /\ builds' = builds \/ builds' = Put(builds, b, r.build)
EndsIt(b)  == \E x : /\ BuildShape(x) /\ x.status \notin Open
                     /\ EndWith(b, x)

\* What the steps of a goroutine make of its record.
LEMMA ShapeMoves ==
  ASSUME NEW r, BuilderShape(r)
  PROVE  /\ BuilderShape([r EXCEPT !.pc = "next", !.build.status = "Pulling"])
         /\ BuilderShape([r EXCEPT !.pc = "ready", !.build.status = "ImageReady"])
         /\ \A pc : BuilderShape([r EXCEPT !.pc = pc])
         /\ \A copy : BuilderShape([r EXCEPT !.copy = copy, !.pc = "acquire"])
         /\ \A status : BuilderShape(WithResult(r, status))
         /\ \A i : BuilderShape([r EXCEPT !.i = i])
         /\ \A i, failed : BuilderShape([r EXCEPT !.pc = "next", !.i = i, !.failed = failed])
BY DEF BuilderShape, BuildShape, WithResult

\* What the last steps make of the build.
LEMMA BuildMoves ==
  ASSUME NEW x, BuildShape(x)
  PROVE  /\ BuildShape(FailedBuild(x)) /\ FailedBuild(x).status = "Failed"
         /\ \A f : /\ BuildShape([x EXCEPT !.status = "Deployed", !.results = f])
                   /\ [x EXCEPT !.status = "Deployed", !.results = f].status = "Deployed"
         /\ BuildShape([x EXCEPT !.status = "Failed"])
         /\ [x EXCEPT !.status = "Failed"].status = "Failed"
BY DEF BuildShape, FailedBuild

\* Every step of a goroutine but a panic.
LEMMA BuilderStepOwned ==
  ASSUME OwnedInv, NEW b, BuilderStep(b) \/ EndPull(b), ~Panic(b)
  PROVE  KeepsOn(b) \/ EndsIt(b)
<1> DEFINE r == builders[b]
<1>0. b \in DOMAIN builders /\ BuilderShape(r) /\ BuildShape(r.build) /\ ~r.cancelled
  <2>1. b \in DOMAIN builders
    BY BuilderStepEffect DEF BuilderEffect
  <2> QED BY <2>1 DEF OwnedInv, BuilderShape
<1>1. ASSUME NEW q, BuilderShape(q), Persist(b, q) PROVE KeepsOn(b)
  BY <1>1 DEF Persist, KeepsOn
<1>2. ASSUME NEW x, BuildShape(x), x.status \notin Open, EndWith(b, x) PROVE EndsIt(b)
  BY <1>2 DEF EndsIt
<1>3. ASSUME NEW pc, Goto(b, pc) PROVE KeepsOn(b)
  <2>1. BuilderShape([r EXCEPT !.pc = pc])
    BY <1>0, ShapeMoves
  <2> QED BY <1>3, <2>1 DEF Goto, KeepsOn
<1>4. CASE Start(b)
  <2>1. BuilderShape([r EXCEPT !.pc = "next", !.build.status = "Pulling"])
    BY <1>0, ShapeMoves
  <2> QED BY <1>1, <1>4, <2>1 DEF Start
<1>5. CASE NextTarget(b)
  <2>1. /\ BuilderShape([WithResult(r, "Skipped") EXCEPT !.i = r.i + 1])
        /\ BuilderShape([WithResult(r, "Pulling") EXCEPT !.pc = "pull"])
    <3>1. BuilderShape(WithResult(r, "Skipped")) /\ BuilderShape(WithResult(r, "Pulling"))
      BY <1>0, ShapeMoves
    <3> QED BY <3>1, ShapeMoves
  <2> QED BY <1>0, <1>1, <1>5, <2>1 DEF NextTarget
<1>6. CASE EndPull(b)
  <2>1. ASSUME NEW status
        PROVE  BuilderShape([WithResult(r, status) EXCEPT
                     !.pc = "next", !.i = r.i + 1, !.failed = (status = "Failed")])
    <3>1. BuilderShape(WithResult(r, status))
      BY <1>0, ShapeMoves
    <3> QED BY <3>1, ShapeMoves
  <2> QED BY <1>1, <1>6, <2>1 DEF EndPull
<1>7. FailedBuild(r.build).status \notin Open /\ BuildShape(FailedBuild(r.build))
  BY <1>0, BuildMoves DEF Open
<1>8. CASE EndPulls(b)
  <2>1. BuilderShape([r EXCEPT !.pc = "ready", !.build.status = "ImageReady"])
    BY <1>0, ShapeMoves
  <2> QED BY <1>1, <1>2, <1>7, <1>8, <2>1 DEF EndPulls
<1>9. CASE CheckTime(b) \/ Select(b)
  BY <1>0, <1>3, <1>9 DEF CheckTime, Select
<1>10. CASE StoreCompose(b)
  <2> DEFINE copy == [r.copy EXCEPT !.compose = r.build.compose]
             q    == [r EXCEPT !.copy = copy, !.pc = "acquire"]
  <2>1. BuilderShape(q)
    BY <1>0, ShapeMoves
  <2>2. builders' = [builders EXCEPT ![b] = q] /\ builds' = builds
    BY <1>0, <1>10 DEF StoreCompose
  <2> HIDE DEF q
  <2> QED BY <2>1, <2>2 DEF KeepsOn
<1>11. CASE Acquire(b) \/ LaunchOperation(b)
  BY <1>2, <1>3, <1>7, <1>11 DEF Acquire, LaunchOperation
<1>12. CASE FinishBuild(b)
  <2> DEFINE x == [r.build EXCEPT !.status = "Deployed",
                     !.results = [j \in DOMAIN @ |-> [@[j] EXCEPT !.status = "Deployed"]]]
  <2>1. BuildShape(x) /\ x.status = "Deployed"
    BY <1>0, BuildMoves
  <2>2. EndWith(b, x)
    BY <1>12 DEF FinishBuild
  <2> HIDE DEF x
  <2> QED BY <1>2, <2>1, <2>2 DEF Open
<1> QED BY <1>4, <1>5, <1>6, <1>8, <1>9, <1>10, <1>11, <1>12 DEF BuilderStep

\* Such a step forgets no build.
LEMMA GoesOnOwned ==
  ASSUME OwnedInv, NEW b, BuilderEffect(b), KeepsOn(b) \/ EndsIt(b),
         Instances \subseteq DOMAIN instances'
  PROVE  OwnedInv'
<1>1. CASE KeepsOn(b)
  <2>1. PICK r : /\ BuilderShape(r)
                 /\ builders' = [builders EXCEPT ![b] = r]
                 /\ builds' = builds \/ builds' = Put(builds, b, r.build)
    BY <1>1 DEF KeepsOn
  <2>2. BuildShape(r.build)
    BY <2>1 DEF BuilderShape
  <2>3. /\ UNCHANGED <<up, recovering, calls>> /\ b \in DOMAIN builders
        /\ DOMAIN builders' = DOMAIN builders
        /\ \A a \in DOMAIN builders : builders'[a] = builders[a] \/ builders'[a] = r
        /\ \A a \in DOMAIN builds' : builds'[a] = r.build \/
             (a \in DOMAIN builds /\ builds'[a] = builds[a])
        /\ \A a \in DOMAIN builds' \ {b} : a \in DOMAIN builds /\ builds'[a] = builds[a]
    BY <2>1 DEF BuilderEffect, Put
  <2>4. UnfinishedIsOwned'
    BY <2>3 DEF OwnedInv, UnfinishedIsOwned, NotEnded
  <2> QED BY <2>1, <2>2, <2>3, <2>4 DEF OwnedInv
<1>2. CASE EndsIt(b)
  <2>1. PICK x : BuildShape(x) /\ x.status \notin Open /\ EndWith(b, x)
    BY <1>2 DEF EndsIt
  <2>2. /\ UNCHANGED <<up, recovering, calls>>
        /\ builders' = Drop(builders, {b})
        /\ builds' = Put(builds, b, x)
    BY <2>1 DEF BuilderEffect, EndWith
  <2>3. UnfinishedIsOwned'
    BY <2>1, <2>2 DEF OwnedInv, UnfinishedIsOwned, NotEnded, Put, Drop
  <2> QED BY <2>1, <2>2, <2>3 DEF OwnedInv, Put, Drop
<1> QED BY <1>1, <1>2

NoWithdrawals == Requests \cap {"cancel", "delete"} = {}

\* At the start there is no build.
LEMMA InitOwned == Init => OwnedInv
BY DEF Init, OwnedInv, UnfinishedIsOwned, NotEnded, EmptyTable

\* Without cancellations only schedule requests begin.
LEMMA HandlersOwned ==
  ASSUME NoWithdrawals, OwnedInv, NEW c, Handlers(c)
  PROVE  OwnedInv'
<1>1. PICK i \in Instances, compose \in ComposeFiles : BeginSchedule(c, i, compose)
  BY DEF Handlers, NoWithdrawals
<1> DEFINE q == [pc |-> "resolve", b |-> Nobody, copy |-> instances[i], envs |-> <<>>,
                 build |-> [id |-> i, compose |-> compose, status |-> "Pending",
                            results |-> <<>>]]
<1>2. CallShape(q)
  BY DEF CallShape, BuildShape
<1>3. /\ calls' = Put(calls, c, q) /\ c \notin DOMAIN calls
      /\ UNCHANGED <<up, recovering, builds, builders, instances>>
  BY <1>1 DEF BeginSchedule, procVars, dbVars
<1> HIDE DEF q
<1>4. /\ \A d \in DOMAIN calls' : CallShape(calls'[d])
      /\ \A d \in DOMAIN calls : d \in DOMAIN calls' /\ calls'[d] = calls[d]
  BY <1>2, <1>3 DEF Put, OwnedInv
<1>5. UnfinishedIsOwned'
  BY <1>3, <1>4 DEF OwnedInv, UnfinishedIsOwned, NotEnded
<1> QED BY <1>3, <1>4, <1>5 DEF OwnedInv

\* Resolving changes a request's results, not its build's instance.
LEMMA ResolvedShape ==
  ASSUME NEW q, CallShape(q), NEW envs, NEW f
  PROVE  /\ CallShape([q EXCEPT !.pc = "create", !.envs = envs, !.build.results = f])
         /\ [q EXCEPT !.pc = "create", !.envs = envs, !.build.results = f].pc = "create"
BY DEF CallShape, BuildShape

\* The goroutine of a build takes over from the request that created it.
LEMMA HandlerStepOwned ==
  ASSUME FinalInv, OwnedInv, NEW c, HandlerStep(c)
  PROVE  OwnedInv'
<1>0. /\ c \in DOMAIN calls /\ CallShape(calls[c])
      /\ UNCHANGED <<up, recovering, instances>>
  BY DEF HandlerStep, ResolveSchedule, CreateBuild, LaunchBuild, MarkCancelled,
         SignalCancel, procVars, dbVars, OwnedInv
<1>1. CASE ResolveSchedule(c)
  <2>1. UNCHANGED <<builds, builders>> /\ calls[c].pc = "resolve"
    BY <1>1 DEF ResolveSchedule, dbVars
  <2>2. /\ DOMAIN calls' \subseteq DOMAIN calls
        /\ \A d \in DOMAIN calls \ {c} : d \in DOMAIN calls' /\ calls'[d] = calls[d]
        /\ c \in DOMAIN calls' => CallShape(calls'[c])
    <3>1. CASE Return(c)
      BY <3>1 DEF Return, Drop
    <3>2. CASE ~Return(c)
      <4> DEFINE envs == ResolveInOrder(calls[c].copy.target)
                 q == [calls[c] EXCEPT !.pc = "create", !.envs = envs,
                          !.build.results = [j \in DOMAIN envs |->
                             [env |-> envs[j], status |-> "Pending"]]]
      <4>1. CallShape(q)
        BY <1>0, ResolvedShape
      <4>2. calls' = [calls EXCEPT ![c] = q]
        BY <1>0, <1>1, <3>2 DEF ResolveSchedule
      <4> HIDE DEF q
      <4> QED BY <1>0, <4>1, <4>2
    <3> QED BY <3>1, <3>2
  <2>3. UnfinishedIsOwned'
    BY <1>0, <2>1, <2>2 DEF OwnedInv, UnfinishedIsOwned, NotEnded
  <2> QED BY <1>0, <2>1, <2>2, <2>3 DEF OwnedInv
<1>2. CASE CreateBuild(c)
  <2> DEFINE q == [calls[c] EXCEPT !.pc = "launch", !.b = nextBuild]
  <2>1. CallShape(q) /\ q.pc = "launch" /\ q.b = nextBuild
    BY <1>0 DEF CallShape
  <2>2. /\ builds' = Put(builds, nextBuild, calls[c].build)
        /\ builders' = builders
        /\ calls' = [calls EXCEPT ![c] = q] /\ calls[c].pc = "create"
    BY <1>0, <1>2 DEF CreateBuild
  <2> HIDE DEF q
  <2>3. BuildShape(calls[c].build)
    BY <1>0 DEF CallShape
  <2>4. UnfinishedIsOwned'
    BY <1>0, <2>1, <2>2 DEF OwnedInv, UnfinishedIsOwned, NotEnded, Put
  <2> QED BY <1>0, <2>1, <2>2, <2>3, <2>4 DEF OwnedInv, Put
<1>3. CASE LaunchBuild(c)
  <2> DEFINE r == NewBuilder(calls[c].build, calls[c].copy, calls[c].envs)
  <2>1. BuilderShape(r)
    BY <1>0 DEF NewBuilder, BuilderShape, CallShape
  <2>2. /\ builders' = Put(builders, calls[c].b, r)
        /\ calls' = Drop(calls, {c})
        /\ builds' = builds
    BY <1>3 DEF LaunchBuild, Return, dbVars
  <2> HIDE DEF r
  <2>3. UnfinishedIsOwned'
    BY <1>0, <2>2 DEF OwnedInv, UnfinishedIsOwned, NotEnded, Put, Drop
  <2> QED BY <1>0, <2>1, <2>2, <2>3 DEF OwnedInv, Put, Drop
<1>4. ~MarkCancelled(c) /\ ~SignalCancel(c)
  BY <1>0 DEF MarkCancelled, SignalCancel, CallShape
<1> QED BY <1>1, <1>2, <1>3, <1>4 DEF HandlerStep

\* The process dies, and its memory with it.
LEMMA DieOwned ==
  ASSUME OwnedInv, Die
  PROVE  OwnedInv'
BY DEF OwnedInv, Die, dbVars, EmptyTable, UnfinishedIsOwned

\* It is started again with every build that had not ended,
LEMMA RestartOwned ==
  ASSUME OwnedInv, Restart
  PROVE  OwnedInv'
BY DEF OwnedInv, Restart, dbVars, UnfinishedIsOwned, NotEnded, Unfinished

\* ... and each of them gets a goroutine or fails.
LEMMA RecoverOwned ==
  ASSUME OwnedInv, FinalInv, NEW b, RecoverBuild(b)
  PROVE  OwnedInv'
<1>1. /\ UNCHANGED <<up, calls, instances>>
      /\ b \in recovering /\ recovering' = recovering \ {b}
      /\ b \in DOMAIN builds /\ BuildShape(builds[b])
      /\ builds[b].id \in DOMAIN instances
  BY DEF RecoverBuild, FinalInv, RecoveryAlone, OwnedInv, BuildShape
<1>2. CASE UNCHANGED builders
  <2> DEFINE x == [builds[b] EXCEPT !.status = "Failed"]
  <2>1. BuildShape(x) /\ x.status = "Failed"
    BY <1>1, BuildMoves
  <2>2. builds' = [builds EXCEPT ![b] = x] \/ b \in DOMAIN builders'
    BY <1>1, <1>2 DEF RecoverBuild, Put
  <2>3. ~(b \in DOMAIN builders')
    BY <1>1, <1>2 DEF FinalInv, RecoveryAlone
  <2> HIDE DEF x
  <2>4. UnfinishedIsOwned'
    BY <1>1, <1>2, <2>1, <2>2, <2>3 DEF OwnedInv, UnfinishedIsOwned, NotEnded, Open
  <2> QED BY <1>1, <1>2, <2>1, <2>2, <2>3, <2>4 DEF OwnedInv
<1>3. CASE ~UNCHANGED builders
  <2> DEFINE i    == builds[b].id
             envs == ResolveInOrder(instances[i].target)
             r    == NewBuilder(builds[b], instances[i], envs)
  <2>1. BuilderShape(r)
    BY <1>1 DEF NewBuilder, BuilderShape
  <2>2. builders' = Put(builders, b, r) /\ builds' = builds
    BY <1>1, <1>3 DEF RecoverBuild
  <2> HIDE DEF r
  <2>3. UnfinishedIsOwned'
    BY <1>1, <2>2 DEF OwnedInv, UnfinishedIsOwned, NotEnded, Put
  <2> QED BY <1>1, <2>1, <2>2, <2>3 DEF OwnedInv, Put
<1> QED BY <1>2, <1>3

\* Steps beside the builds.
LEMMA SilentOwned ==
  ASSUME OwnedInv, UNCHANGED <<up, recovering, builds, calls, builders>>,
         Instances \subseteq DOMAIN instances'
  PROVE  OwnedInv'
BY DEF OwnedInv, UnfinishedIsOwned, NotEnded

\* Time comes: the goroutine that waits goes on.
LEMMA TimeOwned ==
  ASSUME OwnedInv, NEW b, TimeComes(b)
  PROVE  OwnedInv'
<1>1. UNCHANGED <<up, recovering, builds, calls, instances>>
  BY DEF TimeComes, procVars, dbVars
<1>2. CASE At(b, "parked")
  <2> DEFINE r == [builders[b] EXCEPT !.pc = "store"]
  <2>1. BuilderShape(r) /\ b \in DOMAIN builders
    BY <1>2, ShapeMoves DEF At, OwnedInv
  <2>2. builders' = [builders EXCEPT ![b] = r]
    BY <1>2 DEF TimeComes
  <2> HIDE DEF r
  <2> QED BY <1>1, <2>1, <2>2 DEF OwnedInv, UnfinishedIsOwned, NotEnded
<1>3. CASE ~At(b, "parked")
  BY <1>1, <1>3, SilentOwned DEF TimeComes, OwnedInv
<1> QED BY <1>2, <1>3

\* Every step.
LEMMA NextOwned ==
  ASSUME NoWithdrawals, FinalInv, OwnedInv, [Next]_vars
  PROVE  OwnedInv'
<1>0. Instances \subseteq DOMAIN instances
  BY DEF OwnedInv
<1>1. ASSUME NEW c, Handlers(c) \/ HandlerStep(c) PROVE OwnedInv'
  BY <1>1, HandlersOwned, HandlerStepOwned
<1>2. ASSUME NEW b, BuilderStep(b) \/ EndPull(b) PROVE OwnedInv'
  <2>1. CASE Panic(b)
    BY <2>1, DieOwned DEF Panic
  <2>2. CASE ~Panic(b)
    <3>1. Instances \subseteq DOMAIN instances'
      <4>1. CASE StoreCompose(b)
        BY <1>0, <4>1 DEF StoreCompose, Put
      <4>2. CASE ~StoreCompose(b)
        <5>1. instances' = instances
          BY <1>2, <2>2, <4>2 DEF BuilderStep, Start, NextTarget, EndPull, EndPulls,
             CheckTime, Select, Acquire, LaunchOperation, FinishBuild
        <5> QED BY <1>0, <5>1
      <4> QED BY <4>1, <4>2
    <3> QED BY <1>2, <2>2, <3>1, BuilderStepOwned, BuilderStepEffect, GoesOnOwned
  <2> QED BY <2>1, <2>2
<1>3. ASSUME NEW b, TimeComes(b) \/ RecoverBuild(b) PROVE OwnedInv'
  BY <1>3, TimeOwned, RecoverOwned
<1>4. ASSUME NEW i, InstanceStep(i) PROVE OwnedInv'
  <2>1. Instances \subseteq DOMAIN instances'
    BY <1>0, <1>4 DEF InstanceStep, StartOperation, EndOperation, DeleteInstance,
       EditInstance, NoWithdrawals, Put, dbVars
  <2> QED BY <1>4, <2>1, SilentOwned DEF InstanceStep, StartOperation, EndOperation,
       DeleteInstance, EditInstance, procVars, dbVars
<1>5. ASSUME NEW e, MoveEnvironment(e) PROVE OwnedInv'
  BY <1>0, <1>5, SilentOwned DEF MoveEnvironment, procVars, dbVars
<1>6. CASE Crash
  BY <1>6, DieOwned DEF Crash
<1>7. CASE Restart
  BY <1>7, RestartOwned
<1>8. CASE UNCHANGED vars
  BY <1>0, <1>8, SilentOwned DEF vars
<1> QED BY <1>1, <1>2, <1>3, <1>4, <1>5, <1>6, <1>7, <1>8 DEF Next

\* As long as clients neither cancel builds nor delete instances, a build whose
\* record has not ended has a goroutine, a handler that is about to start it, or
\* is among those to recover: through panics, crashes and restarts, for targets
\* and groups that change in any way.
THEOREM NoBuildForgotten == NoWithdrawals => (Spec => []UnfinishedIsOwned)
<1> SUFFICES ASSUME NoWithdrawals PROVE Spec => []UnfinishedIsOwned
  OBVIOUS
<1>1. Init => FinalInv /\ OwnedInv
  BY InitFinal, InitOwned
<1>2. FinalInv /\ OwnedInv /\ [Next]_vars => (FinalInv /\ OwnedInv)'
  BY NextFinal, NextOwned
<1>3. OwnedInv => UnfinishedIsOwned
  BY DEF OwnedInv
<1> QED BY <1>1, <1>2, <1>3, PTL DEF Spec

-----------------------------------------------------------------------------
(* The order in which targets are listed.                                  *)

\* The elements of a list grow.
Ascending(s) == \A i, j \in DOMAIN s : i < j => s[i] < s[j]

\* Sets of numbers that can be listed.
Listed(S) == \E s \in [1..Cardinality(S) -> S] : Ascending(s)

\* A set that is not empty has a least element.
LEMMA LeastElement ==
  ASSUME NEW S \in SUBSET Nat, S # {}
  PROVE  \E m \in S : \A n \in S : m <= n
<1> DEFINE R == OpToRel(<, Nat)
<1>1. IsWellFoundedOn(R, Nat)
  BY NatLessThanWellFounded
<1>2. \A k, l \in Nat : <<k, l>> \in R <=> k < l
  BY DEF OpToRel
<1> HIDE DEF R
<1>3. PICK m \in S : \A n \in S : ~(<<n, m>> \in R)
  BY <1>1, WFMin
<1>4. ASSUME NEW n \in S PROVE m <= n
  <2>1. n \in Nat /\ m \in Nat
    OBVIOUS
  <2>2. ~(n < m)
    BY <1>2, <1>3, <2>1, Zenon
  <2> QED BY <2>1, <2>2
<1> QED BY <1>4

\* The least element comes first, and the list of the others after it.
LEMMA ListedStep ==
  ASSUME NEW S \in SUBSET Nat, IsFiniteSet(S), NEW m \in S, \A n \in S : m <= n,
         Listed(S \ {m})
  PROVE  Listed(S)
<1> DEFINE T == S \ {m}
           k == Cardinality(T)
<1>1. k \in Nat /\ Cardinality(S) = k + 1
  BY FS_RemoveElement, FS_CardinalityType
<1>2. PICK t \in [1..k -> T] : Ascending(t)
  BY DEF Listed
<1> DEFINE s == [j \in 1..(k + 1) |-> IF j = 1 THEN m ELSE t[j - 1]]
<1>3. T \subseteq Nat /\ m \in Nat /\ \A n \in T : m < n /\ n \in S
  OBVIOUS
<1> HIDE DEF T, k
<1>4. s \in [1..(k + 1) -> S]
  <2>1. ASSUME NEW j \in 1..(k + 1), j # 1 PROVE t[j - 1] \in S
    <3>1. j - 1 \in 1..k
      BY <1>1, <2>1
    <3> QED BY <1>2, <1>3, <3>1
  <2> QED BY <2>1
<1>5. Ascending(s)
  <2> SUFFICES ASSUME NEW i \in 1..(k + 1), NEW j \in 1..(k + 1), i < j
               PROVE  s[i] < s[j]
    BY DEF Ascending
  <2>1. s[j] = t[j - 1] /\ j - 1 \in 1..k
    BY <1>1
  <2>2. CASE i = 1
    BY <1>2, <1>3, <2>1, <2>2
  <2>3. CASE i # 1
    <3>1. s[i] = t[i - 1] /\ i - 1 \in 1..k /\ i - 1 < j - 1
      BY <1>1, <2>3
    <3> QED BY <1>2, <2>1, <3>1 DEF Ascending
  <2> QED BY <2>2, <2>3
<1> HIDE DEF s
<1> QED BY <1>1, <1>4, <1>5 DEF Listed

\* Every finite set of numbers can be listed.
LEMMA AllListed ==
  ASSUME NEW S \in SUBSET Nat, IsFiniteSet(S)
  PROVE  Listed(S)
<1> DEFINE Bad == {n \in Nat : \E T \in SUBSET Nat : /\ IsFiniteSet(T)
                                                     /\ Cardinality(T) = n
                                                     /\ ~Listed(T)}
<1>1. SUFFICES ASSUME Bad # {} PROVE FALSE
  BY FS_CardinalityType DEF Bad
<1>2. PICK n \in Bad : \A o \in Bad : n <= o
  <2>1. Bad \in SUBSET Nat
    OBVIOUS
  <2> HIDE DEF Bad
  <2> QED BY <1>1, <2>1, LeastElement
<1>3. PICK T \in SUBSET Nat : IsFiniteSet(T) /\ Cardinality(T) = n /\ ~Listed(T)
  OBVIOUS
<1>4. T # {}
  <2> SUFFICES ASSUME T = {} PROVE FALSE
    OBVIOUS
  <2>1. Cardinality(T) = 0
    BY FS_EmptySet
  <2>2. 1..0 = {}
    OBVIOUS
  <2>3. [x \in {} |-> x] \in [{} -> T] /\ Ascending([x \in {} |-> x])
    BY DEF Ascending
  <2> QED BY <1>3, <2>1, <2>2, <2>3, Zenon DEF Listed
<1>5. PICK m \in T : \A o \in T : m <= o
  BY <1>4, LeastElement
<1>6. IsFiniteSet(T \ {m}) /\ Cardinality(T \ {m}) = n - 1 /\ n - 1 \in Nat
  <2>1. IsFiniteSet(T \ {m}) /\ Cardinality(T \ {m}) = Cardinality(T) - 1
    BY <1>3, <1>5, FS_RemoveElement
  <2>2. Cardinality(T \ {m}) \in Nat
    BY <2>1, FS_CardinalityType
  <2> QED BY <1>3, <2>1, <2>2
<1>7. ~Listed(T \ {m})
  BY <1>3, <1>5, ListedStep
<1>8. n - 1 \in Bad
  BY <1>6, <1>7
<1> QED BY <1>2, <1>6, <1>8

\* The listing of a set in order has each of its elements.
LEMMA ListingLists ==
  ASSUME NEW S \in SUBSET Nat, IsFiniteSet(S)
  PROVE  /\ Listing(S) \in Seq(S)
         /\ \A e \in S : \E j \in DOMAIN Listing(S) : Listing(S)[j] = e
<1> DEFINE k == Cardinality(S)
           s == Listing(S)
<1>1. s \in [1..k -> S] /\ Ascending(s)
  <2>1. \E t \in [1..k -> S] : \A i, j \in DOMAIN t : i < j => t[i] < t[j]
    BY AllListed DEF Listed, Ascending
  <2> QED BY <2>1, Zenon DEF Listing, Ascending
<1>2. k \in Nat
  BY FS_CardinalityType
<1> HIDE DEF k, s
<1>3. s \in Injection(1..k, S)
  <2>1. ASSUME NEW i \in 1..k, NEW j \in 1..k, s[i] = s[j] PROVE i = j
    <3>1. ~(s[i] < s[j]) /\ ~(s[j] < s[i])
      <4>1. s[i] \in Nat
        BY <1>1
      <4> QED BY <2>1, <4>1
    <3>2. ~(i < j) /\ ~(j < i)
      BY <1>1, <3>1 DEF Ascending
    <3> QED BY <1>2, <3>2
  <2> QED BY <1>1, <2>1 DEF Injection, IsInjective
<1>4. IsFiniteSet(1..k) /\ Cardinality(1..k) = k
  BY <1>2, FS_Interval
<1>5. s \in Surjection(1..k, S)
  BY <1>3, <1>4, FS_Injection DEF k
<1>6. s \in Seq(S)
  BY <1>1, <1>2
<1> QED BY <1>1, <1>5, <1>6 DEF Surjection, s

Target == [group : BOOLEAN, envs : SUBSET Environments]

\* A function on an interval is a sequence, and a list of members of a subset
\* one of members of the set.
LEMMA ListType ==
  ASSUME NEW R, NEW n \in Nat, NEW s \in [1..n -> R]
  PROVE  s \in Seq(R) /\ DOMAIN s = 1..n
OBVIOUS

\* A list of some targets is a list of targets.
LEMMA SubList ==
  ASSUME NEW R, NEW S \in SUBSET R, NEW s \in Seq(S)
  PROVE  s \in Seq(R)
<1>1. Len(s) \in Nat /\ s \in [1..Len(s) -> S]
  OBVIOUS
<1>2. s \in [1..Len(s) -> R]
  BY <1>1
<1> QED BY <1>1, <1>2, ListType

\* What a target resolves to is a finite set of environments, and its list.
LEMMA ResolveType ==
  ASSUME NEW target \in Target
  PROVE  /\ Resolve(target) \in SUBSET Environments
         /\ Resolve(target) \in SUBSET Nat
         /\ IsFiniteSet(Resolve(target))
         /\ ResolveInOrder(target) \in Seq(Environments)
<1>1. Resolve(target) \in SUBSET Environments /\ Resolve(target) \in SUBSET Nat
  BY BuildsAssumption DEF Resolve, Target
<1>2. IsFiniteSet(Resolve(target))
  BY <1>1, BuildsAssumption, FS_Subset
<1>3. Listing(Resolve(target)) \in Seq(Resolve(target))
  BY <1>1, <1>2, ListingLists
<1> QED BY <1>1, <1>2, <1>3, SubList DEF ResolveInOrder

-----------------------------------------------------------------------------
(* Types.                                                                  *)

\* The results of a build keep their shape under a change of each status.
LEMMA ResultsType ==
  ASSUME NEW s \in Seq(Result), NEW t, DOMAIN t = DOMAIN s,
         t = [j \in DOMAIN s |-> t[j]],
         \A j \in DOMAIN s : t[j] \in Result
  PROVE  t \in Seq(Result)
<1>1. Len(s) \in Nat /\ DOMAIN s = 1..Len(s)
  OBVIOUS
<1>2. t \in [1..Len(s) -> Result]
  BY <1>1
<1> QED BY <1>1, <1>2, ListType

\* One status is written,
LEMMA OneResultType ==
  ASSUME NEW s \in Seq(Result), NEW i, NEW status \in TargetStatus
  PROVE  [s EXCEPT ![i].status = status] \in Seq(Result)
<1> DEFINE t == [j \in DOMAIN s |-> IF j = i THEN [s[j] EXCEPT !.status = status] ELSE s[j]]
<1>1. DOMAIN t = DOMAIN s /\ t = [j \in DOMAIN s |-> t[j]]
  OBVIOUS
<1>2. ASSUME NEW j \in DOMAIN s PROVE t[j] \in Result
  <2>1. s[j] \in Result
    OBVIOUS
  <2> QED BY <2>1 DEF Result
<1>3. [s EXCEPT ![i].status = status] = t
  OBVIOUS
<1> HIDE DEF t
<1> QED BY <1>1, <1>2, <1>3, ResultsType

\* ... or all of them.
LEMMA AllResultsType ==
  ASSUME NEW s \in Seq(Result)
  PROVE  /\ [j \in DOMAIN s |-> IF s[j].status \in {"Pending", "Pulling"}
                               THEN [s[j] EXCEPT !.status = "Skipped"] ELSE s[j]]
              \in Seq(Result)
         /\ [j \in DOMAIN s |-> [s[j] EXCEPT !.status = "Deployed"]] \in Seq(Result)
<1> DEFINE t == [j \in DOMAIN s |-> IF s[j].status \in {"Pending", "Pulling"}
                               THEN [s[j] EXCEPT !.status = "Skipped"] ELSE s[j]]
           u == [j \in DOMAIN s |-> [s[j] EXCEPT !.status = "Deployed"]]
<1>1. DOMAIN t = DOMAIN s /\ t = [j \in DOMAIN s |-> t[j]]
  OBVIOUS
<1>2. ASSUME NEW j \in DOMAIN s PROVE t[j] \in Result
  <2>1. s[j] \in Result
    OBVIOUS
  <2> QED BY <2>1 DEF Result, TargetStatus
<1>3. DOMAIN u = DOMAIN s /\ u = [j \in DOMAIN s |-> u[j]]
  OBVIOUS
<1>4. ASSUME NEW j \in DOMAIN s PROVE u[j] \in Result
  <2>1. s[j] \in Result
    OBVIOUS
  <2> QED BY <2>1 DEF Result, TargetStatus
<1> HIDE DEF t, u
<1>5. t \in Seq(Result)
  BY <1>1, <1>2, ResultsType
<1>6. u \in Seq(Result)
  BY <1>3, <1>4, ResultsType
<1> QED BY <1>5, <1>6 DEF t, u

\* What becomes of the record of a build,
LEMMA BuildType ==
  ASSUME NEW x \in Build
  PROVE  /\ \A status \in BuildStatus : [x EXCEPT !.status = status] \in Build
         /\ \A results \in Seq(Result), status \in BuildStatus :
              [x EXCEPT !.status = status, !.results = results] \in Build
         /\ FailedBuild(x) \in Build
         /\ [x EXCEPT !.status = "Deployed",
                      !.results = [j \in DOMAIN @ |-> [@[j] EXCEPT !.status = "Deployed"]]]
              \in Build
<1>1. \A status \in BuildStatus : [x EXCEPT !.status = status] \in Build
  BY DEF Build
<1>2. \A results \in Seq(Result), status \in BuildStatus :
        [x EXCEPT !.status = status, !.results = results] \in Build
  BY DEF Build
<1>3. x.results \in Seq(Result) /\ {"Failed", "Deployed"} \subseteq BuildStatus
  BY DEF Build, BuildStatus
<1> DEFINE t == [j \in DOMAIN x.results |->
                   IF x.results[j].status \in {"Pending", "Pulling"}
                   THEN [x.results[j] EXCEPT !.status = "Skipped"] ELSE x.results[j]]
           u == [j \in DOMAIN x.results |-> [x.results[j] EXCEPT !.status = "Deployed"]]
<1>4. t \in Seq(Result) /\ u \in Seq(Result)
  BY <1>3, AllResultsType
<1>5. FailedBuild(x) = [x EXCEPT !.status = "Failed", !.results = t]
  BY DEF FailedBuild, Build
<1>6. [x EXCEPT !.status = "Deployed",
                !.results = [j \in DOMAIN @ |-> [@[j] EXCEPT !.status = "Deployed"]]]
       = [x EXCEPT !.status = "Deployed", !.results = u]
  BY DEF Build
<1> HIDE DEF t, u
<1> QED BY <1>1, <1>2, <1>3, <1>4, <1>5, <1>6

\* ... and of the record of a goroutine.
LEMMA BuilderType ==
  ASSUME NEW r \in Builder
  PROVE  /\ \A pc \in BuilderPC : [r EXCEPT !.pc = pc] \in Builder
         /\ \A pc \in BuilderPC, status \in BuildStatus :
              [r EXCEPT !.pc = pc, !.build.status = status] \in Builder
         /\ \A i \in Nat : [r EXCEPT !.i = i] \in Builder
         /\ \A pc \in BuilderPC, i \in Nat, failed \in BOOLEAN :
              [r EXCEPT !.pc = pc, !.i = i, !.failed = failed] \in Builder
         /\ \A pc \in BuilderPC, copy \in Instance :
              [r EXCEPT !.copy = copy, !.pc = pc] \in Builder
         /\ [r EXCEPT !.cancelled = TRUE] \in Builder
         /\ r.build \in Build /\ r.copy \in Instance /\ r.i \in Nat
BY DEF Builder, Build

\* A result is written where the goroutine is.
LEMMA ResultType ==
  ASSUME NEW r \in Builder, NEW status \in TargetStatus
  PROVE  /\ WithResult(r, status) \in Builder
         /\ WithResult(r, status).i = r.i
<1> DEFINE s == [r.build.results EXCEPT ![r.i].status = status]
           x == [r.build EXCEPT !.results = s]
<1>1. r.build \in Build /\ r.build.results \in Seq(Result)
  BY DEF Builder, Build
<1>2. s \in Seq(Result)
  BY <1>1, OneResultType
<1>3. WithResult(r, status) = [r EXCEPT !.build = x]
  BY DEF WithResult, Builder, Build
<1> HIDE DEF s
<1>4. x \in Build
  BY <1>1, <1>2 DEF Build
<1> HIDE DEF x
<1> QED BY <1>3, <1>4 DEF Builder

\* The tables of builds and goroutines.
WorkTypes == IsTable(builds, Builds, Build) /\ IsTable(builders, Builds, Builder)

\* Only these two change, and perhaps the instances and their guards.
WorkStep == UNCHANGED <<up, recovering, place, nextBuild, due, calls>>

\* The ways in which a goroutine goes on, for records of the right type.
LEMMA PersistTypes ==
  ASSUME WorkTypes, NEW b \in DOMAIN builders, NEW r \in Builder, Persist(b, r)
  PROVE  WorkTypes'
<1>1. b \in Builds /\ r.build \in Build
  BY TableValue DEF WorkTypes, Builder
<1>2. IsTable(builders', Builds, Builder)
  BY ExceptTable DEF Persist, WorkTypes
<1>3. IsTable(builds', Builds, Build)
  BY <1>1, PutTable DEF Persist, WorkTypes
<1> QED BY <1>2, <1>3 DEF WorkTypes

\* A goroutine ends and writes its last record.
LEMMA EndWithTypes ==
  ASSUME WorkTypes, NEW b \in DOMAIN builders, NEW x \in Build, EndWith(b, x)
  PROVE  WorkTypes'
<1>1. b \in Builds
  BY TableValue DEF WorkTypes
<1>2. IsTable(builders', Builds, Builder)
  BY DropTable DEF EndWith, WorkTypes
<1>3. IsTable(builds', Builds, Build)
  BY <1>1, PutTable DEF EndWith, WorkTypes
<1> QED BY <1>2, <1>3 DEF WorkTypes

\* A goroutine ends without one.
LEMMA EndTypes ==
  ASSUME WorkTypes, NEW b, End(b)
  PROVE  WorkTypes'
<1>1. IsTable(builders', Builds, Builder)
  BY DropTable DEF End, WorkTypes
<1> QED BY <1>1 DEF WorkTypes, End

\* A goroutine goes on.
LEMMA GotoTypes ==
  ASSUME WorkTypes, NEW b \in DOMAIN builders, NEW pc \in BuilderPC, Goto(b, pc)
  PROVE  WorkTypes'
<1> DEFINE r == [builders[b] EXCEPT !.pc = pc]
<1>1. r \in Builder
  BY BuilderType, TableValue DEF WorkTypes
<1>2. builders' = [builders EXCEPT ![b] = r]
  BY DEF Goto
<1> HIDE DEF r
<1>3. IsTable(builders', Builds, Builder)
  BY <1>1, <1>2, ExceptTable DEF WorkTypes
<1> QED BY <1>3 DEF WorkTypes, Goto

\* A guard that a goroutine or a client takes.
LEMMA GuardType ==
  ASSUME NEW b \in Builds \cup {Nobody}, NEW w \in BOOLEAN, NEW copy \in Instance,
         NEW envs \in SUBSET Environments
  PROVE  [build |-> b, working |-> w, copy |-> copy, envs |-> envs] \in Guard
BY DEF Guard

\* An instance's target resolves to environments.
LEMMA InstanceType ==
  ASSUME NEW x \in Instance
  PROVE  /\ x.target \in Target
         /\ Resolve(x.target) \in SUBSET Environments
         /\ ResolveInOrder(x.target) \in Seq(Environments)
         /\ \A compose \in ComposeFiles : [x EXCEPT !.compose = compose] \in Instance
<1>1. x.target \in Target
  BY DEF Instance, Target
<1>2. \A compose \in ComposeFiles : [x EXCEPT !.compose = compose] \in Instance
  BY DEF Instance
<1> QED BY <1>1, <1>2, ResolveType

\* The steps of a goroutine.
LEMMA BuilderStepTypes ==
  ASSUME TypeOK, NEW b \in Builds, BuilderStep(b) \/ EndPull(b), ~Panic(b)
  PROVE  TypeOK'
<1> DEFINE r == builders[b]
<1>0. b \in DOMAIN builders /\ WorkTypes /\ r \in Builder
  <2>1. b \in DOMAIN builders
    BY BuilderStepEffect DEF BuilderEffect
  <2> QED BY <2>1, TableValue DEF TypeOK, WorkTypes
<1>1. r.build \in Build /\ r.copy \in Instance /\ r.i \in Nat
      /\ r.build.id \in Instances /\ r.build.compose \in ComposeFiles
  BY <1>0, BuilderType DEF Build
<1>2. /\ BuilderPC = {"start", "next", "pull", "ready", "select", "parked", "store",
                      "acquire", "launch", "finish"}
      /\ {"Pulling", "ImageReady"} \subseteq BuildStatus
      /\ {"Pulling", "ImageReady", "Failed", "Skipped"} \subseteq TargetStatus
  BY DEF BuilderPC, BuildStatus, Open, TargetStatus
<1>3. FailedBuild(r.build) \in Build
  BY <1>1, BuildType
<1>4. \A i \in DOMAIN instances : instances[i] \in Instance
  BY TableValue DEF TypeOK
<1>5. ASSUME WorkStep, UNCHANGED <<instances, running>>, WorkTypes'
      PROVE  TypeOK'
  BY <1>5 DEF TypeOK, WorkTypes, WorkStep
<1>6. CASE Start(b)
  <2>1. [r EXCEPT !.pc = "next", !.build.status = "Pulling"] \in Builder
    BY <1>0, <1>2, BuilderType
  <2> QED BY <1>0, <1>5, <1>6, <2>1, PersistTypes DEF Start, WorkStep, procVars
<1>7. CASE NextTarget(b)
  <2>1. [WithResult(r, "Skipped") EXCEPT !.i = r.i + 1] \in Builder
    <3>1. WithResult(r, "Skipped") \in Builder
      BY <1>0, <1>2, ResultType
    <3>2. r.i + 1 \in Nat
      BY <1>1
    <3> HIDE DEF r
    <3> QED BY <3>1, <3>2, BuilderType, Zenon
  <2>2. [WithResult(r, "Pulling") EXCEPT !.pc = "pull"] \in Builder
    <3>1. WithResult(r, "Pulling") \in Builder
      BY <1>0, <1>2, ResultType
    <3> QED BY <1>2, <3>1, BuilderType
  <2>3. WorkTypes'
    BY <1>0, <1>7, <2>1, <2>2, PersistTypes, EndTypes DEF NextTarget
  <2> QED BY <1>5, <1>7, <2>3 DEF NextTarget, WorkStep, procVars
<1>8. CASE EndPull(b)
  <2>1. ASSUME NEW status \in {"ImageReady", "Failed"}
        PROVE  [WithResult(r, status) EXCEPT !.pc = "next", !.i = r.i + 1,
                     !.failed = (status = "Failed")] \in Builder
    <3>1. WithResult(r, status) \in Builder
      BY <1>0, <1>2, ResultType
    <3>2. (status = "Failed") \in BOOLEAN /\ r.i + 1 \in Nat /\ "next" \in BuilderPC
      BY <1>1, <1>2
    <3> HIDE DEF r
    <3> QED BY <3>1, <3>2, BuilderType, Zenon
  <2>2. WorkTypes'
    BY <1>0, <1>8, <2>1, PersistTypes DEF EndPull
  <2> QED BY <1>5, <1>8, <2>2 DEF EndPull, WorkStep, procVars
<1>9. CASE EndPulls(b)
  <2>1. [r EXCEPT !.pc = "ready", !.build.status = "ImageReady"] \in Builder
    BY <1>0, <1>2, BuilderType
  <2>2. WorkTypes'
    BY <1>0, <1>3, <1>9, <2>1, PersistTypes, EndWithTypes DEF EndPulls
  <2> QED BY <1>5, <1>9, <2>2 DEF EndPulls, WorkStep, procVars
<1>10. CASE CheckTime(b)
  <2>1. Goto(b, "store") \/ Goto(b, "select")
    BY <1>10 DEF CheckTime
  <2>2. WorkTypes'
    BY <1>0, <1>2, <2>1, GotoTypes
  <2> QED BY <1>5, <1>10, <2>2 DEF CheckTime, WorkStep, procVars
<1>11. CASE Select(b)
  <2>1. Goto(b, "store") \/ End(b) \/ Goto(b, "parked")
    BY <1>11 DEF Select
  <2>2. WorkTypes'
    BY <1>0, <1>2, <2>1, GotoTypes, EndTypes
  <2> QED BY <1>5, <1>11, <2>2 DEF Select, WorkStep, procVars
<1>12. CASE StoreCompose(b)
  <2> DEFINE copy == [r.copy EXCEPT !.compose = r.build.compose]
             q == [r EXCEPT !.copy = copy, !.pc = "acquire"]
  <2>1. copy \in Instance
    BY <1>1, InstanceType
  <2> HIDE DEF copy
  <2>2. q \in Builder
    BY <1>0, <1>2, <2>1, BuilderType
  <2>3. builders' = [builders EXCEPT ![b] = q]
    BY <1>12 DEF StoreCompose, copy
  <2> HIDE DEF q
  <2>4. IsTable(builders', Builds, Builder)
    BY <1>0, <2>2, <2>3, ExceptTable DEF WorkTypes
  <2>5. IsTable(instances', Instances, Instance)
    BY <1>1, <1>12, <2>1, PutTable DEF StoreCompose, TypeOK, copy
  <2> QED BY <1>12, <2>4, <2>5 DEF StoreCompose, TypeOK, procVars
<1>13. CASE Acquire(b)
  <2>1. [build |-> b, working |-> FALSE, copy |-> r.copy, envs |-> {}] \in Guard
    BY <1>1, GuardType
  <2>2. IsTable(running', Instances, Guard)
    <3> DEFINE g == [build |-> b, working |-> FALSE, copy |-> r.copy, envs |-> {}]
    <3>1. running' = running \/ running' = Put(running, r.build.id, g)
      BY <1>13 DEF Acquire
    <3> HIDE DEF g
    <3>2. IsTable(Put(running, r.build.id, g), Instances, Guard)
      BY <1>1, <2>1, PutTable DEF TypeOK, g
    <3> QED BY <3>1, <3>2 DEF TypeOK
  <2>3. WorkTypes'
    BY <1>0, <1>2, <1>3, <1>13, GotoTypes, EndWithTypes DEF Acquire
  <2> QED BY <1>13, <2>2, <2>3 DEF Acquire, TypeOK, WorkTypes, procVars
<1>14. CASE LaunchOperation(b)
  <2> DEFINE i == r.build.id
             g == [build |-> b, working |-> TRUE, copy |-> instances[i],
                   envs |-> Resolve(instances[i].target)]
  <2>1. i \in DOMAIN instances => g \in Guard
    BY <1>4, GuardType, InstanceType
  <2>2. \/ i \in DOMAIN instances /\ running' = Put(running, i, g)
        \/ running' = Drop(running, {i})
    BY <1>14 DEF LaunchOperation
  <2> HIDE DEF g
  <2>3. IsTable(running', Instances, Guard)
    <3> HIDE DEF i
    <3>1. IsTable(running, Instances, Guard) /\ i \in Instances
      BY <1>1 DEF TypeOK, i
    <3>2. CASE i \in DOMAIN instances /\ running' = Put(running, i, g)
      BY <2>1, <3>1, <3>2, PutTable
    <3>3. CASE running' = Drop(running, {i})
      BY <3>1, <3>3, DropTable
    <3> QED BY <2>2, <3>2, <3>3
  <2>4. WorkTypes'
    BY <1>0, <1>2, <1>3, <1>14, GotoTypes, EndWithTypes DEF LaunchOperation
  <2> QED BY <1>14, <2>3, <2>4 DEF LaunchOperation, TypeOK, WorkTypes, procVars
<1>15. CASE FinishBuild(b)
  <2> DEFINE x == [r.build EXCEPT !.status = "Deployed",
                     !.results = [j \in DOMAIN @ |-> [@[j] EXCEPT !.status = "Deployed"]]]
  <2>1. x \in Build
    BY <1>1, BuildType
  <2>2. EndWith(b, x)
    BY <1>15 DEF FinishBuild
  <2> HIDE DEF x
  <2>3. WorkTypes'
    BY <1>0, <2>1, <2>2, EndWithTypes
  <2> QED BY <1>5, <1>15, <2>3 DEF FinishBuild, WorkStep, procVars
<1> QED BY <1>6, <1>7, <1>8, <1>9, <1>10, <1>11, <1>12, <1>13, <1>14, <1>15
        DEF BuilderStep

\* What a request has, by what it has come to, and what becomes of it.
LEMMA CallFields ==
  ASSUME NEW q \in Call
  PROVE  /\ q.build \in Build
         /\ q.pc \in {"resolve", "create", "launch"} =>
              q.b \in Builds \cup {Nobody} /\ q.copy \in Instance /\ q.envs \in Seq(Environments)
         /\ q.pc \in {"mark", "signal"} => q.b \in Builds
BY DEF Call

\* A call goes on, with what it has found.
LEMMA CallMoves ==
  ASSUME NEW q \in Call
  PROVE  /\ q.pc = "resolve" =>
              \A envs \in Seq(Environments), x \in Build :
                [q EXCEPT !.pc = "create", !.envs = envs, !.build = x] \in Call
         /\ q.pc = "create" => \A b \in Builds : [q EXCEPT !.pc = "launch", !.b = b] \in Call
         /\ q.pc = "mark" => [q EXCEPT !.pc = "signal"] \in Call
BY DEF Call

\* A goroutine begins with records of the right type.
LEMMA NewBuilderType ==
  ASSUME NEW x \in Build, NEW copy \in Instance, NEW envs \in Seq(Environments)
  PROVE  NewBuilder(x, copy, envs) \in Builder
BY DEF NewBuilder, Builder, BuilderPC

\* The requests.
LEMMA HandlersTypes ==
  ASSUME TypeOK, NEW c \in Clients, Handlers(c)
  PROVE  TypeOK'
<1>1. IsTable(calls', Clients, Call)
  <2>1. ASSUME NEW i \in Instances, NEW compose \in ComposeFiles, BeginSchedule(c, i, compose)
        PROVE  IsTable(calls', Clients, Call)
    <3> DEFINE x == [id |-> i, compose |-> compose, status |-> "Pending", results |-> <<>>]
               q == [pc |-> "resolve", b |-> Nobody, copy |-> instances[i], envs |-> <<>>,
                     build |-> x]
    <3>1. x \in Build
      BY DEF Build, BuildStatus, Open
    <3>2. instances[i] \in Instance
      BY <2>1, TableValue DEF BeginSchedule, TypeOK
    <3>3. calls' = Put(calls, c, q)
      BY <2>1 DEF BeginSchedule
    <3> HIDE DEF x
    <3>4. q \in Call
      BY <3>1, <3>2 DEF Call
    <3> HIDE DEF q
    <3> QED BY <3>3, <3>4, PutTable DEF TypeOK
  <2>2. ASSUME NEW b \in Builds, BeginCancel(c, b) PROVE IsTable(calls', Clients, Call)
    <3> DEFINE q == [pc |-> "mark", b |-> b, build |-> builds[b]]
    <3>1. builds[b] \in Build
      BY <2>2, TableValue DEF BeginCancel, TypeOK
    <3>2. q \in Call
      BY <3>1 DEF Call
    <3>3. calls' = Put(calls, c, q)
      BY <2>2 DEF BeginCancel
    <3> HIDE DEF q
    <3> QED BY <3>2, <3>3, PutTable DEF TypeOK
  <2> QED BY <2>1, <2>2 DEF Handlers
<1> QED BY <1>1 DEF Handlers, BeginSchedule, BeginCancel, TypeOK, procVars, dbVars

\* A request goes on.
LEMMA HandlerStepTypes ==
  ASSUME TypeOK, FinalInv, NEW c \in Clients, HandlerStep(c)
  PROVE  TypeOK'
<1> DEFINE q == calls[c]
<1>1. c \in DOMAIN calls /\ q \in Call /\ IsTable(calls, Clients, Call)
  <2>1. c \in DOMAIN calls
    BY DEF HandlerStep, ResolveSchedule, CreateBuild, LaunchBuild, MarkCancelled,
           SignalCancel
  <2> QED BY <2>1, TableValue DEF TypeOK
<1>2. Return(c) => IsTable(calls', Clients, Call)
  <2>1. IsTable(calls, Clients, Call)
    BY DEF TypeOK
  <2>2. IsTable(Drop(calls, {c}), Clients, Call)
    BY <2>1, DropTable
  <2> QED BY <2>2 DEF Return
<1>3. CASE ResolveSchedule(c)
  <2> DEFINE envs == ResolveInOrder(q.copy.target)
             results == [j \in DOMAIN envs |-> [env |-> envs[j], status |-> "Pending"]]
             x == [q.build EXCEPT !.results = results]
             p == [q EXCEPT !.pc = "create", !.envs = envs, !.build = x]
  <2>1. /\ q.pc = "resolve" /\ q.build \in Build /\ q.copy \in Instance
    <3>1. q.pc = "resolve"
      BY <1>3 DEF ResolveSchedule
    <3> QED BY <1>1, <3>1, CallFields
  <2>2. envs \in Seq(Environments)
    BY <2>1, InstanceType
  <2>3. results \in Seq(Result)
    <3> HIDE DEF envs
    <3>1. Len(envs) \in Nat /\ DOMAIN envs = 1..Len(envs)
      BY <2>2
    <3>2. ASSUME NEW j \in DOMAIN envs PROVE [env |-> envs[j], status |-> "Pending"] \in Result
      BY <2>2 DEF Result, TargetStatus
    <3>3. results \in [1..Len(envs) -> Result]
      BY <3>1, <3>2
    <3> QED BY <3>1, <3>3, ListType
  <2>4. Return(c) \/ calls' = [calls EXCEPT ![c] = p]
    <3>1. ASSUME ~Return(c)
          PROVE  calls' = [calls EXCEPT ![c] =
                [@ EXCEPT !.pc = "create", !.envs = envs, !.build.results = results]]
      BY <1>3, <3>1 DEF ResolveSchedule
    <3>2. [q EXCEPT !.pc = "create", !.envs = envs, !.build.results = results] = p
      <4> HIDE DEF envs, results
      <4> QED BY <1>1
    <3> QED BY <1>1, <3>1, <3>2
  <2> HIDE DEF envs, results
  <2>5. x \in Build
    BY <2>1, <2>3 DEF Build
  <2> HIDE DEF x, q
  <2>6. p \in Call
    BY <1>1, <2>1, <2>2, <2>5, CallMoves
  <2> HIDE DEF p
  <2>7. IsTable(calls', Clients, Call)
    BY <1>1, <1>2, <2>4, <2>6, ExceptTable
  <2> QED BY <1>3, <2>7 DEF ResolveSchedule, TypeOK, procVars, dbVars
<1>4. CASE CreateBuild(c)
  <2> DEFINE p == [q EXCEPT !.pc = "launch", !.b = nextBuild]
  <2>1. /\ q.pc = "create" /\ q.build \in Build /\ q.copy \in Instance
        /\ q.envs \in Seq(Environments)
    <3>1. q.pc = "create"
      BY <1>4 DEF CreateBuild
    <3> QED BY <1>1, <3>1, CallFields
  <2>2. nextBuild \in Builds /\ nextBuild' \in 1..(MaxBuilds + 1)
    BY <1>4, BuildsAssumption DEF CreateBuild, TypeOK, Builds
  <2>3. calls' = [calls EXCEPT ![c] = p]
    BY <1>1, <1>4 DEF CreateBuild
  <2>4. builds' = Put(builds, nextBuild, q.build)
    BY <1>4 DEF CreateBuild
  <2> HIDE DEF q
  <2>5. p \in Call
    BY <1>1, <2>1, <2>2, CallMoves
  <2> HIDE DEF p
  <2>6. IsTable(calls', Clients, Call)
    BY <1>1, <2>3, <2>5, ExceptTable
  <2>7. IsTable(builds', Builds, Build)
    BY <2>1, <2>2, <2>4, PutTable DEF TypeOK
  <2>8. due' \subseteq Builds
    BY <1>4, <2>2 DEF CreateBuild, TypeOK
  <2> QED BY <1>4, <2>2, <2>6, <2>7, <2>8 DEF CreateBuild, TypeOK, procVars
<1>5. CASE LaunchBuild(c)
  <2> DEFINE r == NewBuilder(q.build, q.copy, q.envs)
  <2>1. /\ q.build \in Build /\ q.copy \in Instance /\ q.envs \in Seq(Environments)
        /\ q.b \in Builds
    <3>1. q.pc = "launch"
      BY <1>5 DEF LaunchBuild
    <3>2. q.b \in Builds
      BY <1>1, <3>1 DEF FinalInv, Allocated, TypeOK, IsTable
    <3> QED BY <1>1, <3>1, <3>2, CallFields
  <2>2. r \in Builder
    BY <2>1, NewBuilderType
  <2>3. builders' = Put(builders, q.b, r)
    BY <1>5 DEF LaunchBuild
  <2> HIDE DEF r
  <2>4. IsTable(builders', Builds, Builder)
    BY <2>1, <2>2, <2>3, PutTable DEF TypeOK
  <2> QED BY <1>2, <1>5, <2>4 DEF LaunchBuild, TypeOK, procVars, dbVars
<1>6. CASE MarkCancelled(c)
  <2> DEFINE p == [q EXCEPT !.pc = "signal"]
             x == [q.build EXCEPT !.status = "Cancelled"]
  <2>1. /\ q.pc = "mark" /\ q.build \in Build /\ q.b \in Builds
    <3>1. q.pc = "mark"
      BY <1>6 DEF MarkCancelled
    <3> QED BY <1>1, <3>1, CallFields
  <2>2. x \in Build
    BY <2>1, BuildType DEF BuildStatus
  <2>3. calls' = [calls EXCEPT ![c] = p] /\ builds' = Put(builds, q.b, x)
    BY <1>1, <1>6 DEF MarkCancelled
  <2> HIDE DEF x, q
  <2>4. p \in Call
    BY <1>1, <2>1, CallMoves
  <2> HIDE DEF p
  <2>5. IsTable(calls', Clients, Call)
    BY <1>1, <2>3, <2>4, ExceptTable
  <2>6. IsTable(builds', Builds, Build)
    BY <2>1, <2>2, <2>3, PutTable DEF TypeOK
  <2> QED BY <1>6, <2>5, <2>6 DEF MarkCancelled, TypeOK, procVars
<1>7. CASE SignalCancel(c)
  <2> DEFINE b == q.b
             r == [builders[b] EXCEPT !.cancelled = TRUE]
  <2>1. IsTable(builders, Builds, Builder)
    BY DEF TypeOK
  <2>2. \/ builders' = builders
        \/ builders' = Drop(builders, {b})
        \/ b \in DOMAIN builders /\ builders' = [builders EXCEPT ![b] = r]
    BY <1>7 DEF SignalCancel
  <2>3. b \in DOMAIN builders => r \in Builder
    BY <2>1, BuilderType, TableValue
  <2> HIDE DEF r, b
  <2>4. IsTable(builders', Builds, Builder)
    <3>1. CASE builders' = Drop(builders, {b})
      BY <2>1, <3>1, DropTable
    <3>2. CASE b \in DOMAIN builders /\ builders' = [builders EXCEPT ![b] = r]
      BY <2>1, <2>3, <3>2, ExceptTable
    <3> QED BY <2>1, <2>2, <3>1, <3>2
  <2> QED BY <1>2, <1>7, <2>4 DEF SignalCancel, TypeOK, procVars, dbVars
<1> QED BY <1>3, <1>4, <1>5, <1>6, <1>7 DEF HandlerStep

\* Clients' operations, edits and deletions, and the end of an operation.
LEMMA InstanceStepTypes ==
  ASSUME TypeOK, NEW i \in Instances, InstanceStep(i)
  PROVE  TypeOK'
<1> DEFINE x == instances[i]
<1>0. i \in DOMAIN instances => x \in Instance
  BY TableValue DEF TypeOK
<1>1. CASE StartOperation(i)
  <2> DEFINE g == [build |-> Nobody, working |-> TRUE, copy |-> x, envs |-> Resolve(x.target)]
  <2>1. x \in Instance
    BY <1>0, <1>1 DEF StartOperation
  <2>2. g \in Guard
    BY <2>1, GuardType, InstanceType
  <2>3. running' = Put(running, i, g)
    BY <1>1 DEF StartOperation
  <2> HIDE DEF g
  <2>4. IsTable(running', Instances, Guard)
    BY <2>2, <2>3, PutTable DEF TypeOK
  <2> QED BY <1>1, <2>4 DEF StartOperation, TypeOK, procVars, dbVars
<1>2. CASE EndOperation(i)
  <2>1. running[i].copy \in Instance
    <3>1. running[i] \in Guard
      BY <1>2, TableValue DEF EndOperation, TypeOK
    <3> QED BY <3>1 DEF Guard
  <2>2. IsTable(Put(instances, i, running[i].copy), Instances, Instance)
    BY <2>1, PutTable DEF TypeOK
  <2>3. IsTable(Drop(running, {i}), Instances, Guard)
    <3>1. IsTable(running, Instances, Guard)
      BY DEF TypeOK
    <3> QED BY <3>1, DropTable
  <2> QED BY <1>2, <2>2, <2>3 DEF EndOperation, TypeOK, procVars
<1>3. CASE DeleteInstance(i)
  <2>1. IsTable(Drop(instances, {i}), Instances, Instance)
    <3>1. IsTable(instances, Instances, Instance)
      BY DEF TypeOK
    <3> QED BY <3>1, DropTable
  <2> QED BY <1>3, <2>1 DEF DeleteInstance, TypeOK, procVars
<1>4. ASSUME NEW compose \in ComposeFiles, NEW target \in Targets,
             EditInstance(i, compose, target)
      PROVE  TypeOK'
  <2> DEFINE y == [compose |-> compose, target |-> target]
  <2>1. y \in Instance
    BY BuildsAssumption DEF Instance
  <2>2. instances' = Put(instances, i, y)
    BY <1>4 DEF EditInstance
  <2> HIDE DEF y
  <2>3. IsTable(instances', Instances, Instance)
    BY <2>1, <2>2, PutTable DEF TypeOK
  <2> QED BY <1>4, <2>3 DEF EditInstance, TypeOK, procVars
<1> QED BY <1>1, <1>2, <1>3, <1>4 DEF InstanceStep

\* Time and the environments.
LEMMA WorldTypes ==
  ASSUME TypeOK
  PROVE  /\ \A b \in Builds : TimeComes(b) => TypeOK'
         /\ \A e \in Environments : MoveEnvironment(e) => TypeOK'
<1>1. ASSUME NEW b \in Builds, TimeComes(b) PROVE TypeOK'
  <2> DEFINE r == [builders[b] EXCEPT !.pc = "store"]
  <2>1. IsTable(builders, Builds, Builder)
    BY DEF TypeOK
  <2>2. b \in DOMAIN builders => r \in Builder
    BY <2>1, BuilderType, TableValue DEF BuilderPC
  <2>3. \/ builders' = builders
        \/ b \in DOMAIN builders /\ builders' = [builders EXCEPT ![b] = r]
    BY <1>1 DEF TimeComes, At
  <2> HIDE DEF r
  <2>4. IsTable(builders', Builds, Builder)
    <3>1. CASE b \in DOMAIN builders /\ builders' = [builders EXCEPT ![b] = r]
      BY <2>1, <2>2, <3>1, ExceptTable
    <3> QED BY <2>1, <2>3, <3>1
  <2> QED BY <1>1, <2>4 DEF TimeComes, TypeOK, procVars, dbVars
<1>2. ASSUME NEW e \in Environments, MoveEnvironment(e) PROVE TypeOK'
  BY <1>2 DEF MoveEnvironment, TypeOK, procVars, dbVars
<1> QED BY <1>1, <1>2

\* The process.
LEMMA DieTypes ==
  ASSUME TypeOK, Die
  PROVE  TypeOK'
<1>1. /\ IsTable(calls', Clients, Call) /\ IsTable(builders', Builds, Builder)
      /\ IsTable(running', Instances, Guard)
  BY EmptyIsTable DEF Die
<1> QED BY <1>1 DEF Die, TypeOK, dbVars

\* The restarted process has the records, and nothing else.
LEMMA RestartTypes ==
  ASSUME TypeOK, Restart
  PROVE  TypeOK'
<1>1. recovering' \subseteq Builds
  BY DEF Restart, Unfinished, TypeOK, IsTable
<1> QED BY <1>1 DEF Restart, TypeOK, dbVars

\* Recovery starts a goroutine or ends a record.
LEMMA RecoverTypes ==
  ASSUME TypeOK, FinalInv, NEW b \in Builds, RecoverBuild(b)
  PROVE  TypeOK'
<1> DEFINE i    == builds[b].id
           envs == ResolveInOrder(instances[i].target)
           r    == NewBuilder(builds[b], instances[i], envs)
           x    == [builds[b] EXCEPT !.status = "Failed"]
<1>1. b \in DOMAIN builds /\ builds[b] \in Build
  <2>1. b \in DOMAIN builds
    BY DEF RecoverBuild, FinalInv, RecoveryAlone
  <2> QED BY <2>1, TableValue DEF TypeOK
<1>2. x \in Build
  BY <1>1, BuildType DEF BuildStatus
<1>3. i \in DOMAIN instances => r \in Builder
  <2>1. ASSUME i \in DOMAIN instances PROVE r \in Builder
    <3>1. instances[i] \in Instance
      BY <2>1, TableValue DEF TypeOK
    <3> QED BY <1>1, <3>1, InstanceType, NewBuilderType
  <2> QED BY <2>1
<1>4. \/ UNCHANGED <<builds, builders>>
      \/ UNCHANGED builders /\ builds' = [builds EXCEPT ![b] = x]
      \/ i \in DOMAIN instances /\ UNCHANGED builds /\ builders' = Put(builders, b, r)
  BY <1>1 DEF RecoverBuild
<1>5. UNCHANGED <<up, place, instances, nextBuild, due, calls, running>>
      /\ recovering' \subseteq recovering
  BY DEF RecoverBuild
<1> HIDE DEF x, r, i
<1>6. WorkTypes'
  <2>1. WorkTypes
    BY DEF TypeOK, WorkTypes
  <2>2. CASE UNCHANGED builders /\ builds' = [builds EXCEPT ![b] = x]
    BY <1>1, <1>2, <2>1, <2>2, ExceptTable DEF WorkTypes
  <2>3. CASE i \in DOMAIN instances /\ UNCHANGED builds /\ builders' = Put(builders, b, r)
    BY <1>3, <2>1, <2>3, PutTable DEF WorkTypes
  <2> QED BY <1>4, <2>1, <2>2, <2>3 DEF WorkTypes
<1> QED BY <1>5, <1>6 DEF TypeOK, WorkTypes

\* At the start the tables are empty and every instance has a target.
LEMMA InitTypes == Init => TypeOK
<1> SUFFICES ASSUME Init PROVE TypeOK
  OBVIOUS
<1>1. IsTable(instances, Instances, Instance)
  <2>1. [compose : ComposeFiles, target : Targets] \subseteq Instance
    BY BuildsAssumption DEF Instance
  <2> QED BY <2>1 DEF Init, IsTable
<1>2. /\ IsTable(builds, Builds, Build) /\ IsTable(calls, Clients, Call)
      /\ IsTable(builders, Builds, Builder) /\ IsTable(running, Instances, Guard)
  BY EmptyIsTable DEF Init
<1>3. 1 \in 1..(MaxBuilds + 1)
  BY BuildsAssumption
<1> QED BY <1>1, <1>2, <1>3 DEF Init, TypeOK, Places

\* Every step.
LEMMA NextTypes ==
  ASSUME TypeOK, FinalInv, [Next]_vars
  PROVE  TypeOK'
<1>1. ASSUME NEW c \in Clients, Handlers(c) \/ HandlerStep(c) PROVE TypeOK'
  BY <1>1, HandlersTypes, HandlerStepTypes
<1>2. ASSUME NEW b \in Builds, BuilderStep(b) \/ EndPull(b) PROVE TypeOK'
  <2>1. CASE Panic(b)
    BY <2>1, DieTypes DEF Panic
  <2>2. CASE ~Panic(b)
    BY <1>2, <2>2, BuilderStepTypes
  <2> QED BY <2>1, <2>2
<1>3. ASSUME NEW b \in Builds, TimeComes(b) \/ RecoverBuild(b) PROVE TypeOK'
  BY <1>3, WorldTypes, RecoverTypes
<1>4. ASSUME NEW i \in Instances, InstanceStep(i) PROVE TypeOK'
  BY <1>4, InstanceStepTypes
<1>5. ASSUME NEW e \in Environments, MoveEnvironment(e) PROVE TypeOK'
  BY <1>5, WorldTypes
<1>6. CASE Crash \/ Restart
  BY <1>6, DieTypes, RestartTypes DEF Crash
<1>7. CASE UNCHANGED vars
  BY <1>7 DEF vars, TypeOK
<1> QED BY <1>1, <1>2, <1>3, <1>4, <1>5, <1>6, <1>7 DEF Next

\* Every variable keeps its type: a goroutine, a request and a guard always refer
\* to a build that has been given out, and their copies stay whole records.
THEOREM BuildsTyped == Spec => []TypeOK
<1>1. Init => TypeOK /\ FinalInv
  BY InitTypes, InitFinal
<1>2. TypeOK /\ FinalInv /\ [Next]_vars => (TypeOK /\ FinalInv)'
  BY NextTypes, NextFinal
<1> QED BY <1>1, <1>2, PTL DEF Spec

-----------------------------------------------------------------------------
(* The results of a build follow its status, and an operation its pulls.   *)

\* The results of a build are those of the environments R that its instance
\* targets, in their order; there is one at least.
Fits(R, x) ==
  LET envs == Listing(R[x.id])
  IN  /\ envs # <<>>
      /\ DOMAIN x.results = DOMAIN envs
      /\ \A j \in DOMAIN envs : x.results[j].env = envs[j]

AllIn(x, S) == \A j \in DOMAIN x.results : x.results[j].status \in S

\* What ResultsAgree says of a build.
Agrees(x) ==
  /\ x.status = "ImageReady" => AllIn(x, {"ImageReady"})
  /\ x.status = "Deployed"   => AllIn(x, {"Deployed"})
  /\ x.status = "Failed"     => AllIn(x, {"ImageReady", "Failed", "Skipped"})

\* How far a goroutine has come.
Pulled(r) == IF r.failed THEN {"ImageReady", "Failed", "Skipped"} ELSE {"ImageReady"}
Progress(r) ==
  /\ r.pc = "start" => r.i = 1 /\ ~r.failed
  /\ r.pc \in {"next", "pull"} =>
       /\ r.build.status = "Pulling" /\ r.i >= 1
       /\ \A j \in DOMAIN r.build.results :
            j < r.i => r.build.results[j].status \in Pulled(r)
  /\ r.pc = "pull" => ~r.failed /\ r.i \in DOMAIN r.build.results
  /\ r.pc \notin {"start", "next", "pull"} => r.build.status = "ImageReady"

GoodBuilder(T, R, r) ==
  /\ Fits(R, r.build) /\ Agrees(r.build)
  /\ r.copy.target = T[r.build.id]
  /\ r.envs = Listing(R[r.build.id])
  /\ Progress(r)

\* The records of the goroutine and of the bucket are the same,
BuildersAgree(T, R) ==
  \A b \in DOMAIN builders : /\ b \in DOMAIN builds /\ builds[b] = builders[b].build
                             /\ GoodBuilder(T, R, builders[b])

\* ... requests that schedule a build have its record to themselves,
GoodCall(T, R, q) ==
  /\ q.pc \in {"resolve", "create", "launch"}
  /\ q.copy.target = T[q.build.id]
  /\ q.build.status = "Pending"
  /\ q.pc # "resolve" => Fits(R, q.build) /\ q.envs = Listing(R[q.build.id])
CallsAgree(T, R) ==
  \A c \in DOMAIN calls :
    /\ GoodCall(T, R, calls[c])
    /\ calls[c].pc = "launch" =>
         /\ calls[c].b \in DOMAIN builds /\ builds[calls[c].b] = calls[c].build
         /\ calls[c].b \notin DOMAIN builders
         /\ \A d \in DOMAIN calls \ {c} : calls[d].pc = "launch" => calls[d].b # calls[c].b

\* ... and an operation that a build has started has found its images pulled.
GoodGuard(T, R, i, g) == g.copy.target = T[i] /\ g.envs \subseteq R[i]
GuardAgrees(T, R, i) ==
  LET b == running[i].build
  IN  /\ GoodGuard(T, R, i, running[i])
      /\ b # Nobody =>
           /\ b \in DOMAIN builds /\ builds[b].id = i
           /\ builds[b].status \in {"ImageReady", "Deployed"}
           /\ b \notin recovering
           /\ b \in DOMAIN builders => builders[b].pc \in {"launch", "finish"}
GuardsAgree(T, R) == \A i \in DOMAIN running : GuardAgrees(T, R, i)

\* Instances have the targets T for good, and these resolve to R.
TargetsAgree(T, R) ==
  /\ \A i \in Instances : Resolve(T[i]) = R[i]
  /\ \A i \in DOMAIN instances : instances[i].target = T[i]

AgreeInv(T, R) ==
  /\ TargetsAgree(T, R)
  /\ \A b \in DOMAIN builds : Fits(R, builds[b]) /\ Agrees(builds[b])
  /\ BuildersAgree(T, R)
  /\ CallsAgree(T, R)
  /\ GuardsAgree(T, R)
  /\ ~up => DOMAIN running = {}

\* Neither targets nor groups change, and nobody cancels.
Steady == Requests \cap {"edit", "cancel"} = {} /\ Membership = {}

-----------------------------------------------------------------------------
\* What becomes of a record when its goroutine goes on:
\* the pulls begin,
LEMMA StartGood ==
  ASSUME NEW T, NEW R, NEW r \in Builder, GoodBuilder(T, R, r), r.pc = "start"
  PROVE  LET q == [r EXCEPT !.pc = "next", !.build.status = "Pulling"]
         IN  GoodBuilder(T, R, q) /\ q.build.id = r.build.id
<1> SUFFICES ASSUME NEW q, q = [r EXCEPT !.pc = "next", !.build.status = "Pulling"]
             PROVE  GoodBuilder(T, R, q) /\ q.build.id = r.build.id
  OBVIOUS
<1>1. /\ q.pc = "next" /\ q.build.status = "Pulling" /\ q.i = r.i /\ q.failed = r.failed
      /\ q.build.results = r.build.results /\ q.build.id = r.build.id
      /\ q.copy = r.copy /\ q.envs = r.envs
  BY DEF Builder, Build
<1>2. Fits(R, q.build) /\ Agrees(q.build)
  BY <1>1 DEF GoodBuilder, Fits, Agrees
<1>3. r.i = 1 /\ DOMAIN r.build.results \subseteq Nat \ {0}
  BY DEF GoodBuilder, Progress, Builder, Build
<1>4. Progress(q)
  BY <1>1, <1>3 DEF Progress
<1> QED BY <1>1, <1>2, <1>4 DEF GoodBuilder

\* ... the result at hand changes, in q, to status,
Written(r, status, q) ==
  /\ q.pc = r.pc /\ q.i = r.i /\ q.failed = r.failed
  /\ q.build.status = r.build.status /\ q.build.id = r.build.id
  /\ q.copy = r.copy /\ q.envs = r.envs
  /\ DOMAIN q.build.results = DOMAIN r.build.results
  /\ \A j \in DOMAIN r.build.results :
       /\ q.build.results[j].env = r.build.results[j].env
       /\ q.build.results[j].status = IF j = r.i THEN status ELSE r.build.results[j].status

\* Writing a result changes that result and no other.
LEMMA ResultWritten ==
  ASSUME NEW r \in Builder, r.i \in DOMAIN r.build.results, NEW status \in TargetStatus
  PROVE  WithResult(r, status) \in Builder /\ Written(r, status, WithResult(r, status))
<1> DEFINE s == [r.build.results EXCEPT ![r.i].status = status]
           x == [r.build EXCEPT !.results = s]
           q == WithResult(r, status)
<1>1. q = [r EXCEPT !.build = x]
  BY DEF WithResult, Builder, Build
<1>2. r.build \in Build /\ r.build.results \in Seq(Result)
  BY DEF Builder, Build
<1>3. /\ DOMAIN s = DOMAIN r.build.results
      /\ \A j \in DOMAIN r.build.results :
           /\ s[j].env = r.build.results[j].env
           /\ s[j].status = IF j = r.i THEN status ELSE r.build.results[j].status
  <2> SUFFICES ASSUME NEW j \in DOMAIN r.build.results
               PROVE  /\ s[j].env = r.build.results[j].env
                      /\ s[j].status = IF j = r.i THEN status ELSE r.build.results[j].status
    OBVIOUS
  <2>1. r.build.results[j] \in Result
    BY <1>2
  <2> QED BY <2>1 DEF Result
<1> HIDE DEF s
<1>4. x.results = s /\ x.status = r.build.status /\ x.id = r.build.id
  BY <1>2 DEF Build
<1> HIDE DEF x, q
<1>5. /\ q.build = x /\ q.pc = r.pc /\ q.i = r.i /\ q.failed = r.failed
      /\ q.copy = r.copy /\ q.envs = r.envs
  BY <1>1 DEF Builder
<1>6. Written(r, status, q)
  BY <1>3, <1>4, <1>5 DEF Written
<1>7. q \in Builder
  BY ResultType DEF q
<1> QED BY <1>6, <1>7 DEF q

\* A goroutine that is pulling, or skipping, keeps its place among the targets.
LEMMA GoodResults ==
  ASSUME NEW T, NEW R, NEW r \in Builder, GoodBuilder(T, R, r), r.pc \in {"next", "pull"},
         NEW status, NEW q \in Builder, NEW p, Written(r, status, p),
         q.build = p.build, q.envs = p.envs, q.copy = p.copy,
         r.i \in DOMAIN r.build.results,
         Progress(q)
  PROVE  GoodBuilder(T, R, q) /\ q.build.id = r.build.id
<1>1. /\ q.build.status = r.build.status /\ q.build.id = r.build.id
      /\ q.copy = r.copy /\ q.envs = r.envs
      /\ DOMAIN q.build.results = DOMAIN r.build.results
      /\ \A j \in DOMAIN r.build.results :
           q.build.results[j].env = r.build.results[j].env
  BY DEF Written
<1>2. r.build.status = "Pulling"
  BY DEF GoodBuilder, Progress
<1>3. Fits(R, q.build) /\ Agrees(q.build)
  BY <1>1, <1>2 DEF GoodBuilder, Fits, Agrees
<1> QED BY <1>1, <1>3 DEF GoodBuilder

\* After a failed pull the remaining targets are skipped.
LEMMA SkipGood ==
  ASSUME NEW T, NEW R, NEW r \in Builder, GoodBuilder(T, R, r), r.pc = "next", r.failed,
         r.i \in DOMAIN r.build.results
  PROVE  LET q == [WithResult(r, "Skipped") EXCEPT !.i = r.i + 1]
         IN  GoodBuilder(T, R, q) /\ q.build.id = r.build.id
<1> SUFFICES ASSUME NEW q, q = [WithResult(r, "Skipped") EXCEPT !.i = r.i + 1]
             PROVE  GoodBuilder(T, R, q) /\ q.build.id = r.build.id
  OBVIOUS
<1> DEFINE p == WithResult(r, "Skipped")
<1>1. p \in Builder /\ Written(r, "Skipped", p)
  BY ResultWritten DEF TargetStatus
<1>2. /\ p.pc = r.pc /\ p.i = r.i /\ p.failed = r.failed
      /\ p.build.status = r.build.status
      /\ DOMAIN p.build.results = DOMAIN r.build.results
      /\ \A j \in DOMAIN r.build.results :
           p.build.results[j].status = IF j = r.i THEN "Skipped" ELSE r.build.results[j].status
  BY <1>1 DEF Written
<1>3. q = [p EXCEPT !.i = r.i + 1]
  OBVIOUS
<1> HIDE DEF p
<1>4. r.i \in Nat /\ DOMAIN r.build.results \subseteq Nat
  BY DEF Builder, Build
<1>5. /\ q \in Builder /\ q.pc = p.pc /\ q.build = p.build /\ q.failed = p.failed
      /\ q.i = r.i + 1 /\ q.envs = p.envs /\ q.copy = p.copy
  BY <1>1, <1>3, <1>4 DEF Builder
<1>6. Progress(q)
  <2>1. \A j \in DOMAIN r.build.results :
          j < r.i => r.build.results[j].status \in Pulled(r)
    BY DEF GoodBuilder, Progress
  <2>2. Pulled(q) = Pulled(r) /\ "Skipped" \in Pulled(r)
    BY <1>2, <1>5 DEF Pulled
  <2>3. \A j \in DOMAIN q.build.results :
          j < q.i => q.build.results[j].status \in Pulled(q)
    BY <1>2, <1>4, <1>5, <2>1, <2>2
  <2>4. q.pc = "next" /\ q.build.status = "Pulling" /\ q.i >= 1
    BY <1>2, <1>4, <1>5 DEF GoodBuilder, Progress
  <2> QED BY <2>3, <2>4 DEF Progress
<1>7. r.pc \in {"next", "pull"}
  OBVIOUS
<1> QED BY <1>1, <1>5, <1>6, <1>7, GoodResults

\* The image of the next target is pulled.
LEMMA PullGood ==
  ASSUME NEW T, NEW R, NEW r \in Builder, GoodBuilder(T, R, r), r.pc = "next", ~r.failed,
         r.i \in DOMAIN r.build.results
  PROVE  LET q == [WithResult(r, "Pulling") EXCEPT !.pc = "pull"]
         IN  GoodBuilder(T, R, q) /\ q.build.id = r.build.id
<1> SUFFICES ASSUME NEW q, q = [WithResult(r, "Pulling") EXCEPT !.pc = "pull"]
             PROVE  GoodBuilder(T, R, q) /\ q.build.id = r.build.id
  OBVIOUS
<1> DEFINE p == WithResult(r, "Pulling")
<1>1. p \in Builder /\ Written(r, "Pulling", p)
  BY ResultWritten DEF TargetStatus
<1>2. /\ p.i = r.i /\ p.failed = r.failed
      /\ p.build.status = r.build.status
      /\ DOMAIN p.build.results = DOMAIN r.build.results
      /\ \A j \in DOMAIN r.build.results :
           p.build.results[j].status = IF j = r.i THEN "Pulling" ELSE r.build.results[j].status
  BY <1>1 DEF Written
<1>3. q = [p EXCEPT !.pc = "pull"]
  OBVIOUS
<1> HIDE DEF p
<1>4. r.i \in Nat /\ DOMAIN r.build.results \subseteq Nat
  BY DEF Builder, Build
<1>5. /\ q \in Builder /\ q.pc = "pull" /\ q.build = p.build /\ q.failed = p.failed
      /\ q.i = r.i /\ q.envs = p.envs /\ q.copy = p.copy
  BY <1>1, <1>2, <1>3 DEF Builder, BuilderPC
<1>6. Progress(q)
  BY <1>2, <1>4, <1>5 DEF GoodBuilder, Progress, Pulled
<1>7. r.pc \in {"next", "pull"}
  OBVIOUS
<1> QED BY <1>1, <1>5, <1>6, <1>7, GoodResults

\* ... and when it has come back,
AfterPull(r, status) ==
  [WithResult(r, status) EXCEPT !.pc = "next", !.i = r.i + 1, !.failed = (status = "Failed")]

\* A pull ends, well or not, and the next target follows.
LEMMA PulledGood ==
  ASSUME NEW T, NEW R, NEW r \in Builder, GoodBuilder(T, R, r), r.pc = "pull",
         NEW status \in {"ImageReady", "Failed"}
  PROVE  /\ GoodBuilder(T, R, AfterPull(r, status))
         /\ AfterPull(r, status).build.id = r.build.id
<1> SUFFICES ASSUME NEW q, q = AfterPull(r, status)
             PROVE  GoodBuilder(T, R, q) /\ q.build.id = r.build.id
  OBVIOUS
<1> DEFINE p == WithResult(r, status)
           n == r.i + 1
           f == (status = "Failed")
           z == [p EXCEPT !.pc = "next", !.i = n, !.failed = f]
<1>0. r.i \in DOMAIN r.build.results /\ ~r.failed
  BY DEF GoodBuilder, Progress
<1>1. p \in Builder /\ Written(r, status, p)
  BY <1>0, ResultWritten DEF TargetStatus
<1>2. /\ p.i = r.i /\ p.failed = r.failed
      /\ p.build.status = r.build.status
      /\ DOMAIN p.build.results = DOMAIN r.build.results
      /\ \A j \in DOMAIN r.build.results :
           p.build.results[j].status = IF j = r.i THEN status ELSE r.build.results[j].status
  BY <1>1 DEF Written
<1>3. q = z
  BY DEF AfterPull
<1> HIDE DEF p
<1>4. r.i \in Nat /\ DOMAIN r.build.results \subseteq Nat
  BY DEF Builder, Build
<1>5. n \in Nat /\ f \in BOOLEAN
  BY <1>4
<1> HIDE DEF n, f
<1>6. /\ z \in Builder /\ z.pc = "next" /\ z.build = p.build
      /\ z.failed = f /\ z.i = n /\ z.envs = p.envs /\ z.copy = p.copy
  BY <1>1, <1>5 DEF Builder, BuilderPC
<1> HIDE DEF z
<1>7. Progress(z)
  <2>1. \A j \in DOMAIN r.build.results :
          j < r.i => r.build.results[j].status = "ImageReady"
    BY <1>0 DEF GoodBuilder, Progress, Pulled
  <2>2. \A j \in DOMAIN z.build.results :
          j < z.i => z.build.results[j].status \in {"ImageReady", status}
    BY <1>2, <1>4, <1>6, <2>1 DEF n
  <2>3. {"ImageReady", status} \subseteq Pulled(z)
    BY <1>6 DEF Pulled, f
  <2>4. z.build.status = "Pulling" /\ z.i >= 1
    BY <1>2, <1>4, <1>6 DEF GoodBuilder, Progress, n
  <2> QED BY <1>6, <2>2, <2>3, <2>4 DEF Progress
<1>8. /\ z.build = p.build /\ z.envs = p.envs /\ z.copy = p.copy
      /\ z \in Builder /\ r.pc \in {"next", "pull"}
  BY <1>6
<1>9. GoodBuilder(T, R, z) /\ z.build.id = r.build.id
  BY <1>0, <1>1, <1>7, <1>8, GoodResults
<1> QED BY <1>3, <1>9, Zenon

\* ... and the pulls are through.
LEMMA ReadyGood ==
  ASSUME NEW T, NEW R, NEW r \in Builder, GoodBuilder(T, R, r), r.pc = "next", ~r.failed,
         r.i > Len(r.envs)
  PROVE  LET q == [r EXCEPT !.pc = "ready", !.build.status = "ImageReady"]
         IN  GoodBuilder(T, R, q) /\ q.build.id = r.build.id
<1> SUFFICES ASSUME NEW q, q = [r EXCEPT !.pc = "ready", !.build.status = "ImageReady"]
             PROVE  GoodBuilder(T, R, q) /\ q.build.id = r.build.id
  OBVIOUS
<1>1. /\ q.pc = "ready" /\ q.build.status = "ImageReady"
      /\ q.build.results = r.build.results /\ q.build.id = r.build.id
      /\ q.copy = r.copy /\ q.envs = r.envs
  BY DEF Builder, Build
<1>2. \A j \in DOMAIN r.build.results : j < r.i
  BY DEF GoodBuilder, Fits, Builder, Build
<1>3. \A j \in DOMAIN r.build.results : r.build.results[j].status = "ImageReady"
  BY <1>2 DEF GoodBuilder, Progress, Pulled
<1>4. Fits(R, q.build) /\ Agrees(q.build)
  BY <1>1, <1>3 DEF GoodBuilder, Fits, Agrees, AllIn
<1> QED BY <1>1, <1>4 DEF GoodBuilder, Progress

\* A step that changes only the place in the program, and perhaps the copy.
LEMMA MovedGood ==
  ASSUME NEW T, NEW R, NEW r, GoodBuilder(T, R, r), r.pc \notin {"start", "next", "pull"},
         NEW q, q.pc \notin {"start", "next", "pull"}, q.build = r.build, q.envs = r.envs,
         q.copy.target = r.copy.target
  PROVE  GoodBuilder(T, R, q) /\ q.build.id = r.build.id
BY DEF GoodBuilder, Progress

\* A build that fails has no target left waiting when its pulls are through,
LEMMA FailedGood ==
  ASSUME NEW R, NEW x \in Build, Fits(R, x),
         AllIn(x, {"ImageReady", "Failed", "Skipped"}),
         NEW y, y = FailedBuild(x)
  PROVE  Fits(R, y) /\ Agrees(y) /\ y.id = x.id
<1> DEFINE t == [j \in DOMAIN x.results |->
                   IF x.results[j].status \in {"Pending", "Pulling"}
                   THEN [x.results[j] EXCEPT !.status = "Skipped"] ELSE x.results[j]]
<1>1. y.id = x.id /\ y.status = "Failed" /\ y.results = t
  BY DEF FailedBuild, Build
<1>2. t = [j \in DOMAIN x.results |-> x.results[j]]
  BY DEF AllIn
<1>3. DOMAIN t = DOMAIN x.results /\ \A j \in DOMAIN t : t[j] = x.results[j]
  BY <1>2
<1> HIDE DEF t
<1> QED BY <1>1, <1>3 DEF Fits, Agrees, AllIn

\* ... and a deployed one is deployed everywhere.
LEMMA DeployedGood ==
  ASSUME NEW R, NEW x \in Build, Fits(R, x),
         NEW y, y = [x EXCEPT !.status = "Deployed",
                       !.results = [j \in DOMAIN @ |-> [@[j] EXCEPT !.status = "Deployed"]]]
  PROVE  Fits(R, y) /\ Agrees(y) /\ y.id = x.id /\ y.status = "Deployed"
<1> DEFINE t == [j \in DOMAIN x.results |-> [x.results[j] EXCEPT !.status = "Deployed"]]
<1>1. y.id = x.id /\ y.status = "Deployed" /\ y.results = t
  BY DEF Build
<1>2. DOMAIN t = DOMAIN x.results
  OBVIOUS
<1>3. ASSUME NEW j \in DOMAIN x.results
      PROVE  t[j].status = "Deployed" /\ t[j].env = x.results[j].env
  <2>1. x.results[j] \in Result
    BY DEF Build
  <2> QED BY <2>1 DEF Result
<1> HIDE DEF t
<1> QED BY <1>1, <1>2, <1>3 DEF Fits, Agrees, AllIn

\* A goroutine begins with a record of the bucket, or a new one.
LEMMA BeginGood ==
  ASSUME NEW T, NEW R, NEW x, Fits(R, x), Agrees(x), NEW copy, copy.target = T[x.id],
         NEW envs, envs = Listing(R[x.id])
  PROVE  /\ GoodBuilder(T, R, NewBuilder(x, copy, envs))
         /\ NewBuilder(x, copy, envs).build = x
BY DEF NewBuilder, GoodBuilder, Progress

-----------------------------------------------------------------------------
\* What a goroutine does to its own record: it goes on, or ends.
Carries(T, R, b) ==
  \/ \E q : /\ GoodBuilder(T, R, q) /\ q.build.id = builders[b].build.id
            /\ builders' = [builders EXCEPT ![b] = q]
            /\ \/ builds' = builds /\ q.build = builders[b].build
               \/ builds' = Put(builds, b, q.build)
  \/ \E y : /\ Fits(R, y) /\ Agrees(y) /\ y.id = builders[b].build.id
            /\ EndWith(b, y)
  \/ End(b)

\* What a goroutine carries on is what the invariant says of it.
LEMMA CarriesBuilds ==
  ASSUME TypeOK, NEW T, NEW R, AgreeInv(T, R), NEW b \in DOMAIN builders,
         BuilderEffect(b), Carries(T, R, b)
  PROVE  /\ \A a \in DOMAIN builds' : Fits(R, builds'[a]) /\ Agrees(builds'[a])
         /\ BuildersAgree(T, R)'
         /\ CallsAgree(T, R)'
<1>0. /\ DOMAIN builds' = DOMAIN builds /\ b \in DOMAIN builds
      /\ builds[b] = builders[b].build
      /\ calls' = calls
      /\ \A a \in DOMAIN builds \ {b} : builds'[a] = builds[a]
      /\ DOMAIN builders' \subseteq DOMAIN builders
  BY DEF AgreeInv, BuildersAgree, BuilderEffect
<1>1. CASE \E q : /\ GoodBuilder(T, R, q) /\ q.build.id = builders[b].build.id
                  /\ builders' = [builders EXCEPT ![b] = q]
                  /\ \/ builds' = builds /\ q.build = builders[b].build
                     \/ builds' = Put(builds, b, q.build)
  <2>1. PICK q : /\ GoodBuilder(T, R, q)
                 /\ builders' = [builders EXCEPT ![b] = q]
                 /\ \/ builds' = builds /\ q.build = builders[b].build
                    \/ builds' = Put(builds, b, q.build)
    BY <1>1
  <2>2. builds'[b] = q.build
    BY <1>0, <2>1 DEF Put
  <2>3. builders'[b] = q /\ \A a \in DOMAIN builders \ {b} : builders'[a] = builders[a]
    BY <2>1
  <2>4. Fits(R, q.build) /\ Agrees(q.build)
    BY <2>1 DEF GoodBuilder
  <2>5. BuildersAgree(T, R)'
    BY <1>0, <2>1, <2>2, <2>3 DEF AgreeInv, BuildersAgree
  <2>6. CallsAgree(T, R)'
    BY <1>0 DEF AgreeInv, CallsAgree
  <2> QED BY <1>0, <2>2, <2>4, <2>5, <2>6 DEF AgreeInv
<1>2. CASE \E y : Fits(R, y) /\ Agrees(y) /\ EndWith(b, y)
  <2>1. PICK y : Fits(R, y) /\ Agrees(y) /\ EndWith(b, y)
    BY <1>2
  <2>2. /\ builds'[b] = y
        /\ DOMAIN builders' = DOMAIN builders \ {b}
        /\ \A a \in DOMAIN builders' : builders'[a] = builders[a]
    BY <1>0, <2>1 DEF EndWith, Put, Drop
  <2>3. BuildersAgree(T, R)'
    BY <1>0, <2>2 DEF AgreeInv, BuildersAgree
  <2>4. CallsAgree(T, R)'
    BY <1>0 DEF AgreeInv, CallsAgree
  <2> QED BY <1>0, <2>1, <2>2, <2>3, <2>4 DEF AgreeInv
<1>3. CASE End(b)
  <2>1. /\ builds' = builds
        /\ DOMAIN builders' = DOMAIN builders \ {b}
        /\ \A a \in DOMAIN builders' : builders'[a] = builders[a]
    BY <1>3 DEF End, Drop
  <2>2. BuildersAgree(T, R)'
    BY <1>0, <2>1 DEF AgreeInv, BuildersAgree
  <2>3. CallsAgree(T, R)'
    BY <1>0 DEF AgreeInv, CallsAgree
  <2> QED BY <2>1, <2>2, <2>3 DEF AgreeInv
<1> QED BY <1>1, <1>2, <1>3 DEF Carries

\* A guard that the step of a goroutine leaves alone, and that is not its own,
LEMMA OtherGuard ==
  ASSUME NEW T, NEW R, AgreeInv(T, R), NEW b \in DOMAIN builders, BuilderEffect(b),
         \A a \in DOMAIN builders' \ {b} : builders'[a] = builders[a],
         NEW i \in DOMAIN running, running'[i] = running[i], running[i].build # b
  PROVE  GuardAgrees(T, R, i)'
<1>1. GuardAgrees(T, R, i)
  BY DEF AgreeInv, GuardsAgree
<1> QED BY <1>1 DEF GuardAgrees, GoodGuard, BuilderEffect

\* ... and no guard is, before it gets to the operation.
LEMMA HoldsNone ==
  ASSUME TypeOK, NEW T, NEW R, AgreeInv(T, R), NEW b \in DOMAIN builders,
         NEW i \in DOMAIN running, running[i].build = b
  PROVE  /\ builders[b].pc \in {"launch", "finish"}
         /\ builders[b].build.id = i
<1>1. b # Nobody
  BY BuildsAssumption DEF TypeOK, IsTable, Builds, Nobody
<1>2. GuardAgrees(T, R, i)
  BY DEF AgreeInv, GuardsAgree
<1> QED BY <1>1, <1>2 DEF GuardAgrees, AgreeInv, BuildersAgree

\* A goroutine that touches no operation leaves the operations as they are.
LEMMA GuardsKept ==
  ASSUME TypeOK, NEW T, NEW R, AgreeInv(T, R), NEW b \in DOMAIN builders, BuilderEffect(b),
         running' = running,
         builders[b].pc \notin {"launch", "finish"},
         \A a \in DOMAIN builders' \ {b} : builders'[a] = builders[a]
  PROVE  GuardsAgree(T, R)'
<1>1. ASSUME NEW i \in DOMAIN running PROVE GuardAgrees(T, R, i)'
  BY <1>1, HoldsNone, OtherGuard
<1> QED BY <1>1 DEF GuardsAgree

\* Where a goroutine's record changes, no other does.
LEMMA OthersKept ==
  ASSUME NEW T, NEW R, NEW b, Carries(T, R, b)
  PROVE  \A a \in DOMAIN builders' \ {b} : builders'[a] = builders[a]
BY DEF Carries, EndWith, End, Drop

\* The steps on the way to the deployment.
LEMMA PullStepsCarry ==
  ASSUME TypeOK, NEW T, NEW R, AgreeInv(T, R), NEW b \in DOMAIN builders,
         \/ Start(b) \/ NextTarget(b) \/ EndPull(b) \/ EndPulls(b)
         \/ CheckTime(b) \/ Select(b)
  PROVE  Carries(T, R, b) /\ builders[b].pc \notin {"launch", "finish"}
<1> SUFFICES ASSUME NEW r, r = builders[b]
             PROVE  Carries(T, R, b) /\ r.pc \notin {"launch", "finish"}
  OBVIOUS
<1>0. r \in Builder /\ r.build \in Build /\ GoodBuilder(T, R, r)
  BY TableValue, BuilderType DEF TypeOK, AgreeInv, BuildersAgree
<1>1. ASSUME NEW q, GoodBuilder(T, R, q), q.build.id = r.build.id, Persist(b, q)
      PROVE  Carries(T, R, b)
  BY <1>1 DEF Carries, Persist
<1>2. ASSUME NEW pc, r.pc \notin {"start", "next", "pull"},
             pc \notin {"start", "next", "pull"}, Goto(b, pc)
      PROVE  Carries(T, R, b)
  <2> DEFINE q == [r EXCEPT !.pc = pc]
  <2>1. q.pc = pc /\ q.build = r.build /\ q.envs = r.envs /\ q.copy = r.copy
    BY <1>0 DEF Builder
  <2>2. builders' = [builders EXCEPT ![b] = q] /\ builds' = builds
    BY <1>2 DEF Goto
  <2> HIDE DEF q
  <2>3. GoodBuilder(T, R, q) /\ q.build.id = r.build.id
    BY <1>0, <1>2, <2>1, MovedGood
  <2> QED BY <2>1, <2>2, <2>3 DEF Carries
<1>3. CASE Start(b)
  <2> DEFINE q == [r EXCEPT !.pc = "next", !.build.status = "Pulling"]
  <2>1. r.pc = "start" /\ Persist(b, q)
    BY <1>3 DEF Start, At
  <2>2. GoodBuilder(T, R, q) /\ q.build.id = r.build.id
    BY <1>0, <2>1, StartGood, Zenon
  <2> HIDE DEF q
  <2> QED BY <1>1, <2>1, <2>2
<1>4. CASE NextTarget(b)
  <2>1. r.pc = "next" /\ r.i <= Len(r.envs)
    BY <1>4 DEF NextTarget, MoreTargets, At
  <2>2. r.i \in DOMAIN r.build.results
    BY <1>0, <2>1 DEF GoodBuilder, Fits, Progress, Builder
  <2>3. CASE End(b)
    BY <2>1, <2>3 DEF Carries
  <2>4. CASE r.failed /\ ~End(b)
    <3> DEFINE q == [WithResult(r, "Skipped") EXCEPT !.i = r.i + 1]
    <3>1. Persist(b, q)
      BY <1>4, <2>4 DEF NextTarget
    <3>2. GoodBuilder(T, R, q) /\ q.build.id = r.build.id
      BY <1>0, <2>1, <2>2, <2>4, SkipGood, Zenon
    <3> HIDE DEF q
    <3> QED BY <1>1, <2>1, <3>1, <3>2
  <2>5. CASE ~r.failed /\ ~End(b)
    <3> DEFINE q == [WithResult(r, "Pulling") EXCEPT !.pc = "pull"]
    <3>1. Persist(b, q)
      BY <1>4, <2>5 DEF NextTarget
    <3>2. GoodBuilder(T, R, q) /\ q.build.id = r.build.id
      BY <1>0, <2>1, <2>2, <2>5, PullGood, Zenon
    <3> HIDE DEF q
    <3> QED BY <1>1, <2>1, <3>1, <3>2
  <2> QED BY <2>3, <2>4, <2>5
<1>5. CASE EndPull(b)
  <2>1. r.pc = "pull"
    BY <1>5 DEF EndPull, At
  <2>2. PICK status \in {"ImageReady", "Failed"} : Persist(b, AfterPull(r, status))
    BY <1>5 DEF EndPull, AfterPull
  <2>3. /\ GoodBuilder(T, R, AfterPull(r, status))
        /\ AfterPull(r, status).build.id = r.build.id
    BY <1>0, <2>1, PulledGood
  <2> QED BY <1>1, <2>1, <2>2, <2>3
<1>6. CASE EndPulls(b)
  <2>1. r.pc = "next" /\ ~(r.i <= Len(r.envs))
    BY <1>6 DEF EndPulls, MoreTargets, At
  <2>2. r.i \in Nat /\ Len(r.envs) \in Nat
    BY <1>0 DEF Builder
  <2>3. CASE r.failed
    <3>1. \A j \in DOMAIN r.build.results : j < r.i
      BY <1>0, <2>1, <2>2 DEF GoodBuilder, Fits, Builder
    <3>2. AllIn(r.build, {"ImageReady", "Failed", "Skipped"})
      BY <1>0, <2>1, <2>3, <3>1 DEF GoodBuilder, Progress, Pulled, AllIn
    <3> DEFINE y == FailedBuild(r.build)
    <3>3. Fits(R, y) /\ Agrees(y) /\ y.id = r.build.id
      BY <1>0, <3>2, FailedGood DEF GoodBuilder
    <3>4. EndWith(b, y)
      BY <1>6, <2>3 DEF EndPulls
    <3> HIDE DEF y
    <3> QED BY <2>1, <3>3, <3>4 DEF Carries
  <2>4. CASE ~r.failed
    <3> DEFINE q == [r EXCEPT !.pc = "ready", !.build.status = "ImageReady"]
    <3>1. GoodBuilder(T, R, q) /\ q.build.id = r.build.id
      <4>1. r.i > Len(r.envs)
        BY <2>1, <2>2
      <4> QED BY <1>0, <2>1, <2>4, <4>1, ReadyGood, Zenon
    <3>2. Persist(b, q)
      BY <1>6, <2>4 DEF EndPulls
    <3> HIDE DEF q
    <3> QED BY <1>1, <2>1, <3>1, <3>2
  <2> QED BY <2>3, <2>4
<1>7. CASE CheckTime(b)
  <2>1. r.pc = "ready" /\ (Goto(b, "store") \/ Goto(b, "select"))
    BY <1>7 DEF CheckTime, At
  <2> QED BY <1>2, <2>1
<1>8. CASE Select(b)
  <2>1. r.pc = "select" /\ (Goto(b, "store") \/ Goto(b, "parked") \/ End(b))
    BY <1>8 DEF Select, At
  <2>2. End(b) => Carries(T, R, b)
    BY DEF Carries
  <2> QED BY <1>2, <2>1, <2>2
<1> QED BY <1>3, <1>4, <1>5, <1>6, <1>7, <1>8

\* A goroutine carries the invariant when it leaves targets and guards right.
LEMMA CarriesAgree ==
  ASSUME TypeOK, NEW T, NEW R, AgreeInv(T, R), NEW b \in DOMAIN builders,
         BuilderEffect(b), Carries(T, R, b), UNCHANGED place,
         \A i \in DOMAIN instances' : instances'[i].target = T[i],
         GuardsAgree(T, R)', up
  PROVE  AgreeInv(T, R)'
<1>1. TargetsAgree(T, R)'
  BY DEF AgreeInv, TargetsAgree, Resolve
<1>2. up'
  BY DEF BuilderEffect
<1> QED BY <1>1, <1>2, CarriesBuilds DEF AgreeInv

\* The compose file is stored with the instance as it was read.
LEMMA StoreComposeAgrees ==
  ASSUME TypeOK, NEW T, NEW R, AgreeInv(T, R), NEW b \in DOMAIN builders,
         BuilderEffect(b), StoreCompose(b)
  PROVE  /\ Carries(T, R, b) /\ builders[b].pc \notin {"launch", "finish"}
         /\ \A i \in DOMAIN instances' : instances'[i].target = T[i]
<1> SUFFICES ASSUME NEW r, r = builders[b]
             PROVE  /\ Carries(T, R, b) /\ r.pc \notin {"launch", "finish"}
                    /\ \A i \in DOMAIN instances' : instances'[i].target = T[i]
  OBVIOUS
<1>0. r \in Builder /\ r.copy \in Instance /\ GoodBuilder(T, R, r) /\ r.pc = "store"
  BY TableValue, BuilderType DEF TypeOK, AgreeInv, BuildersAgree, StoreCompose, At
<1> DEFINE copy == [r.copy EXCEPT !.compose = r.build.compose]
           q    == [r EXCEPT !.copy = copy, !.pc = "acquire"]
<1>1. copy.target = r.copy.target
  BY <1>0 DEF Instance
<1>2. instances' = Put(instances, r.build.id, copy) /\ builders' = [builders EXCEPT ![b] = q]
      /\ builds' = builds
  BY DEF StoreCompose
<1> HIDE DEF copy
<1>3. q.pc = "acquire" /\ q.build = r.build /\ q.envs = r.envs /\ q.copy = copy
  BY <1>0 DEF Builder
<1> HIDE DEF q
<1>4. GoodBuilder(T, R, q) /\ q.build.id = r.build.id
  BY <1>0, <1>1, <1>3, MovedGood
<1>5. Carries(T, R, b)
  BY <1>2, <1>3, <1>4 DEF Carries
<1>6. \A i \in DOMAIN instances' : instances'[i].target = T[i]
  BY <1>0, <1>1, <1>2 DEF Put, AgreeInv, TargetsAgree, GoodBuilder
<1> QED BY <1>0, <1>5, <1>6

\* Moving to the deployment, or failing with all images there.
LEMMA DeployMoves ==
  ASSUME TypeOK, NEW T, NEW R, AgreeInv(T, R), NEW b \in DOMAIN builders,
         builders[b].pc \in {"acquire", "launch"},
         NEW pc \in {"launch", "finish"},
         Goto(b, pc) \/ EndWith(b, FailedBuild(builders[b].build))
  PROVE  Carries(T, R, b)
<1> SUFFICES ASSUME NEW r, r = builders[b] PROVE Carries(T, R, b)
  OBVIOUS
<1>0. r \in Builder /\ r.build \in Build /\ GoodBuilder(T, R, r)
  BY TableValue, BuilderType DEF TypeOK, AgreeInv, BuildersAgree
<1>1. CASE Goto(b, pc)
  <2> DEFINE q == [r EXCEPT !.pc = pc]
  <2>1. q.pc = pc /\ q.build = r.build /\ q.envs = r.envs /\ q.copy = r.copy
    BY <1>0 DEF Builder
  <2>2. builders' = [builders EXCEPT ![b] = q] /\ builds' = builds
    BY <1>1 DEF Goto
  <2> HIDE DEF q
  <2>3. GoodBuilder(T, R, q) /\ q.build.id = r.build.id
    BY <1>0, <2>1, MovedGood
  <2> QED BY <2>1, <2>2, <2>3 DEF Carries
<1>2. CASE EndWith(b, FailedBuild(r.build))
  <2> DEFINE y == FailedBuild(r.build)
  <2>1. AllIn(r.build, {"ImageReady", "Failed", "Skipped"})
    BY <1>0 DEF GoodBuilder, Progress, Agrees, AllIn
  <2>2. Fits(R, y) /\ Agrees(y) /\ y.id = r.build.id
    BY <1>0, <2>1, FailedGood DEF GoodBuilder
  <2> HIDE DEF y
  <2> QED BY <1>2, <2>2 DEF Carries, y
<1> QED BY <1>1, <1>2

\* The build takes the guard of its instance, or fails.
LEMMA AcquireAgrees ==
  ASSUME TypeOK, FinalInv, NEW T, NEW R, AgreeInv(T, R), NEW b \in DOMAIN builders,
         BuilderEffect(b), Acquire(b)
  PROVE  Carries(T, R, b) /\ GuardsAgree(T, R)'
<1> SUFFICES ASSUME NEW i, i = builders[b].build.id
             PROVE  Carries(T, R, b) /\ GuardsAgree(T, R)'
  OBVIOUS
<1> DEFINE g == [build |-> b, working |-> FALSE, copy |-> builders[b].copy, envs |-> {}]
<1>0. builders[b].pc = "acquire" /\ b \notin recovering /\ GoodBuilder(T, R, builders[b])
      /\ b \in DOMAIN builds /\ builds[b] = builders[b].build
      /\ builds[b].status = "ImageReady"
  BY DEF Acquire, At, FinalInv, RecoveryAlone, AgreeInv, BuildersAgree, GoodBuilder, Progress
<1>1. Goto(b, "launch") \/ EndWith(b, FailedBuild(builders[b].build))
  BY DEF Acquire
<1>2. Carries(T, R, b)
  BY <1>0, <1>1, DeployMoves
<1>3. CASE UNCHANGED running
  BY <1>0, <1>2, <1>3, GuardsKept, OthersKept
<1>4. CASE running' = Put(running, i, g) /\ Goto(b, "launch")
  <2>1. g.copy = builders[b].copy /\ g.envs = {} /\ g.build = b
    OBVIOUS
  <2>2. GoodGuard(T, R, i, g)
    BY <1>0, <2>1 DEF GoodGuard, GoodBuilder
  <2> HIDE DEF g
  <2>3. builds' = builds /\ builders'[b].pc = "launch" /\ recovering' = recovering
    <3>1. builders[b] \in Builder
      BY TableValue DEF TypeOK
    <3> QED BY <1>4, <3>1 DEF Goto, BuilderEffect, Builder
  <2>4. \A a \in DOMAIN builders' \ {b} : builders'[a] = builders[a]
    BY <1>2, OthersKept
  <2>5. DOMAIN running' = DOMAIN running \cup {i} /\ running'[i] = g
    BY <1>4 DEF Put
  <2>6. GuardAgrees(T, R, i)'
    BY <1>0, <2>1, <2>2, <2>3, <2>5 DEF GuardAgrees, GoodGuard
  <2>7. ASSUME NEW k \in DOMAIN running, k # i PROVE GuardAgrees(T, R, k)'
    <3>1. running'[k] = running[k]
      BY <1>4, <2>7 DEF Put
    <3>2. running[k].build # b
      BY <1>0, HoldsNone
    <3> QED BY <2>4, <3>1, <3>2, OtherGuard
  <2> QED BY <1>2, <2>5, <2>6, <2>7 DEF GuardsAgree
<1> QED BY <1>2, <1>3, <1>4 DEF Acquire

\* The operation is launched on what the targets resolve to, as they did before.
LEMMA LaunchAgrees ==
  ASSUME TypeOK, FinalInv, NEW T \in [Instances -> Target], NEW R, AgreeInv(T, R),
         NEW b \in DOMAIN builders, BuilderEffect(b), LaunchOperation(b)
  PROVE  Carries(T, R, b) /\ GuardsAgree(T, R)'
<1> SUFFICES ASSUME NEW i, i = builders[b].build.id
             PROVE  Carries(T, R, b) /\ GuardsAgree(T, R)'
  OBVIOUS
<1> DEFINE g == [build |-> b, working |-> TRUE, copy |-> instances[i],
                 envs |-> Resolve(instances[i].target)]
<1>0. builders[b].pc = "launch" /\ b \notin recovering /\ GoodBuilder(T, R, builders[b])
      /\ b \in DOMAIN builds /\ builds[b] = builders[b].build
      /\ builds[b].status = "ImageReady"
  BY DEF LaunchOperation, At, FinalInv, RecoveryAlone, AgreeInv, BuildersAgree, GoodBuilder,
         Progress
<1>1. Goto(b, "finish") \/ EndWith(b, FailedBuild(builders[b].build))
  BY DEF LaunchOperation
<1>2. Carries(T, R, b)
  BY <1>0, <1>1, DeployMoves
<1>3. \A a \in DOMAIN builders' \ {b} : builders'[a] = builders[a]
  BY <1>2, OthersKept
<1>4. \A k \in DOMAIN running : k # i => running[k].build # b
  BY HoldsNone
<1>5. CASE i \in DOMAIN instances /\ running' = Put(running, i, g) /\ Goto(b, "finish")
  <2>0. i \in Instances
    BY <1>5 DEF TypeOK, IsTable
  <2>1. g.copy = instances[i] /\ g.envs = Resolve(instances[i].target) /\ g.build = b
    OBVIOUS
  <2>2. GoodGuard(T, R, i, g)
    BY <1>5, <2>0, <2>1 DEF GoodGuard, AgreeInv, TargetsAgree
  <2> HIDE DEF g
  <2>3. builds' = builds /\ builders'[b].pc = "finish" /\ recovering' = recovering
    <3>1. builders[b] \in Builder
      BY TableValue DEF TypeOK
    <3> QED BY <1>5, <3>1 DEF Goto, BuilderEffect, Builder
  <2>5. DOMAIN running' = DOMAIN running \cup {i} /\ running'[i] = g
    BY <1>5 DEF Put
  <2>6. GuardAgrees(T, R, i)'
    BY <1>0, <2>1, <2>2, <2>3, <2>5 DEF GuardAgrees, GoodGuard
  <2>7. ASSUME NEW k \in DOMAIN running, k # i PROVE GuardAgrees(T, R, k)'
    <3>1. running'[k] = running[k]
      BY <1>5, <2>7 DEF Put
    <3> QED BY <1>3, <1>4, <2>7, <3>1, OtherGuard
  <2> QED BY <1>2, <2>5, <2>6, <2>7 DEF GuardsAgree
<1>6. CASE running' = Drop(running, {i})
  <2>1. ASSUME NEW k \in DOMAIN running' PROVE GuardAgrees(T, R, k)'
    <3>1. k \in DOMAIN running /\ k # i /\ running'[k] = running[k]
      BY <1>6, <2>1 DEF Drop
    <3> QED BY <1>3, <1>4, <3>1, OtherGuard
  <2> QED BY <1>2, <2>1 DEF GuardsAgree
<1> QED BY <1>5, <1>6 DEF LaunchOperation

\* With its operation accepted, the build and all its results are deployed.
LEMMA FinishAgrees ==
  ASSUME TypeOK, FinalInv, NEW T, NEW R, AgreeInv(T, R), NEW b \in DOMAIN builders,
         BuilderEffect(b), FinishBuild(b)
  PROVE  Carries(T, R, b) /\ GuardsAgree(T, R)'
<1> SUFFICES ASSUME NEW r, r = builders[b]
             PROVE  Carries(T, R, b) /\ GuardsAgree(T, R)'
  OBVIOUS
<1>0. r \in Builder /\ r.build \in Build /\ GoodBuilder(T, R, r)
      /\ b \notin recovering
  BY TableValue, BuilderType DEF TypeOK, AgreeInv, BuildersAgree, FinalInv, RecoveryAlone
<1> DEFINE y == [r.build EXCEPT !.status = "Deployed",
                  !.results = [j \in DOMAIN @ |-> [@[j] EXCEPT !.status = "Deployed"]]]
<1>1. EndWith(b, y)
  BY DEF FinishBuild
<1>2. Fits(R, y) /\ Agrees(y) /\ y.id = r.build.id /\ y.status = "Deployed"
  BY <1>0, DeployedGood, Zenon DEF GoodBuilder
<1> HIDE DEF y
<1>3. Carries(T, R, b)
  BY <1>1, <1>2 DEF Carries
<1>4. \A a \in DOMAIN builders' \ {b} : builders'[a] = builders[a]
  BY <1>3, OthersKept
<1>5. b \in DOMAIN builds' /\ builds'[b] = y /\ b \notin DOMAIN builders'
      /\ recovering' = recovering
  BY <1>1 DEF EndWith, Put, Drop, BuilderEffect
<1>6. running' = running
  BY DEF FinishBuild
<1>7. ASSUME NEW k \in DOMAIN running PROVE GuardAgrees(T, R, k)'
  <2>1. CASE running[k].build = b
    <3>1. GuardAgrees(T, R, k) /\ r.build.id = k
      BY <2>1, HoldsNone DEF AgreeInv, GuardsAgree
    <3> QED BY <1>0, <1>2, <1>5, <1>6, <2>1, <3>1 DEF GuardAgrees, GoodGuard
  <2>2. CASE running[k].build # b
    BY <1>4, <1>6, <2>2, OtherGuard
  <2> QED BY <2>1, <2>2
<1> QED BY <1>3, <1>6, <1>7 DEF GuardsAgree

\* Every step of a goroutine but a panic.
LEMMA BuilderStepAgrees ==
  ASSUME TypeOK, FinalInv, NEW T \in [Instances -> Target], NEW R, AgreeInv(T, R),
         NEW b, BuilderStep(b) \/ EndPull(b), ~Panic(b)
  PROVE  AgreeInv(T, R)'
<1>0. b \in DOMAIN builders /\ BuilderEffect(b) /\ up
  BY BuilderStepEffect DEF BuilderEffect, FinalInv, RecoveryAlone
<1>1. place' = place
  BY DEF BuilderStep, Start, NextTarget, EndPull, EndPulls, CheckTime, Select, StoreCompose,
         Acquire, LaunchOperation, FinishBuild
<1>2. CASE \/ Start(b) \/ NextTarget(b) \/ EndPull(b) \/ EndPulls(b)
           \/ CheckTime(b) \/ Select(b)
  <2>1. UNCHANGED <<instances, running>>
    BY <1>2 DEF Start, NextTarget, EndPull, EndPulls, CheckTime, Select
  <2>2. Carries(T, R, b) /\ builders[b].pc \notin {"launch", "finish"}
    BY <1>0, <1>2, PullStepsCarry
  <2>3. GuardsAgree(T, R)'
    BY <1>0, <2>1, <2>2, GuardsKept, OthersKept
  <2>4. \A i \in DOMAIN instances' : instances'[i].target = T[i]
    BY <2>1 DEF AgreeInv, TargetsAgree
  <2> QED BY <1>0, <1>1, <2>2, <2>3, <2>4, CarriesAgree
<1>3. CASE StoreCompose(b)
  <2>1. running' = running
    BY <1>3 DEF StoreCompose
  <2>2. /\ Carries(T, R, b) /\ builders[b].pc \notin {"launch", "finish"}
        /\ \A i \in DOMAIN instances' : instances'[i].target = T[i]
    BY <1>0, <1>3, StoreComposeAgrees
  <2>3. GuardsAgree(T, R)'
    BY <1>0, <2>1, <2>2, GuardsKept, OthersKept
  <2> QED BY <1>0, <1>1, <2>2, <2>3, CarriesAgree
<1>4. CASE Acquire(b) \/ LaunchOperation(b) \/ FinishBuild(b)
  <2>1. instances' = instances
    BY <1>4 DEF Acquire, LaunchOperation, FinishBuild
  <2>2. \A i \in DOMAIN instances' : instances'[i].target = T[i]
    BY <2>1 DEF AgreeInv, TargetsAgree
  <2>3. Carries(T, R, b) /\ GuardsAgree(T, R)'
    BY <1>0, <1>4, AcquireAgrees, LaunchAgrees, FinishAgrees
  <2> QED BY <1>0, <1>1, <2>2, <2>3, CarriesAgree
<1> QED BY <1>2, <1>3, <1>4 DEF BuilderStep

\* Steps beside the builds.
LEMMA BesideAgrees ==
  ASSUME NEW T, NEW R, AgreeInv(T, R), UNCHANGED <<up, recovering, builds, builders, place>>,
         \A i \in DOMAIN instances' : instances'[i].target = T[i],
         CallsAgree(T, R)',
         \A i \in DOMAIN running' : running'[i].build = Nobody \/
                                    (i \in DOMAIN running /\ running'[i] = running[i]),
         \A i \in DOMAIN running' : GoodGuard(T, R, i, running'[i]),
         up \/ running' = running
  PROVE  AgreeInv(T, R)'
<1>1. TargetsAgree(T, R)'
  BY DEF AgreeInv, TargetsAgree, Resolve
<1>2. BuildersAgree(T, R)'
  BY DEF AgreeInv, BuildersAgree
<1>3. ASSUME NEW i \in DOMAIN running' PROVE GuardAgrees(T, R, i)'
  BY <1>3 DEF AgreeInv, GuardsAgree, GuardAgrees, GoodGuard
<1> QED BY <1>1, <1>2, <1>3 DEF AgreeInv, GuardsAgree

\* Only requests that schedule a build begin.
LEMMA HandlersAgree ==
  ASSUME Steady, TypeOK, NEW T, NEW R, AgreeInv(T, R), NEW c, Handlers(c)
  PROVE  AgreeInv(T, R)'
<1>1. PICK i \in Instances, compose \in ComposeFiles : BeginSchedule(c, i, compose)
  BY DEF Handlers, Steady
<1> DEFINE x == [id |-> i, compose |-> compose, status |-> "Pending", results |-> <<>>]
           q == [pc |-> "resolve", b |-> Nobody, copy |-> instances[i], envs |-> <<>>,
                 build |-> x]
<1>2. /\ calls' = Put(calls, c, q) /\ c \notin DOMAIN calls
      /\ UNCHANGED <<up, recovering, builds, builders, instances, place, running>>
      /\ i \in DOMAIN instances
  BY <1>1 DEF BeginSchedule, procVars, dbVars
<1>3. q.pc = "resolve" /\ q.build = x /\ x.status = "Pending" /\ x.id = i
      /\ q.copy = instances[i]
  OBVIOUS
<1> HIDE DEF x, q
<1>4. GoodCall(T, R, q)
  BY <1>2, <1>3 DEF GoodCall, AgreeInv, TargetsAgree
<1>5. DOMAIN calls' = DOMAIN calls \cup {c} /\ calls'[c] = q
      /\ \A d \in DOMAIN calls : calls'[d] = calls[d]
  BY <1>2 DEF Put
<1>6. CallsAgree(T, R)'
  BY <1>2, <1>3, <1>4, <1>5 DEF AgreeInv, CallsAgree
<1> QED BY <1>2, <1>6, BesideAgrees DEF AgreeInv, TargetsAgree, GuardsAgree, GuardAgrees

\* The targets are resolved, to a list that is not empty,
LEMMA ResolveAgrees ==
  ASSUME TypeOK, NEW T, NEW R, AgreeInv(T, R), NEW c \in DOMAIN calls, ResolveSchedule(c)
  PROVE  AgreeInv(T, R)'
<1> SUFFICES ASSUME NEW q, q = calls[c] PROVE AgreeInv(T, R)'
  OBVIOUS
<1>0. /\ q \in Call /\ q.build \in Build /\ q.pc = "resolve" /\ GoodCall(T, R, q)
      /\ q.build.id \in Instances
  BY TableValue, CallFields DEF TypeOK, ResolveSchedule, AgreeInv, CallsAgree, Build
<1> DEFINE envs == ResolveInOrder(q.copy.target)
           results == [j \in DOMAIN envs |-> [env |-> envs[j], status |-> "Pending"]]
           x == [q.build EXCEPT !.results = results]
           p == [q EXCEPT !.pc = "create", !.envs = envs, !.build = x]
<1>1. envs = Listing(R[q.build.id])
  BY <1>0 DEF ResolveInOrder, AgreeInv, TargetsAgree, GoodCall
<1>2. \/ Return(c)
      \/ envs # <<>> /\ calls' = [calls EXCEPT ![c] = p]
  <2>1. ASSUME ~Return(c)
        PROVE  envs # <<>> /\ calls' = [calls EXCEPT ![c] =
              [@ EXCEPT !.pc = "create", !.envs = envs, !.build.results = results]]
    BY <2>1 DEF ResolveSchedule
  <2>2. [q EXCEPT !.pc = "create", !.envs = envs, !.build.results = results] = p
    <3> HIDE DEF envs, results
    <3> QED BY <1>0 DEF Call
  <2> QED BY <2>1, <2>2
<1>3. DOMAIN results = DOMAIN envs /\ \A j \in DOMAIN envs : results[j].env = envs[j]
  OBVIOUS
<1> HIDE DEF envs, results
<1>4. x.id = q.build.id /\ x.status = q.build.status /\ x.results = results
  BY <1>0 DEF Build
<1> HIDE DEF x
<1>5. p.pc = "create" /\ p.copy = q.copy /\ p.envs = envs /\ p.build = x
  BY <1>0 DEF Call
<1> HIDE DEF p
<1>6. envs # <<>> => GoodCall(T, R, p)
  BY <1>0, <1>1, <1>3, <1>4, <1>5 DEF GoodCall, Fits
<1>7. CallsAgree(T, R)'
  <2>0. UNCHANGED <<builds, builders>>
    BY DEF ResolveSchedule, dbVars
  <2>1. CASE Return(c)
    BY <2>0, <2>1 DEF Return, Drop, AgreeInv, CallsAgree
  <2>2. CASE envs # <<>> /\ calls' = [calls EXCEPT ![c] = p]
    <3>1. DOMAIN calls' = DOMAIN calls /\ calls'[c] = p
          /\ \A d \in DOMAIN calls \ {c} : calls'[d] = calls[d]
      BY <2>2
    <3> QED BY <1>5, <1>6, <2>0, <2>2, <3>1 DEF AgreeInv, CallsAgree
  <2> QED BY <1>2, <2>1, <2>2
<1>8. UNCHANGED <<up, recovering, builds, builders, instances, place, running>>
  BY DEF ResolveSchedule, procVars, dbVars
<1> QED BY <1>7, <1>8, BesideAgrees DEF AgreeInv, TargetsAgree, GuardsAgree, GuardAgrees

\* ... the record gets a number that no build has,
LEMMA CreateAgrees ==
  ASSUME TypeOK, FinalInv, NEW T, NEW R, AgreeInv(T, R), NEW c \in DOMAIN calls, CreateBuild(c)
  PROVE  AgreeInv(T, R)'
<1> SUFFICES ASSUME NEW q, q = calls[c], NEW n, n = nextBuild PROVE AgreeInv(T, R)'
  OBVIOUS
<1>0. q \in Call /\ q.pc = "create" /\ GoodCall(T, R, q)
  BY TableValue DEF TypeOK, CreateBuild, AgreeInv, CallsAgree
<1>1. n \notin DOMAIN builds /\ n \notin DOMAIN builders
  BY DEF FinalInv, Allocated
<1>2. /\ builds' = Put(builds, n, q.build)
      /\ UNCHANGED <<up, recovering, builders, instances, place, running>>
  BY DEF CreateBuild, procVars
<1>3. /\ DOMAIN builds' = DOMAIN builds \cup {n} /\ builds'[n] = q.build
      /\ \A b \in DOMAIN builds : builds'[b] = builds[b]
  BY <1>1, <1>2 DEF Put
<1>4. Fits(R, q.build) /\ Agrees(q.build) /\ q.build.status = "Pending"
  BY <1>0 DEF GoodCall, Agrees
<1> DEFINE p == [q EXCEPT !.pc = "launch", !.b = n]
<1>5. p.pc = "launch" /\ p.b = n /\ p.build = q.build /\ p.copy = q.copy /\ p.envs = q.envs
  BY <1>0 DEF Call
<1>6. calls' = [calls EXCEPT ![c] = p]
  BY DEF CreateBuild
<1> HIDE DEF p
<1>7. DOMAIN calls' = DOMAIN calls /\ calls'[c] = p
      /\ \A d \in DOMAIN calls \ {c} : calls'[d] = calls[d]
  BY <1>6
<1>8. GoodCall(T, R, p)
  BY <1>0, <1>5 DEF GoodCall
<1>9. ASSUME NEW d \in DOMAIN calls, calls[d].pc = "launch"
      PROVE  /\ calls[d].b \in DOMAIN builds /\ builds[calls[d].b] = calls[d].build
             /\ calls[d].b \notin DOMAIN builders
  BY <1>9 DEF AgreeInv, CallsAgree
<1>10. CallsAgree(T, R)'
  <2> SUFFICES ASSUME NEW d \in DOMAIN calls
               PROVE  /\ GoodCall(T, R, calls'[d])
                      /\ calls'[d].pc = "launch" =>
                           /\ calls'[d].b \in DOMAIN builds'
                           /\ builds'[calls'[d].b] = calls'[d].build
                           /\ calls'[d].b \notin DOMAIN builders'
                           /\ \A e \in DOMAIN calls' \ {d} :
                                calls'[e].pc = "launch" => calls'[e].b # calls'[d].b
    BY <1>7 DEF CallsAgree, GoodCall
  <2>1. CASE d = c
    BY <1>1, <1>2, <1>3, <1>5, <1>7, <1>8, <1>9, <2>1
  <2>2. CASE d # c
    <3>1. calls'[d] = calls[d] /\ GoodCall(T, R, calls[d])
      BY <1>7, <2>2 DEF AgreeInv, CallsAgree
    <3>2. ASSUME NEW e \in DOMAIN calls' \ {d}, calls[d].pc = "launch",
                 calls'[e].pc = "launch"
          PROVE  calls'[e].b # calls[d].b
      <4>1. CASE e = c
        BY <1>1, <1>5, <1>7, <1>9, <3>2, <4>1
      <4>2. CASE e # c
        BY <1>7, <3>2, <4>2 DEF AgreeInv, CallsAgree
      <4> QED BY <4>1, <4>2
    <3> QED BY <1>2, <1>3, <1>9, <3>1, <3>2
  <2> QED BY <2>1, <2>2
<1>11. TargetsAgree(T, R)'
  BY <1>2 DEF AgreeInv, TargetsAgree, Resolve
<1>12. BuildersAgree(T, R)'
  BY <1>2, <1>3 DEF AgreeInv, BuildersAgree
<1>13. ASSUME NEW i \in DOMAIN running PROVE GuardAgrees(T, R, i)'
  <2>1. GuardAgrees(T, R, i)
    BY DEF AgreeInv, GuardsAgree
  <2> QED BY <1>2, <1>3, <2>1 DEF GuardAgrees, GoodGuard
<1>14. \A b \in DOMAIN builds' : Fits(R, builds'[b]) /\ Agrees(builds'[b])
  BY <1>3, <1>4 DEF AgreeInv
<1> QED BY <1>2, <1>10, <1>11, <1>12, <1>13, <1>14 DEF AgreeInv, GuardsAgree

\* ... and the goroutine takes the record over.
LEMMA LaunchBuildAgrees ==
  ASSUME TypeOK, FinalInv, NEW T, NEW R, AgreeInv(T, R), NEW c \in DOMAIN calls, LaunchBuild(c)
  PROVE  AgreeInv(T, R)'
<1> SUFFICES ASSUME NEW q, q = calls[c], NEW b, b = calls[c].b PROVE AgreeInv(T, R)'
  OBVIOUS
<1>0. /\ q.pc = "launch" /\ GoodCall(T, R, q)
      /\ b \in DOMAIN builds /\ builds[b] = q.build /\ b \notin DOMAIN builders
      /\ \A d \in DOMAIN calls \ {c} : calls[d].pc = "launch" => calls[d].b # b
  BY DEF LaunchBuild, AgreeInv, CallsAgree
<1> DEFINE r == NewBuilder(q.build, q.copy, q.envs)
<1>1. GoodBuilder(T, R, r) /\ r.build = q.build
  BY <1>0, BeginGood DEF GoodCall, Agrees
<1>2. /\ builders' = Put(builders, b, r) /\ calls' = Drop(calls, {c})
      /\ UNCHANGED <<up, recovering, builds, instances, place, running>>
  BY DEF LaunchBuild, Return, procVars, dbVars
<1> HIDE DEF r
<1>3. /\ DOMAIN builders' = DOMAIN builders \cup {b} /\ builders'[b] = r
      /\ \A a \in DOMAIN builders : builders'[a] = builders[a]
  BY <1>0, <1>2 DEF Put
<1>4. BuildersAgree(T, R)'
  BY <1>0, <1>1, <1>2, <1>3 DEF AgreeInv, BuildersAgree
<1>5. /\ DOMAIN calls' = DOMAIN calls \ {c}
      /\ \A d \in DOMAIN calls \ {c} : calls'[d] = calls[d]
  BY <1>2 DEF Drop
<1>6. CallsAgree(T, R)'
  <2>1. ASSUME NEW d \in DOMAIN calls' PROVE GoodCall(T, R, calls'[d])
    BY <1>5, <2>1 DEF AgreeInv, CallsAgree
  <2>2. ASSUME NEW d \in DOMAIN calls', calls'[d].pc = "launch"
        PROVE  /\ calls'[d].b \in DOMAIN builds' /\ builds'[calls'[d].b] = calls'[d].build
               /\ calls'[d].b \notin DOMAIN builders'
               /\ \A e \in DOMAIN calls' \ {d} :
                    calls'[e].pc = "launch" => calls'[e].b # calls'[d].b
    <3>1. calls'[d] = calls[d] /\ d \in DOMAIN calls \ {c} /\ calls[d].b # b
      BY <1>0, <1>5, <2>2
    <3>2. /\ calls[d].b \in DOMAIN builds /\ builds[calls[d].b] = calls[d].build
          /\ calls[d].b \notin DOMAIN builders
      BY <2>2, <3>1 DEF AgreeInv, CallsAgree
    <3>3. ASSUME NEW e \in DOMAIN calls' \ {d}, calls'[e].pc = "launch"
          PROVE  calls'[e].b # calls'[d].b
      BY <1>5, <2>2, <3>1, <3>3 DEF AgreeInv, CallsAgree
    <3> QED BY <1>2, <1>3, <3>1, <3>2, <3>3
  <2> QED BY <2>1, <2>2 DEF CallsAgree, GoodCall
<1>7. TargetsAgree(T, R)'
  BY <1>2 DEF AgreeInv, TargetsAgree, Resolve
<1>8. ASSUME NEW i \in DOMAIN running PROVE GuardAgrees(T, R, i)'
  <2>1. GuardAgrees(T, R, i)
    BY DEF AgreeInv, GuardsAgree
  <2>2. b # Nobody
    BY <1>0, BuildsAssumption DEF TypeOK, IsTable, Builds, Nobody
  <2>3. running[i].build # b
    BY <1>0, <2>1, <2>2 DEF GuardAgrees, GoodCall
  <2> QED BY <1>2, <1>3, <2>1, <2>3 DEF GuardAgrees, GoodGuard
<1> QED BY <1>2, <1>4, <1>6, <1>7, <1>8 DEF AgreeInv, GuardsAgree

\* A request reads and creates by the same targets.
LEMMA HandlerStepAgrees ==
  ASSUME TypeOK, FinalInv, NEW T, NEW R, AgreeInv(T, R), NEW c, HandlerStep(c)
  PROVE  AgreeInv(T, R)'
<1>1. c \in DOMAIN calls
  BY DEF HandlerStep, ResolveSchedule, CreateBuild, LaunchBuild, MarkCancelled, SignalCancel
<1>2. ~MarkCancelled(c) /\ ~SignalCancel(c)
  BY <1>1 DEF MarkCancelled, SignalCancel, AgreeInv, CallsAgree, GoodCall
<1> QED BY <1>1, <1>2, ResolveAgrees, CreateAgrees, LaunchBuildAgrees DEF HandlerStep

\* Operations, and deletions.
LEMMA InstanceStepAgrees ==
  ASSUME Steady, TypeOK, FinalInv, NEW T, NEW R, AgreeInv(T, R), NEW i, InstanceStep(i)
  PROVE  AgreeInv(T, R)'
<1>0. UNCHANGED <<up, recovering, builds, builders, place, calls>>
  BY DEF InstanceStep, StartOperation, EndOperation, DeleteInstance, EditInstance,
         procVars, dbVars
<1>1. CallsAgree(T, R)'
  BY <1>0 DEF AgreeInv, CallsAgree
<1>2. /\ \A k \in DOMAIN running : GoodGuard(T, R, k, running[k])
      /\ \A k \in DOMAIN instances : instances[k].target = T[k] /\ k \in Instances
  BY DEF AgreeInv, TargetsAgree, GuardsAgree, GuardAgrees, TypeOK, IsTable
<1>3. CASE StartOperation(i)
  <2> DEFINE g == [build |-> Nobody, working |-> TRUE, copy |-> instances[i],
                   envs |-> Resolve(instances[i].target)]
  <2>1. /\ running' = Put(running, i, g) /\ UNCHANGED instances /\ up
        /\ i \in DOMAIN instances
    BY <1>3 DEF StartOperation, dbVars, Serving
  <2>2. g.build = Nobody /\ g.copy = instances[i] /\ g.envs = Resolve(instances[i].target)
    OBVIOUS
  <2> HIDE DEF g
  <2>3. GoodGuard(T, R, i, g)
    BY <1>2, <2>1, <2>2 DEF GoodGuard, AgreeInv, TargetsAgree
  <2>4. \A k \in DOMAIN running' :
          /\ GoodGuard(T, R, k, running'[k])
          /\ running'[k].build = Nobody \/ (k \in DOMAIN running /\ running'[k] = running[k])
    BY <1>2, <2>1, <2>2, <2>3 DEF Put
  <2> QED BY <1>0, <1>1, <1>2, <2>1, <2>4, BesideAgrees
<1>4. CASE EndOperation(i)
  <2>1. /\ running' = Drop(running, {i}) /\ i \in DOMAIN running
        /\ instances' \in {instances, Put(instances, i, running[i].copy)}
    BY <1>4 DEF EndOperation
  <2>2. \A k \in DOMAIN instances' : instances'[k].target = T[k]
    BY <1>2, <2>1 DEF Put, GoodGuard
  <2>3. \A k \in DOMAIN running' : k \in DOMAIN running /\ running'[k] = running[k]
    BY <2>1 DEF Drop
  <2>4. up
    BY <2>1 DEF AgreeInv
  <2>5. \A k \in DOMAIN running' : GoodGuard(T, R, k, running'[k])
    BY <1>2, <2>3
  <2> QED BY <1>0, <1>1, <2>2, <2>3, <2>4, <2>5, BesideAgrees
<1>5. CASE DeleteInstance(i)
  <2>1. running' = running /\ instances' = Drop(instances, {i}) /\ up
    BY <1>5 DEF DeleteInstance, Serving
  <2>2. \A k \in DOMAIN instances' : instances'[k].target = T[k]
    BY <1>2, <2>1 DEF Drop
  <2> QED BY <1>0, <1>1, <1>2, <2>1, <2>2, BesideAgrees
<1>6. \A compose, target : ~EditInstance(i, compose, target)
  BY DEF EditInstance, Steady
<1> QED BY <1>3, <1>4, <1>5, <1>6 DEF InstanceStep

\* Time comes for a goroutine that waits.
LEMMA TimeAgrees ==
  ASSUME TypeOK, FinalInv, NEW T, NEW R, AgreeInv(T, R), NEW b, TimeComes(b)
  PROVE  AgreeInv(T, R)'
<1>0. UNCHANGED <<up, recovering, builds, place, calls, instances, running, nextBuild>>
  BY DEF TimeComes, procVars, dbVars
<1>1. CASE At(b, "parked")
  <2> SUFFICES ASSUME NEW r, r = builders[b] PROVE AgreeInv(T, R)'
    OBVIOUS
  <2>0. r \in Builder /\ GoodBuilder(T, R, r) /\ r.pc = "parked" /\ b \in DOMAIN builders
    BY <1>1, TableValue DEF At, TypeOK, AgreeInv, BuildersAgree
  <2> DEFINE q == [r EXCEPT !.pc = "store"]
  <2>1. q.pc = "store" /\ q.build = r.build /\ q.envs = r.envs /\ q.copy = r.copy
    BY <2>0 DEF Builder
  <2>2. builders' = [builders EXCEPT ![b] = q]
    BY <1>1 DEF TimeComes
  <2> HIDE DEF q
  <2>3. GoodBuilder(T, R, q) /\ q.build.id = r.build.id
    BY <2>0, <2>1, MovedGood
  <2>4. Carries(T, R, b)
    BY <1>0, <2>1, <2>2, <2>3 DEF Carries
  <2>5. BuilderEffect(b)
    BY <1>0, <2>0, <2>2, SilentEffect
  <2>6. up
    BY <2>0 DEF FinalInv, RecoveryAlone
  <2>7. GuardsAgree(T, R)'
    BY <1>0, <2>0, <2>4, <2>5, GuardsKept, OthersKept
  <2>8. \A i \in DOMAIN instances' : instances'[i].target = T[i]
    BY <1>0 DEF AgreeInv, TargetsAgree
  <2> QED BY <1>0, <2>0, <2>4, <2>5, <2>6, <2>7, <2>8, CarriesAgree
<1>2. CASE ~At(b, "parked")
  <2>1. builders' = builders
    BY <1>2 DEF TimeComes
  <2>2. CallsAgree(T, R)'
    BY <1>0, <2>1 DEF AgreeInv, CallsAgree
  <2> QED BY <1>0, <2>1, <2>2, BesideAgrees DEF AgreeInv, TargetsAgree, GuardsAgree, GuardAgrees
<1> QED BY <1>1, <1>2

\* The process dies,
LEMMA DieAgrees ==
  ASSUME NEW T, NEW R, AgreeInv(T, R), Die
  PROVE  AgreeInv(T, R)'
<1>1. UNCHANGED <<place, instances, builds>>
      /\ DOMAIN calls' = {} /\ DOMAIN builders' = {} /\ DOMAIN running' = {}
  BY DEF Die, dbVars, EmptyTable
<1>2. TargetsAgree(T, R)'
  BY <1>1 DEF AgreeInv, TargetsAgree, Resolve
<1>3. BuildersAgree(T, R)' /\ CallsAgree(T, R)' /\ GuardsAgree(T, R)'
  BY <1>1 DEF BuildersAgree, CallsAgree, GuardsAgree
<1> QED BY <1>1, <1>2, <1>3 DEF AgreeInv

\* ... is started again,
LEMMA RestartAgrees ==
  ASSUME NEW T, NEW R, AgreeInv(T, R), Restart
  PROVE  AgreeInv(T, R)'
<1>1. UNCHANGED <<place, instances, builds, calls, builders, running>> /\ DOMAIN running = {}
      /\ up'
  BY DEF Restart, dbVars, AgreeInv
<1>2. TargetsAgree(T, R)'
  BY <1>1 DEF AgreeInv, TargetsAgree, Resolve
<1>3. BuildersAgree(T, R)' /\ CallsAgree(T, R)' /\ GuardsAgree(T, R)'
  BY <1>1 DEF AgreeInv, BuildersAgree, CallsAgree, GuardsAgree
<1> QED BY <1>1, <1>2, <1>3 DEF AgreeInv

\* ... and a build is taken up from its beginning, with the targets it had.
LEMMA RecoverAgrees ==
  ASSUME TypeOK, FinalInv, NEW T, NEW R, AgreeInv(T, R), NEW b, RecoverBuild(b)
  PROVE  AgreeInv(T, R)'
<1> SUFFICES ASSUME NEW x, x = builds[b], NEW i, i = x.id PROVE AgreeInv(T, R)'
  OBVIOUS
<1>0. /\ UNCHANGED <<up, calls, instances, place, running>>
      /\ b \in recovering /\ recovering' = recovering \ {b}
      /\ b \in DOMAIN builds /\ b \notin DOMAIN builders
      /\ DOMAIN calls = {} /\ Fits(R, x) /\ Agrees(x)
  BY DEF RecoverBuild, FinalInv, RecoveryAlone, AgreeInv
<1> DEFINE envs == ResolveInOrder(instances[i].target)
           r    == NewBuilder(x, instances[i], envs)
<1>1. i \in DOMAIN instances => envs = Listing(R[i]) /\ instances[i].target = T[i]
  BY DEF ResolveInOrder, AgreeInv, TargetsAgree, TypeOK, IsTable
<1>2. i \in DOMAIN instances => envs # <<>>
  BY <1>0, <1>1 DEF Fits
<1>3. \/ UNCHANGED <<builds, builders>>
      \/ i \in DOMAIN instances /\ UNCHANGED builds /\ builders' = Put(builders, b, r)
  BY <1>2 DEF RecoverBuild
<1> HIDE DEF envs
<1>4. i \in DOMAIN instances => GoodBuilder(T, R, r) /\ r.build = x
  <2> SUFFICES ASSUME i \in DOMAIN instances PROVE GoodBuilder(T, R, r) /\ r.build = x
    OBVIOUS
  <2>1. Fits(R, x) /\ Agrees(x) /\ instances[i].target = T[x.id] /\ envs = Listing(R[x.id])
    BY <1>0, <1>1
  <2> QED BY <2>1, BeginGood
<1> HIDE DEF r
<1>5. builds' = builds
  BY <1>3
<1>6. BuildersAgree(T, R)'
  <2>1. CASE UNCHANGED builders
    BY <1>5, <2>1 DEF AgreeInv, BuildersAgree
  <2>2. CASE i \in DOMAIN instances /\ builders' = Put(builders, b, r)
    BY <1>0, <1>4, <1>5, <2>2 DEF Put, AgreeInv, BuildersAgree
  <2> QED BY <1>3, <2>1, <2>2
<1>7. CallsAgree(T, R)'
  BY <1>0 DEF CallsAgree
<1>8. TargetsAgree(T, R)'
  BY <1>0 DEF AgreeInv, TargetsAgree, Resolve
<1>9. \A a \in DOMAIN builders' : a # b => a \in DOMAIN builders /\ builders'[a] = builders[a]
  BY <1>3 DEF Put
<1>10. ASSUME NEW k \in DOMAIN running PROVE GuardAgrees(T, R, k)'
  <2>1. GuardAgrees(T, R, k)
    BY DEF AgreeInv, GuardsAgree
  <2>2. running[k].build # Nobody => running[k].build # b
    BY <1>0, <2>1 DEF GuardAgrees
  <2> QED BY <1>0, <1>5, <1>9, <2>1, <2>2 DEF GuardAgrees, GoodGuard
<1> QED BY <1>0, <1>5, <1>6, <1>7, <1>8, <1>10 DEF AgreeInv, GuardsAgree

\* At the start nothing is under way.
LEMMA InitAgrees ==
  ASSUME Init
  PROVE  \E T \in [Instances -> Target] : \E R : AgreeInv(T, R)
<1> DEFINE T == [i \in Instances |-> instances[i].target]
           R == [i \in Instances |-> Resolve(T[i])]
<1>1. T \in [Instances -> Target]
  <2>1. ASSUME NEW i \in Instances PROVE instances[i].target \in Target
    BY BuildsAssumption DEF Init, Target
  <2> QED BY <2>1
<1>2. TargetsAgree(T, R)
  BY DEF Init, TargetsAgree
<1> HIDE DEF T, R
<1>3. AgreeInv(T, R)
  BY <1>2 DEF Init, EmptyTable, AgreeInv, BuildersAgree, CallsAgree, GuardsAgree
<1> QED BY <1>1, <1>3

\* Every step.
LEMMA NextAgrees ==
  ASSUME Steady, TypeOK, FinalInv, NEW T \in [Instances -> Target], NEW R, AgreeInv(T, R),
         [Next]_vars
  PROVE  AgreeInv(T, R)'
<1>1. ASSUME NEW c, Handlers(c) \/ HandlerStep(c) PROVE AgreeInv(T, R)'
  BY <1>1, HandlersAgree, HandlerStepAgrees
<1>2. ASSUME NEW b, BuilderStep(b) \/ EndPull(b) PROVE AgreeInv(T, R)'
  <2>1. CASE Panic(b)
    BY <2>1, DieAgrees DEF Panic
  <2>2. CASE ~Panic(b)
    BY <1>2, <2>2, BuilderStepAgrees
  <2> QED BY <2>1, <2>2
<1>3. ASSUME NEW b, TimeComes(b) \/ RecoverBuild(b) PROVE AgreeInv(T, R)'
  BY <1>3, TimeAgrees, RecoverAgrees
<1>4. ASSUME NEW i, InstanceStep(i) PROVE AgreeInv(T, R)'
  BY <1>4, InstanceStepAgrees
<1>5. \A e : ~MoveEnvironment(e)
  BY DEF MoveEnvironment, Steady
<1>6. CASE Crash \/ Restart
  BY <1>6, DieAgrees, RestartAgrees DEF Crash
<1>7. CASE UNCHANGED vars
  <2>1. UNCHANGED <<up, recovering, builds, builders, place, calls, instances, running>>
    BY <1>7 DEF vars
  <2>2. CallsAgree(T, R)'
    BY <2>1 DEF AgreeInv, CallsAgree
  <2> QED BY <2>1, <2>2, BesideAgrees DEF AgreeInv, TargetsAgree, GuardsAgree, GuardAgrees
<1> QED BY <1>1, <1>2, <1>3, <1>4, <1>5, <1>6, <1>7 DEF Next

\* The invariant, for the targets that the instances have had from the start.
SteadyInv == TypeOK /\ FinalInv /\ \E T \in [Instances -> Target] : \E R : AgreeInv(T, R)

\* The invariant holds of every steady behaviour.
LEMMA SteadyHolds ==
  ASSUME Steady
  PROVE  /\ Init => SteadyInv
         /\ SteadyInv /\ [Next]_vars => SteadyInv'
<1>1. Init => SteadyInv
  BY InitTypes, InitFinal, InitAgrees DEF SteadyInv
<1>2. ASSUME SteadyInv, [Next]_vars PROVE SteadyInv'
  <2>0. PICK T \in [Instances -> Target] : \E R : AgreeInv(T, R)
    BY <1>2 DEF SteadyInv
  <2>1. PICK R : AgreeInv(T, R)
    BY <2>0
  <2>2. AgreeInv(T, R)'
    BY <1>2, <2>1, NextAgrees DEF SteadyInv
  <2>3. TypeOK' /\ FinalInv'
    BY <1>2, NextTypes, NextFinal DEF SteadyInv
  <2> QED BY <2>2, <2>3 DEF SteadyInv
<1> QED BY <1>1, <1>2

\* As long as neither targets nor groups change and nobody cancels, the record
\* of a build agrees with its results: through failing pulls, crashes, restarts
\* and recoveries that begin the loop over the targets again, and beside
\* operations and deletions.
THEOREM ResultsFollowStatus == Steady => (Spec => []ResultsAgree)
<1> SUFFICES ASSUME Steady PROVE Spec => []ResultsAgree
  OBVIOUS
<1>1. Init => SteadyInv
  BY SteadyHolds
<1>2. SteadyInv /\ [Next]_vars => SteadyInv'
  BY SteadyHolds
<1>3. SteadyInv => ResultsAgree
  <2> SUFFICES ASSUME NEW T, NEW R, AgreeInv(T, R) PROVE ResultsAgree
    BY DEF SteadyInv
  <2>1. \A b \in DOMAIN builds : Agrees(builds[b])
    BY DEF AgreeInv
  <2> QED BY <2>1 DEF ResultsAgree, Agrees, AllIn
<1> QED BY <1>1, <1>2, <1>3, PTL DEF Spec

\* Under the same conditions an operation that a build has started works only
\* where that build has pulled the images: its targets are those of the build,
\* and all of these are through.
THEOREM NothingUnpulled == Steady => (Spec => []DeployedWherePulled)
<1> SUFFICES ASSUME Steady PROVE Spec => []DeployedWherePulled
  OBVIOUS
<1>1. Init => SteadyInv
  BY SteadyHolds
<1>2. SteadyInv /\ [Next]_vars => SteadyInv'
  BY SteadyHolds
<1>3. SteadyInv => DeployedWherePulled
  <2> SUFFICES ASSUME TypeOK, NEW T \in [Instances -> Target], NEW R, AgreeInv(T, R),
                      NEW i \in DOMAIN running, NEW e \in running[i].envs,
                      running[i].build # Nobody
               PROVE  LET results == builds[running[i].build].results
                      IN  \E j \in DOMAIN results :
                            /\ results[j].env = e
                            /\ results[j].status \in {"ImageReady", "Deployed"}
    BY DEF SteadyInv, DeployedWherePulled
  <2> SUFFICES ASSUME NEW x, x = builds[running[i].build]
               PROVE  \E j \in DOMAIN x.results :
                        /\ x.results[j].env = e
                        /\ x.results[j].status \in {"ImageReady", "Deployed"}
    OBVIOUS
  <2>1. /\ x.id = i /\ x.status \in {"ImageReady", "Deployed"}
        /\ Fits(R, x) /\ Agrees(x) /\ e \in R[i]
    BY DEF AgreeInv, GuardsAgree, GuardAgrees, GoodGuard
  <2>2. R[i] \in SUBSET Nat /\ IsFiniteSet(R[i])
    <3>1. i \in Instances
      BY DEF TypeOK, IsTable
    <3>2. T[i] \in Target
      BY <3>1
    <3> QED BY <3>1, <3>2, ResolveType DEF AgreeInv, TargetsAgree
  <2>3. PICK j \in DOMAIN Listing(R[i]) : Listing(R[i])[j] = e
    BY <2>1, <2>2, ListingLists
  <2>4. j \in DOMAIN x.results /\ x.results[j].env = e
    BY <2>1, <2>3 DEF Fits
  <2>5. x.results[j].status \in {"ImageReady", "Deployed"}
    BY <2>1, <2>4 DEF Agrees, AllIn
  <2> QED BY <2>4, <2>5
<1> QED BY <1>1, <1>2, <1>3, PTL DEF Spec
=============================================================================
