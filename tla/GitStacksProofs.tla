--------------------------- MODULE GitStacksProofs ---------------------------
(***************************************************************************)
(* What holds of a git stack for every number of polls, requests, commits  *)
(* and restarts: the types, that a stopped stack is down (StoppedIsDown)   *)
(* and that a commit recorded as deployed runs (NothingSkipped).           *)
(***************************************************************************)
EXTENDS GitStacks, TLAPS

-----------------------------------------------------------------------------
(* Types.  A worker's task and place belong together, and what it holds is *)
(* what it read on the way there.                                          *)

Fits(r) ==
  \/ r = Idle
  \/ r.task = "poll" /\ r.pc \in {"load", "fetch", "clone", "mark", "deploy", "end"}
  \/ r.task = "redeploy" /\ r.pc \in {"clone", "hash", "persist", "check", "undeploy",
                                      "failed", "deploy", "end", "revert"}
  \/ r.task \in {"stop", "delete"} /\ r.pc \in {"undeploy", "end"}
  \/ r.task = "start" /\ r.pc \in {"deploy", "end"}
  \/ r.task = "settings" /\ r.pc \in {"load", "end"}

\* The old and the new commit are known.
HasOld(r) == r.task = "redeploy" \/ (r.task \in {"poll", "settings"} /\ r.pc # "load")
HasNew(r) ==
  \/ r.task = "poll" /\ r.pc \in {"clone", "mark", "deploy", "end"}
  \/ r.task = "redeploy" /\ r.pc \in {"persist", "check", "undeploy", "failed", "deploy",
                                      "end", "revert"}

Holds(r) ==
  /\ HasOld(r) => r.old \in Commits
  /\ HasNew(r) => r.new \in Commits
  /\ r.task = "settings" => r.stack \in Stack
  /\ r.task = "poll" /\ r.pc \in {"load", "fetch", "clone", "mark"} => r.stack \in Stack
  /\ r.task = "redeploy" /\ r.pc \in {"clone", "hash"} => r.stack \in Stack
  /\ r.task = "redeploy" /\ r.pc = "persist" => r.stack \in InProgress
  /\ r.task = "delete" /\ r.pc = "end" => r.ok
  /\ r.old <= head /\ r.new <= head

\* The workers apart, and the rest: no commit is newer than the latest.
WorkersInv ==
  /\ workers \in [Workers -> Worker]
  /\ \A w \in Workers : Fits(workers[w]) /\ Holds(workers[w])

PlacesInv ==
  /\ head \in Commits
  /\ stack \in Stack \cup {Absent}
  /\ hash \in Commits \cup {NoCommit} /\ hash <= head
  /\ files \in Commits \cup {NoCommit} /\ files <= head
  /\ containers \in Commits \cup {NoCommit, Broken} /\ containers <= head
  /\ inFlight \in BOOLEAN /\ disturbed \in BOOLEAN /\ pushed \in BOOLEAN
  /\ restarts \in 0..MaxRestarts

TypeInv == WorkersInv /\ PlacesInv

LEMMA InvHasTypes == TypeInv => TypeOK
<1> SUFFICES ASSUME TypeInv PROVE TypeOK
  OBVIOUS
<1>1. ASSUME NEW w \in Workers
      PROVE  /\ workers[w].pc \in {"mark", "persist"} \/ workers[w].task = "settings"
                  => workers[w].stack \in Stack
             /\ workers[w].pc \in {"fetch", "persist"} => workers[w].old \in Commits
  BY DEF TypeInv, WorkersInv, Fits, Holds, HasOld, Idle, Stack, InProgress
<1> QED BY <1>1 DEF TypeInv, WorkersInv, PlacesInv, TypeOK

\* Nobody at work fits everywhere.
LEMMA IdleFits ==
  ASSUME head \in Commits
  PROVE  Idle \in Worker /\ Fits(Idle) /\ Holds(Idle)
BY ConstantsAssumption DEF Idle, Worker, Fits, Holds, HasOld, HasNew, NoCommit, Commits

LEMMA InitTypes == Init => TypeInv
<1> SUFFICES ASSUME Init PROVE TypeInv
  OBVIOUS
<1>1. head \in Commits
  BY ConstantsAssumption DEF Init, Commits
<1>2. WorkersInv
  BY <1>1, IdleFits DEF Init, WorkersInv
<1>3. PlacesInv
  <2>1. 0 \in 0..MaxRestarts /\ 1 <= 1
    BY ConstantsAssumption
  <2>2. stack \in Stack
    BY DEF Init, Stack
  <2>3. /\ hash = head /\ files = head /\ containers = head /\ head <= head
        /\ restarts = 0 /\ inFlight = FALSE /\ disturbed = FALSE /\ pushed = FALSE
    BY DEF Init
  <2> QED BY <1>1, <2>1, <2>2, <2>3 DEF PlacesInv
<1> QED BY <1>2, <1>3 DEF TypeInv

\* One worker takes a step, and the latest commit stays.
LEMMA OneMoves ==
  ASSUME TypeInv, NEW w \in Workers, NEW r, workers' = [workers EXCEPT ![w] = r],
         head' = head, r \in Worker, Fits(r), Holds(r)
  PROVE  WorkersInv'
BY DEF TypeInv, WorkersInv, Holds

LEMMA EndsFits ==
  ASSUME TypeInv, NEW w \in Workers, Ends(w), head' = head
  PROVE  WorkersInv'
BY IdleFits, OneMoves DEF Ends, TypeInv, PlacesInv

-----------------------------------------------------------------------------
(* The steps that begin something.                                         *)

LEMMA BeginTypes ==
  ASSUME TypeInv, NEW w \in Workers,
         NEW task \in Kinds \cup {"poll"}, NEW pc, NEW copy \in Stack \cup {Absent},
         NEW old \in Commits \cup {NoCommit}, old <= head,
         LET r == [task |-> task, pc |-> pc, stack |-> copy, old |-> old,
                   new |-> NoCommit, ok |-> TRUE]
         IN Fits(r) /\ Holds(r),
         Begin(w, task, pc, copy, old),
         UNCHANGED <<head, stack, hash, files, containers, inFlight, restarts, pushed>>
  PROVE  TypeInv'
<1> DEFINE r == [task |-> task, pc |-> pc, stack |-> copy, old |-> old,
                 new |-> NoCommit, ok |-> TRUE]
<1>2. r \in Worker
  <2>1. pc \in {"load", "fetch", "clone", "hash", "mark", "persist", "check",
                "undeploy", "failed", "deploy", "end", "revert", "idle"}
    BY DEF Fits, Idle
  <2> QED BY <2>1 DEF Worker
<1>3. Fits(r) /\ Holds(r) /\ workers' = [workers EXCEPT ![w] = r]
  BY DEF Begin
<1> HIDE DEF r
<1>4. WorkersInv'
  BY <1>2, <1>3, OneMoves
<1>5. disturbed' \in BOOLEAN
  BY DEF Begin, TypeInv, PlacesInv
<1> QED BY <1>4, <1>5 DEF TypeInv, PlacesInv

LEMMA AskTypes ==
  ASSUME TypeInv, NEW w \in Workers, BeginPoll(w) \/ Ask(w)
  PROVE  TypeInv'
<1> USE DEF Kinds, Fits, Holds, HasOld, HasNew, Idle
<1>1. /\ stack \in Stack \cup {Absent} /\ hash \in Commits \cup {NoCommit} /\ hash <= head
      /\ NoCommit \in Commits \cup {NoCommit} /\ NoCommit <= head /\ head \in Int
      /\ Absent \in Stack \cup {Absent} /\ Absent \notin Stack
  BY ConstantsAssumption DEF TypeInv, PlacesInv, Commits, NoCommit, Absent, Stack
<1>2. CASE BeginPoll(w)
  <2>1. stack \in Stack
    BY <1>1, <1>2 DEF BeginPoll
  <2> QED BY <1>1, <1>2, <2>1, BeginTypes DEF BeginPoll
<1>3. CASE BeginRedeploy(w)
  BY <1>1, <1>3, BeginTypes DEF BeginRedeploy, WorkflowExists
<1>4. CASE BeginStop(w)
  BY <1>1, <1>4, BeginTypes DEF BeginStop
<1>5. CASE BeginStart(w)
  BY <1>1, <1>5, BeginTypes DEF BeginStart
<1>6. CASE BeginDelete(w)
  BY <1>1, <1>6, BeginTypes DEF BeginDelete
<1>7. CASE BeginSettings(w)
  BY <1>1, <1>7, BeginTypes DEF BeginSettings
<1> QED BY <1>2, <1>3, <1>4, <1>5, <1>6, <1>7 DEF Ask

-----------------------------------------------------------------------------
(* The other steps of the workers.                                         *)

\* What one worker has in hand.
LEMMA InHand ==
  ASSUME TypeInv, NEW w \in Workers
  PROVE  workers[w] \in Worker /\ Fits(workers[w]) /\ Holds(workers[w])
BY DEF TypeInv, WorkersInv

LEMMA LoadTypes ==
  ASSUME TypeInv, NEW w \in Workers, At(w, "poll", "load"), WorkflowExists,
         workers' = [workers EXCEPT ![w].pc = "fetch", ![w].old = hash], head' = head
  PROVE  WorkersInv'
<1> DEFINE r == [workers[w] EXCEPT !.pc = "fetch", !.old = hash]
<1>1. hash \in Commits /\ hash <= head /\ workers[w] \in Worker /\ Holds(workers[w])
  BY InHand DEF TypeInv, PlacesInv, WorkflowExists
<1>2. /\ r \in Worker /\ r.task = "poll" /\ r.pc = "fetch" /\ r.old = hash
      /\ r.stack = workers[w].stack /\ r.new = workers[w].new
  BY <1>1 DEF Worker, At
<1>3. workers' = [workers EXCEPT ![w] = r]
  OBVIOUS
<1> HIDE DEF r
<1>4. Fits(r) /\ Holds(r)
  BY <1>1, <1>2 DEF Fits, Holds, HasOld, HasNew, At
<1> QED BY <1>2, <1>3, <1>4, OneMoves

LEMMA LoadSettingsTypes ==
  ASSUME TypeInv, NEW w \in Workers, At(w, "settings", "load"), WorkflowExists,
         workers' = [workers EXCEPT ![w].pc = "end", ![w].old = hash], head' = head
  PROVE  WorkersInv'
<1> DEFINE r == [workers[w] EXCEPT !.pc = "end", !.old = hash]
<1>1. hash \in Commits /\ hash <= head /\ workers[w] \in Worker /\ Holds(workers[w])
  BY InHand DEF TypeInv, PlacesInv, WorkflowExists
<1>2. /\ r \in Worker /\ r.task = "settings" /\ r.pc = "end" /\ r.old = hash
      /\ r.stack = workers[w].stack /\ r.new = workers[w].new
  BY <1>1 DEF Worker, At
<1>3. workers' = [workers EXCEPT ![w] = r]
  OBVIOUS
<1> HIDE DEF r
<1>4. Fits(r) /\ Holds(r)
  BY <1>1, <1>2 DEF Fits, Holds, HasOld, HasNew, At
<1> QED BY <1>2, <1>3, <1>4, OneMoves

LEMMA FetchTypes ==
  ASSUME TypeInv, NEW w \in Workers, At(w, "poll", "fetch"), NEW pc \in {"clone", "mark"},
         workers' = [workers EXCEPT ![w].pc = pc, ![w].new = head], head' = head
  PROVE  WorkersInv'
<1> DEFINE r == [workers[w] EXCEPT !.pc = pc, !.new = head]
<1>1. head \in Commits /\ head <= head /\ workers[w] \in Worker /\ Holds(workers[w])
  BY InHand DEF TypeInv, PlacesInv, Commits
<1>2. /\ r \in Worker /\ r.task = "poll" /\ r.pc = pc /\ r.new = head
      /\ r.stack = workers[w].stack /\ r.old = workers[w].old
  BY <1>1 DEF Worker, At
<1>3. workers' = [workers EXCEPT ![w] = r]
  OBVIOUS
<1> HIDE DEF r
<1>4. Fits(r) /\ Holds(r)
  BY <1>1, <1>2 DEF Fits, Holds, HasOld, HasNew, At
<1> QED BY <1>2, <1>3, <1>4, OneMoves

\* A record that is written back is given up.
LEMMA GivesUpTypes ==
  ASSUME TypeInv, NEW w \in Workers,
         NEW pc, <<workers[w].task, workers[w].pc, pc>> \in
                   {<<"poll", "mark", "deploy">>, <<"redeploy", "persist", "check">>},
         workers' = [workers EXCEPT ![w].pc = pc, ![w].stack = Absent], head' = head
  PROVE  WorkersInv'
<1> DEFINE r == [workers[w] EXCEPT !.pc = pc, !.stack = Absent]
<1>1. workers[w] \in Worker /\ Holds(workers[w])
  BY InHand
<1>2. \/ workers[w].task = "poll" /\ workers[w].pc = "mark" /\ pc = "deploy"
      \/ workers[w].task = "redeploy" /\ workers[w].pc = "persist" /\ pc = "check"
  OBVIOUS
<1>3. /\ r \in Worker /\ r.task = workers[w].task /\ r.pc = pc
      /\ r.old = workers[w].old /\ r.new = workers[w].new
  BY <1>1, <1>2 DEF Worker
<1>4. workers' = [workers EXCEPT ![w] = r]
  OBVIOUS
<1> HIDE DEF r
<1>5. Fits(r) /\ Holds(r)
  BY <1>1, <1>2, <1>3 DEF Fits, Holds, HasOld, HasNew
<1> QED BY <1>3, <1>4, <1>5, OneMoves

LEMMA ReadHashTypes ==
  ASSUME TypeInv, NEW w \in Workers, At(w, "redeploy", "hash"),
         workers' = [workers EXCEPT ![w].pc = "persist", ![w].new = head,
                                    ![w].stack = Deploying(@)], head' = head
  PROVE  WorkersInv'
<1> DEFINE r == [workers[w] EXCEPT !.pc = "persist", !.new = head, !.stack = Deploying(@)]
<1>1. head \in Commits /\ head <= head /\ workers[w] \in Worker /\ Holds(workers[w])
  BY InHand DEF TypeInv, PlacesInv, Commits
<1>2. Deploying(workers[w].stack) \in InProgress /\ InProgress \subseteq Stack
  BY DEF Deploying, InProgress, Stack
<1>3. /\ r \in Worker /\ r.task = "redeploy" /\ r.pc = "persist" /\ r.new = head
      /\ r.stack \in InProgress /\ r.old = workers[w].old
  BY <1>1, <1>2 DEF Worker, At
<1>4. workers' = [workers EXCEPT ![w] = r]
  OBVIOUS
<1> HIDE DEF r
<1>5. Fits(r) /\ Holds(r)
  BY <1>1, <1>3 DEF Fits, Holds, HasOld, HasNew, At
<1> QED BY <1>3, <1>4, <1>5, OneMoves

\* The step is to a place of the same task that needs nothing new in hand.
Steps(task, from, to) ==
  <<task, from, to>> \in
    {<<"poll", "clone", "mark">>, <<"redeploy", "clone", "hash">>,
     <<"redeploy", "check", "deploy">>, <<"redeploy", "check", "undeploy">>,
     <<"redeploy", "undeploy", "deploy">>, <<"redeploy", "undeploy", "failed">>,
     <<"redeploy", "failed", "deploy">>, <<"redeploy", "end", "revert">>}

LEMMA GoesTypes ==
  ASSUME TypeInv, NEW w \in Workers, NEW pc, Steps(workers[w].task, workers[w].pc, pc),
         Goes(w, pc), head' = head
  PROVE  WorkersInv'
<1> DEFINE r == [workers[w] EXCEPT !.pc = pc]
<1>1. workers[w] \in Worker /\ Holds(workers[w])
  BY InHand
<1>2. /\ workers[w].task \in {"poll", "redeploy"}
      /\ workers[w].task = "poll" => workers[w].pc = "clone" /\ pc = "mark"
      /\ workers[w].task = "redeploy" =>
            \/ workers[w].pc = "clone" /\ pc = "hash"
            \/ workers[w].pc \in {"check", "undeploy", "failed"}
                  /\ pc \in {"undeploy", "failed", "deploy"}
            \/ workers[w].pc = "end" /\ pc = "revert"
  BY DEF Steps
<1>3. /\ r \in Worker /\ r.task = workers[w].task /\ r.pc = pc /\ r.stack = workers[w].stack
      /\ r.old = workers[w].old /\ r.new = workers[w].new
  BY <1>1, <1>2 DEF Worker
<1>4. workers' = [workers EXCEPT ![w] = r]
  BY DEF Goes
<1> HIDE DEF r
<1>5. Fits(r) /\ Holds(r)
  BY <1>1, <1>2, <1>3 DEF Fits, Holds, HasOld, HasNew
<1> QED BY <1>3, <1>4, <1>5, OneMoves

LEMMA GoesOkTypes ==
  ASSUME TypeInv, NEW w \in Workers, NEW ok \in BOOLEAN, GoesOk(w, "end", ok), head' = head,
         workers[w].task = "poll" => workers[w].pc = "deploy",
         workers[w].task = "redeploy" => workers[w].pc = "deploy",
         workers[w].task = "delete" => ok,
         workers[w].task \in {"poll", "redeploy", "stop", "delete", "start"}
  PROVE  WorkersInv'
<1> DEFINE r == [workers[w] EXCEPT !.pc = "end", !.ok = ok]
<1>1. workers[w] \in Worker /\ Holds(workers[w])
  BY InHand
<1>2. /\ r \in Worker /\ r.task = workers[w].task /\ r.pc = "end" /\ r.stack = workers[w].stack
      /\ r.old = workers[w].old /\ r.new = workers[w].new /\ r.ok = ok
  BY <1>1 DEF Worker
<1>3. workers' = [workers EXCEPT ![w] = r]
  BY DEF GoesOk
<1> HIDE DEF r
<1>4. Fits(r) /\ Holds(r)
  BY <1>1, <1>2 DEF Fits, Holds, HasOld, HasNew
<1> QED BY <1>2, <1>3, <1>4, OneMoves

\* The places: what the record, the directory and the environment become.
DirectoryOK(f) == f \in {files, NoCommit, head}
ContainersOK(n) == n \in {containers, files, NoCommit, Broken}

LEMMA PlacesMove ==
  ASSUME TypeInv, UNCHANGED <<head, restarts, disturbed, pushed>>,
         stack' \in Stack \cup {Absent},
         hash' \in Commits \cup {NoCommit}, hash' <= head,
         DirectoryOK(files'), ContainersOK(containers'), inFlight' \in BOOLEAN
  PROVE  PlacesInv'
BY ConstantsAssumption DEF TypeInv, PlacesInv, DirectoryOK, ContainersOK, Commits,
   NoCommit, Broken

LEMMA PollTypes ==
  ASSUME TypeInv, NEW w \in Workers, Poll(w)
  PROVE  TypeInv'
<1>1. /\ stack \in Stack \cup {Absent} /\ hash \in Commits \cup {NoCommit} /\ hash <= head
      /\ inFlight \in BOOLEAN
      /\ Release(w) => inFlight' \in BOOLEAN
  BY DEF TypeInv, PlacesInv, Release
<1>2. CASE BeginPoll(w)
  BY <1>2, AskTypes
<1>3. CASE JoinPoll(w)
  <2>1. WorkersInv'
    BY <1>3, EndsFits DEF JoinPoll
  <2>2. PlacesInv'
    BY <1>1, <1>3, PlacesMove DEF JoinPoll, DirectoryOK, ContainersOK
  <2> QED BY <2>1, <2>2 DEF TypeInv
<1>4. CASE LoadGit(w)
  <2>1. WorkersInv'
    BY <1>4, EndsFits, LoadTypes DEF LoadGit
  <2>2. inFlight' \in BOOLEAN
    BY <1>1, <1>4, ConstantsAssumption DEF LoadGit
  <2>3. PlacesInv'
    BY <1>1, <1>4, <2>2, PlacesMove DEF LoadGit, DirectoryOK, ContainersOK
  <2> QED BY <2>1, <2>3 DEF TypeInv
<1>5. CASE Fetch(w)
  <2>1. WorkersInv'
    BY <1>5, EndsFits, FetchTypes DEF Fetch
  <2>2. inFlight' \in BOOLEAN /\ disturbed' \in BOOLEAN
    BY <1>1, <1>5 DEF Fetch, TypeInv, PlacesInv
  <2>3. PlacesInv'
    BY <1>5, <2>2 DEF Fetch, TypeInv, PlacesInv
  <2> QED BY <2>1, <2>3 DEF TypeInv
<1>6. CASE Clone(w)
  <2>1. WorkersInv'
    <3>1. Steps("poll", "clone", "mark")
      BY DEF Steps
    <3> QED BY <1>6, <3>1, EndsFits, GoesTypes DEF Clone, At
  <2>2. PlacesInv'
    BY <1>1, <1>6, PlacesMove DEF Clone, DirectoryOK, ContainersOK
  <2> QED BY <2>1, <2>2 DEF TypeInv
<1>7. CASE Mark(w)
  <2>1. WorkersInv'
    BY <1>7, EndsFits, GivesUpTypes DEF Mark, At
  <2>2. stack' \in Stack
    BY <1>7 DEF Mark, Update, Deploying, Stack
  <2>3. PlacesInv'
    BY <1>1, <1>7, <2>2, PlacesMove DEF Mark, DirectoryOK, ContainersOK
  <2> QED BY <2>1, <2>3 DEF TypeInv
<1>8. CASE Deploy(w)
  <2>1. PICK ok \in BOOLEAN : DeployFiles(ok) /\ GoesOk(w, "end", ok)
    BY <1>8 DEF Deploy
  <2>2. WorkersInv'
    BY <1>8, <2>1, GoesOkTypes DEF Deploy, At
  <2>3. PlacesInv'
    BY <1>1, <1>8, <2>1, PlacesMove DEF Deploy, DeployFiles, DirectoryOK, ContainersOK
  <2> QED BY <2>2, <2>3 DEF TypeInv
<1>9. CASE Finish(w)
  <2>1. WorkersInv'
    BY <1>9, EndsFits DEF Finish
  <2>2. workers[w].new \in Commits /\ workers[w].new <= head
    BY <1>9, InHand DEF Finish, At, Holds, HasNew
  <2>3. /\ stack' \in Stack \cup {Absent} /\ hash' \in Commits \cup {NoCommit} /\ hash' <= head
    BY <1>1, <1>9, <2>2 DEF Finish, Update, DeploymentResult, Stack
  <2>4. PlacesInv'
    BY <1>1, <1>9, <2>3, PlacesMove DEF Finish, DirectoryOK, ContainersOK
  <2> QED BY <2>1, <2>4 DEF TypeInv
<1> QED BY <1>2, <1>3, <1>4, <1>5, <1>6, <1>7, <1>8, <1>9 DEF Poll

LEMMA RedeployTypes ==
  ASSUME TypeInv, NEW c \in Workers,
         \/ CloneAgain(c) \/ ReadHash(c) \/ Persist(c) \/ CheckFirst(c) \/ UndeployFirst(c)
         \/ StoreFailure(c) \/ DeployAgain(c) \/ EndRedeploy(c) \/ RevertHash(c)
  PROVE  TypeInv'
<1> USE DEF DirectoryOK, ContainersOK
<1>1. /\ stack \in Stack \cup {Absent} /\ hash \in Commits \cup {NoCommit} /\ hash <= head
      /\ inFlight \in BOOLEAN
  BY DEF TypeInv, PlacesInv
<1>2. /\ Steps("redeploy", "clone", "hash") /\ Steps("redeploy", "end", "revert")
      /\ Steps("redeploy", "check", "deploy") /\ Steps("redeploy", "check", "undeploy")
      /\ Steps("redeploy", "undeploy", "deploy") /\ Steps("redeploy", "undeploy", "failed")
      /\ Steps("redeploy", "failed", "deploy")
  BY DEF Steps
<1>3. CASE CloneAgain(c)
  <2>1. WorkersInv'
    BY <1>2, <1>3, EndsFits, GoesTypes DEF CloneAgain, At
  <2>2. PlacesInv'
    BY <1>1, <1>3, PlacesMove DEF CloneAgain
  <2> QED BY <2>1, <2>2 DEF TypeInv
<1>4. CASE ReadHash(c)
  <2>1. WorkersInv'
    BY <1>4, EndsFits, ReadHashTypes DEF ReadHash
  <2>2. PlacesInv'
    BY <1>1, <1>4, PlacesMove DEF ReadHash
  <2> QED BY <2>1, <2>2 DEF TypeInv
<1>5. CASE Persist(c)
  <2>1. WorkersInv'
    BY <1>5, EndsFits, GivesUpTypes DEF Persist, At
  <2>2. /\ workers[c].new \in Commits /\ workers[c].new <= head
        /\ workers[c].stack \in Stack
    BY <1>5, InHand DEF Persist, At, Holds, HasNew, InProgress, Stack
  <2>3. PlacesInv'
    BY <1>1, <1>5, <2>2, PlacesMove DEF Persist, Update
  <2> QED BY <2>1, <2>3 DEF TypeInv
<1>6. CASE UndeployFirst(c)
  <2>1. PICK ok \in BOOLEAN : Undeploy(ok) /\ Goes(c, IF ok THEN "deploy" ELSE "failed")
    BY <1>6 DEF UndeployFirst
  <2>2. WorkersInv'
    BY <1>2, <1>6, <2>1, GoesTypes DEF UndeployFirst, At
  <2>3. ContainersOK(containers')
    BY <2>1 DEF Undeploy
  <2>4. PlacesInv'
    BY <1>1, <1>6, <2>3, PlacesMove DEF UndeployFirst
  <2> QED BY <2>2, <2>4 DEF TypeInv
<1>10. CASE CheckFirst(c)
  <2>1. WorkersInv'
    BY <1>2, <1>10, EndsFits, GoesTypes DEF CheckFirst, At
  <2>2. PlacesInv'
    BY <1>1, <1>10, PlacesMove DEF CheckFirst
  <2> QED BY <2>1, <2>2 DEF TypeInv
<1>11. CASE StoreFailure(c)
  <2>1. WorkersInv'
    BY <1>2, <1>11, EndsFits, GoesTypes DEF StoreFailure, At
  <2>2. stack' \in Stack \cup {Absent}
    BY <1>1, <1>11 DEF StoreFailure, Update, UndeploymentResult, Stack
  <2>3. PlacesInv'
    BY <1>1, <1>11, <2>2, PlacesMove DEF StoreFailure
  <2> QED BY <2>1, <2>3 DEF TypeInv
<1>7. CASE DeployAgain(c)
  <2>1. PICK ok \in BOOLEAN : DeployFiles(ok) /\ GoesOk(c, "end", ok)
    BY <1>7 DEF DeployAgain
  <2>2. WorkersInv'
    BY <1>7, <2>1, GoesOkTypes DEF DeployAgain, At
  <2>3. PlacesInv'
    BY <1>1, <1>7, <2>1, PlacesMove DEF DeployAgain, DeployFiles
  <2> QED BY <2>2, <2>3 DEF TypeInv
<1>8. CASE EndRedeploy(c)
  <2>1. WorkersInv'
    BY <1>2, <1>8, EndsFits, GoesTypes DEF EndRedeploy, At
  <2>2. stack' \in Stack \cup {Absent}
    BY <1>1, <1>8 DEF EndRedeploy, Update, DeploymentResult, Stack
  <2>3. PlacesInv'
    BY <1>1, <1>8, <2>2, PlacesMove DEF EndRedeploy
  <2> QED BY <2>1, <2>3 DEF TypeInv
<1>9. CASE RevertHash(c)
  <2>1. WorkersInv'
    BY <1>9, EndsFits DEF RevertHash
  <2>2. workers[c].old \in Commits /\ workers[c].old <= head
    BY <1>9, InHand DEF RevertHash, At, Holds, HasOld
  <2>3. PlacesInv'
    BY <1>1, <1>9, <2>2, PlacesMove DEF RevertHash
  <2> QED BY <2>1, <2>3 DEF TypeInv
<1> QED BY <1>3, <1>4, <1>5, <1>6, <1>7, <1>8, <1>9, <1>10, <1>11

LEMMA RequestTypes ==
  ASSUME TypeInv, NEW c \in Workers,
         \/ Take(c) \/ Bring(c) \/ EndStop(c) \/ EndStart(c)
         \/ LoadSettings(c) \/ EndSettings(c) \/ EndDelete(c)
  PROVE  TypeInv'
<1> USE DEF DirectoryOK, ContainersOK
<1>1. /\ stack \in Stack \cup {Absent} /\ hash \in Commits \cup {NoCommit} /\ hash <= head
      /\ inFlight \in BOOLEAN
  BY DEF TypeInv, PlacesInv
<1>2. CASE Take(c)
  <2>1. PICK ok \in BOOLEAN :
          /\ Undeploy(ok)
          /\ \/ (ok \/ workers[c].task = "stop") /\ GoesOk(c, "end", ok) /\ UNCHANGED disturbed
             \/ Ends(c) /\ disturbed' = TRUE
    BY <1>2 DEF Take
  <2>2. WorkersInv'
    BY <1>2, <2>1, EndsFits, GoesOkTypes DEF Take
  <2>3. ContainersOK(containers') /\ disturbed' \in BOOLEAN
    BY <2>1 DEF Undeploy, TypeInv, PlacesInv
  <2>4. PlacesInv'
    BY <1>2, <2>3, ConstantsAssumption DEF Take, TypeInv, PlacesInv, Commits, NoCommit, Broken
  <2> QED BY <2>2, <2>4 DEF TypeInv
<1>3. CASE Bring(c)
  <2>1. PICK ok \in BOOLEAN : DeployFiles(ok) /\ GoesOk(c, "end", ok)
    BY <1>3 DEF Bring
  <2>2. WorkersInv'
    BY <1>3, <2>1, GoesOkTypes DEF Bring, At
  <2>3. PlacesInv'
    BY <1>1, <1>3, <2>1, PlacesMove DEF Bring, DeployFiles
  <2> QED BY <2>2, <2>3 DEF TypeInv
<1>4. CASE EndStop(c) \/ EndStart(c)
  <2>1. WorkersInv'
    BY <1>4, EndsFits DEF EndStop, EndStart
  <2>2. stack' \in Stack \cup {Absent}
    BY <1>1, <1>4 DEF EndStop, EndStart, Update, UndeploymentResult, DeploymentResult, Stack
  <2>3. PlacesInv'
    BY <1>1, <1>4, <2>2, PlacesMove DEF EndStop, EndStart
  <2> QED BY <2>1, <2>3 DEF TypeInv
<1>5. CASE EndSettings(c)
  <2>1. WorkersInv'
    BY <1>5, EndsFits DEF EndSettings
  <2>2. workers[c].old \in Commits /\ workers[c].old <= head /\ workers[c].stack \in Stack
    BY <1>5, InHand DEF EndSettings, At, Holds, HasOld
  <2>3. PlacesInv'
    BY <1>1, <1>5, <2>2, PlacesMove DEF EndSettings, Update
  <2> QED BY <2>1, <2>3 DEF TypeInv
<1>6. CASE EndDelete(c)
  <2>1. WorkersInv'
    BY <1>6, EndsFits DEF EndDelete
  <2>2. NoCommit <= head
    BY ConstantsAssumption DEF TypeInv, PlacesInv, Commits, NoCommit
  <2>3. PlacesInv'
    BY <1>1, <1>6, <2>2, PlacesMove DEF EndDelete
  <2> QED BY <2>1, <2>3 DEF TypeInv
<1>7. CASE LoadSettings(c)
  <2>1. WorkersInv'
    BY <1>7, EndsFits, LoadSettingsTypes DEF LoadSettings
  <2>2. PlacesInv'
    BY <1>1, <1>7, PlacesMove DEF LoadSettings
  <2> QED BY <2>1, <2>2 DEF TypeInv
<1> QED BY <1>2, <1>3, <1>4, <1>5, <1>6, <1>7

LEMMA PushTypes ==
  ASSUME TypeInv, Push
  PROVE  TypeInv'
<1>1. head \in Commits /\ head' = head + 1 /\ head' \in Commits
  BY ConstantsAssumption DEF Push, TypeInv, PlacesInv, Commits
<1>2. WorkersInv'
  <2>1. ASSUME NEW w \in Workers PROVE Holds(workers[w])'
    <3>1. /\ workers[w].old \in Int /\ workers[w].new \in Int
          /\ Holds(workers[w])
      BY ConstantsAssumption DEF TypeInv, WorkersInv, Worker, Commits, NoCommit
    <3> QED BY <1>1, <3>1 DEF Push, Holds, HasOld, HasNew, Commits
  <2> QED BY <2>1 DEF Push, TypeInv, WorkersInv, Fits
<1>3. PlacesInv'
  <2>1. pushed' \in BOOLEAN
    BY DEF Push, TypeInv, PlacesInv
  <2> QED BY <1>1, <2>1, ConstantsAssumption DEF Push, TypeInv, PlacesInv, Commits, NoCommit, Broken
<1> QED BY <1>2, <1>3 DEF TypeInv

LEMMA RestartTypes ==
  ASSUME TypeInv, Restart
  PROVE  TypeInv'
<1>1. WorkersInv'
  BY IdleFits DEF Restart, TypeInv, PlacesInv, WorkersInv, Holds, Fits
<1>2. files' \in {files, NoCommit} /\ stack' \in Stack \cup {Absent}
  BY DEF Restart, TypeInv, PlacesInv, Stack
<1>3. restarts' \in 0..MaxRestarts /\ disturbed' \in BOOLEAN
  BY ConstantsAssumption DEF Restart, TypeInv, PlacesInv
<1>4. NoCommit <= head
  BY ConstantsAssumption DEF TypeInv, PlacesInv, Commits, NoCommit
<1>5. PlacesInv'
  <2>1. inFlight' \in BOOLEAN
    BY DEF Restart
  <2> QED BY <1>2, <1>3, <1>4, <2>1 DEF Restart, TypeInv, PlacesInv
<1> QED BY <1>1, <1>5 DEF TypeInv

LEMMA NextTypes ==
  ASSUME TypeInv, [Next]_vars
  PROVE  TypeInv'
<1>1. Polls \subseteq Workers /\ Clients \subseteq Workers
  BY DEF Workers
<1>2. CASE \E w \in Polls : Poll(w)
  BY <1>1, <1>2, PollTypes
<1>3. CASE \E c \in Clients : Answer(c) \/ Ask(c)
  BY <1>1, <1>3, AskTypes, RedeployTypes, RequestTypes DEF Answer
<1>4. CASE UNCHANGED vars
  BY <1>4 DEF vars, TypeInv, WorkersInv, PlacesInv, Holds, Fits
<1> QED BY <1>2, <1>3, <1>4, PushTypes, RestartTypes DEF Next

LEMMA TypesHold == Spec => []TypeInv
<1> QED BY InitTypes, NextTypes, PTL DEF Spec

\* The record, the directory, the environment and the workers keep their types:
\* a worker that writes back a status or a commit has read one.
THEOREM GitTypes == Spec => []TypeOK
<1> QED BY InvHasTypes, TypesHold, PTL

-----------------------------------------------------------------------------
(* As long as no request met another worker or was cut short (~disturbed). *)

Stopped == {"Inactive", Absent}

\* Workers at the same time are polls, and at most one change of settings.
Apart ==
  \A v, w \in Workers :
    v # w /\ workers[v] # Idle /\ workers[w] # Idle
      => {workers[v].task, workers[w].task} \in Harmless

\* A record that is gone left nobody at work, and the workflow goes with it.
GoneIsQuiet ==
  /\ hash = NoCommit => stack = Absent
  /\ stack = Absent => \A w \in Workers : workers[w] = Idle

\* A poll works on a stack that is up, as do a stop and a redeployment from the
\* time it is recorded; a change of settings keeps up what is up.
StackFits(r) ==
  /\ r.task = "poll" => stack \notin Stopped
  /\ r.task = "settings" => (r.stack = "Inactive" <=> stack = "Inactive")
  /\ r.task = "start" => stack = "Inactive"
  /\ r.task = "stop" => stack \notin Stopped
  /\ r.task = "redeploy" /\ r.pc \in {"check", "undeploy", "failed", "deploy", "end", "revert"}
       => stack \notin Stopped

Taken(r) == r.task \in {"stop", "delete"} /\ r.pc = "end" /\ r.ok => containers = NoCommit

DownWhenStopped ==
  stack \in Stopped => \/ containers = NoCommit
                       \/ \E w \in Workers : workers[w].task = "start"

CalmInv ==
  ~disturbed =>
    /\ Apart
    /\ GoneIsQuiet
    /\ \A w \in Workers : StackFits(workers[w]) /\ Taken(workers[w])
    /\ DownWhenStopped

LEMMA InitCalm == Init => CalmInv
BY ConstantsAssumption DEF Init, CalmInv, Apart, GoneIsQuiet, StackFits, Taken,
   DownWhenStopped, Idle, Stopped, NoCommit, Absent

\* The pairs that are harmless, one by one.
LEMMA HarmlessPairs ==
  ASSUME NEW a, NEW b
  PROVE  {a, b} \in Harmless <=> \/ a = "poll" /\ b \in {"poll", "settings"}
                                 \/ a = "settings" /\ b = "poll"
BY DEF Harmless

\* Who neither polls nor changes settings is alone.
LEMMA AloneUnlessPolling ==
  ASSUME Apart, NEW w \in Workers, workers[w] # Idle,
         workers[w].task \notin {"poll", "settings"}
  PROVE  \A v \in Workers \ {w} : workers[v] = Idle
BY HarmlessPairs DEF Apart

\* And of those who change settings there is one.
LEMMA OneSettings ==
  ASSUME Apart, NEW v \in Workers, NEW w \in Workers, v # w, workers[v] # Idle,
         workers[w].task = "settings", workers[w] # Idle
  PROVE  workers[v].task = "poll"
BY HarmlessPairs DEF Apart

\* Steps that begin nothing leave the workers apart.
LEMMA ApartKept ==
  ASSUME Apart,
         \A v \in Workers : \/ workers'[v] = Idle
                            \/ workers[v] # Idle /\ workers'[v].task = workers[v].task
  PROVE  Apart'
BY DEF Apart

LEMMA BeginApart ==
  ASSUME TypeInv, Apart, NEW w \in Workers, NEW task, NEW pc, NEW copy, NEW old,
         Begin(w, task, pc, copy, old), ~disturbed'
  PROVE  Apart'
<1>1. /\ workers[w] = Idle /\ workers'[w].task = task
      /\ \A v \in Workers \ {w} : workers'[v] = workers[v]
  BY DEF Begin, TypeInv, WorkersInv
<1>2. \A v \in Workers \ {w} : workers[v] # Idle => {task, workers[v].task} \in Harmless
  <2>1. disturbed' = (disturbed \/ Meets(w, task))
    BY DEF Begin
  <2> QED BY <2>1 DEF Meets
<1>3. \A v \in Workers \ {w} : workers[v] # Idle => {workers[v].task, task} \in Harmless
  BY <1>2, HarmlessPairs
<1> QED BY <1>1, <1>2, <1>3 DEF Apart

\* Whoever is at work ends or goes on with his task, and nobody else moves.
OnlyMoves(w) ==
  /\ workers[w] # Idle
  /\ workers'[w] = Idle \/ workers'[w].task = workers[w].task
  /\ \A v \in Workers \ {w} : workers'[v] = workers[v]

LEMMA PollMoves ==
  ASSUME TypeInv, NEW w \in Workers, Poll(w), ~BeginPoll(w)
  PROVE  /\ OnlyMoves(w) /\ workers[w].task = "poll" /\ UNCHANGED <<pushed, head>>
         /\ ~disturbed' => ~disturbed
<1>1. workers \in [Workers -> Worker] /\ workers[w] \in Worker
  BY DEF TypeInv, WorkersInv
<1>2. workers[w].task = "poll" /\ workers[w] # Idle
  BY DEF Poll, JoinPoll, LoadGit, Fetch, Clone, Mark, Deploy, Finish, At, Idle
<1>3. UNCHANGED <<pushed, head>>
  BY DEF Poll, JoinPoll, LoadGit, Fetch, Clone, Mark, Deploy, Finish
<1>4. ~disturbed' => ~disturbed
  <2>1. CASE Fetch(w)
    BY <2>1, Zenon DEF Fetch
  <2>2. CASE UNCHANGED disturbed
    BY <2>2
  <2> QED BY <2>1, <2>2 DEF Poll, JoinPoll, LoadGit, Clone, Mark, Deploy, Finish
<1> QED BY <1>1, <1>2, <1>3, <1>4 DEF OnlyMoves, Poll, JoinPoll, LoadGit, Fetch, Clone, Mark,
           Deploy, Finish, Ends, Goes, GoesOk, Worker

LEMMA AnswerMoves ==
  ASSUME TypeInv, NEW c \in Workers, Answer(c)
  PROVE  /\ OnlyMoves(c) /\ workers[c].task \in Kinds /\ UNCHANGED <<pushed, head>>
         /\ Take(c) \/ UNCHANGED disturbed
<1>1. workers \in [Workers -> Worker] /\ workers[c] \in Worker
  BY DEF TypeInv, WorkersInv
<1>2. workers[c].task \in Kinds /\ workers[c] # Idle
  <2>1. workers[c].task \in Kinds
    BY DEF Answer, CloneAgain, ReadHash, Persist, CheckFirst, UndeployFirst, StoreFailure,
           DeployAgain, EndRedeploy, RevertHash, Take, Bring, EndStop, EndStart, LoadSettings,
           EndSettings, EndDelete, At, Kinds
  <2> QED BY <2>1 DEF Idle, Kinds
<1>3. UNCHANGED <<pushed, head>> /\ (Take(c) \/ UNCHANGED disturbed)
  BY DEF Answer, CloneAgain, ReadHash, Persist, CheckFirst, UndeployFirst, StoreFailure,
         DeployAgain, EndRedeploy, RevertHash, Take, Bring, EndStop, EndStart, LoadSettings,
         EndSettings, EndDelete
<1>4. /\ workers'[c] = Idle \/ workers'[c].task = workers[c].task
      /\ \A v \in Workers \ {c} : workers'[v] = workers[v]
  <2>1. CASE \/ CloneAgain(c) \/ ReadHash(c) \/ Persist(c) \/ CheckFirst(c) \/ UndeployFirst(c)
             \/ StoreFailure(c) \/ DeployAgain(c) \/ EndRedeploy(c) \/ RevertHash(c)
    <3>1. CASE ReadHash(c)
      BY <1>1, <3>1 DEF ReadHash, Ends, Worker
    <3>2. CASE Persist(c)
      BY <1>1, <3>2 DEF Persist, Ends, Worker
    <3>3. CASE CloneAgain(c) \/ RevertHash(c)
      BY <1>1, <3>3 DEF CloneAgain, RevertHash, Ends, Goes, Worker
    <3>4. CASE UndeployFirst(c) \/ CheckFirst(c) \/ StoreFailure(c)
      <4>1. Ends(c) \/ Goes(c, "deploy") \/ Goes(c, "undeploy") \/ Goes(c, "failed")
        BY <3>4 DEF UndeployFirst, CheckFirst, StoreFailure
      <4> QED BY <1>1, <4>1 DEF Ends, Goes, Worker
    <3>5. CASE DeployAgain(c) \/ EndRedeploy(c)
      BY <1>1, <3>5 DEF DeployAgain, EndRedeploy, Ends, Goes, GoesOk, Worker
    <3> QED BY <2>1, <3>1, <3>2, <3>3, <3>4, <3>5
  <2>2. CASE \/ Take(c) \/ Bring(c) \/ EndStop(c) \/ EndStart(c) \/ EndSettings(c)
             \/ EndDelete(c)
    BY <1>1, <2>2 DEF Take, Bring, EndStop, EndStart, EndSettings, EndDelete, Ends, Goes,
           GoesOk, Worker
  <2>3. CASE LoadSettings(c)
    BY <1>1, <2>3 DEF LoadSettings, Ends, Worker
  <2> QED BY <2>1, <2>2, <2>3 DEF Answer
<1> QED BY <1>2, <1>3, <1>4 DEF OnlyMoves

LEMMA MovesApart ==
  ASSUME Apart, NEW w \in Workers, OnlyMoves(w)
  PROVE  Apart'
BY ApartKept DEF OnlyMoves

\* A poll leaves a stack that is up.
LEMMA PollCalm ==
  ASSUME TypeInv, CalmInv, NEW w \in Workers, Poll(w), ~BeginPoll(w)
  PROVE  CalmInv'
<1> SUFFICES ASSUME ~disturbed' PROVE CalmInv'
  BY DEF CalmInv
<1>1. /\ OnlyMoves(w) /\ workers[w].task = "poll" /\ ~disturbed
  BY PollMoves
<1>2. /\ Apart /\ GoneIsQuiet
      /\ \A v \in Workers : StackFits(workers[v]) /\ Taken(workers[v])
  BY <1>1 DEF CalmInv
<1>3. stack \notin Stopped /\ hash # NoCommit
  BY <1>1, <1>2 DEF StackFits, GoneIsQuiet, Stopped
<1>4. \A v \in Workers : workers'[v] # Idle => workers'[v].task \in {"poll", "settings"}
  <2>1. ASSUME NEW v \in Workers \ {w}, workers[v] # Idle
        PROVE  workers[v].task \in {"poll", "settings"}
    BY <1>1, <1>2, <2>1, HarmlessPairs DEF Apart, OnlyMoves
  <2> QED BY <1>1, <2>1 DEF OnlyMoves
<1>5. stack' \notin Stopped /\ hash' # NoCommit
  <2>1. CASE Mark(w)
    BY <1>3, <2>1 DEF Mark, Update, Deploying, Stopped, Absent
  <2>2. CASE Finish(w)
    <3>1. workers[w].new # NoCommit
      BY <2>2, InHand, ConstantsAssumption DEF Finish, At, Holds, HasNew, Commits, NoCommit
    <3> QED BY <1>3, <2>2, <3>1 DEF Finish, Update, DeploymentResult, WorkflowExists,
               Stopped, Absent
  <2>3. CASE UNCHANGED <<stack, hash>>
    BY <1>3, <2>3
  <2> QED BY <2>1, <2>2, <2>3 DEF Poll, JoinPoll, LoadGit, Fetch, Clone, Deploy
<1>6. ASSUME NEW v \in Workers PROVE StackFits(workers[v])' /\ Taken(workers[v])'
  <2>1. workers'[v] = Idle \/ workers'[v].task \in {"poll", "settings"}
    BY <1>4
  <2>2. workers'[v].task = "settings" => v # w /\ workers'[v] = workers[v]
    BY <1>1 DEF OnlyMoves, Idle
  <2>3. StackFits(workers[v])
    BY <1>2
  <2> QED BY <1>3, <1>5, <2>1, <2>2, <2>3 DEF StackFits, Taken, Stopped, Idle
<1>7. GoneIsQuiet' /\ DownWhenStopped'
  BY <1>5 DEF GoneIsQuiet, DownWhenStopped, Stopped
<1> QED BY <1>1, <1>2, <1>6, <1>7, MovesApart DEF CalmInv

\* What a step must show when nobody else is at work.
LEMMA AloneCalm ==
  ASSUME TypeInv, CalmInv, ~disturbed, NEW c \in Workers, OnlyMoves(c),
         workers[c].task \notin {"poll", "settings"},
         hash' = NoCommit => stack' = Absent,
         stack' = Absent => workers'[c] = Idle,
         StackFits(workers[c])', Taken(workers[c])',
         stack' \in Stopped => containers' = NoCommit \/ workers'[c].task = "start"
  PROVE  CalmInv'
<1>1. Apart /\ \A v \in Workers \ {c} : workers'[v] = Idle
  BY AloneUnlessPolling DEF CalmInv, OnlyMoves
<1>2. \A v \in Workers \ {c} : StackFits(workers[v])' /\ Taken(workers[v])'
  BY <1>1 DEF StackFits, Taken, Idle
<1>3. GoneIsQuiet' /\ DownWhenStopped'
  BY <1>1 DEF GoneIsQuiet, DownWhenStopped
<1> QED BY <1>1, <1>2, <1>3, MovesApart DEF CalmInv

\* The record of somebody alone at work is there, and so is its workflow.
LEMMA AloneKnows ==
  ASSUME TypeInv, CalmInv, ~disturbed, NEW c \in Workers, workers[c] # Idle
  PROVE  /\ stack # Absent /\ WorkflowExists
         /\ StackFits(workers[c]) /\ Taken(workers[c]) /\ DownWhenStopped
BY DEF CalmInv, GoneIsQuiet, WorkflowExists

LEMMA RedeployCalm ==
  ASSUME TypeInv, CalmInv, NEW c \in Workers,
         \/ CloneAgain(c) \/ ReadHash(c) \/ Persist(c) \/ CheckFirst(c) \/ UndeployFirst(c)
         \/ StoreFailure(c) \/ DeployAgain(c) \/ EndRedeploy(c) \/ RevertHash(c)
  PROVE  CalmInv'
<1> SUFFICES ASSUME ~disturbed' PROVE CalmInv'
  BY DEF CalmInv
<1>1. /\ OnlyMoves(c) /\ ~disturbed
  <2>1. Answer(c)
    BY DEF Answer
  <2>2. UNCHANGED disturbed
    BY DEF CloneAgain, ReadHash, Persist, CheckFirst, UndeployFirst, StoreFailure,
           DeployAgain, EndRedeploy, RevertHash
  <2> QED BY <2>1, <2>2, AnswerMoves
<1>2. workers[c].task = "redeploy" /\ workers[c] \in Worker /\ Holds(workers[c])
  BY InHand DEF CloneAgain, ReadHash, Persist, CheckFirst, UndeployFirst, StoreFailure,
     DeployAgain, EndRedeploy, RevertHash, At
<1>3. /\ stack # Absent /\ WorkflowExists
      /\ StackFits(workers[c]) /\ DownWhenStopped
  BY <1>1, AloneKnows DEF OnlyMoves
<1>4. stack \in Stopped => containers = NoCommit
  <2>1. \A v \in Workers \ {c} : workers[v] = Idle
    BY <1>1, <1>2, AloneUnlessPolling DEF CalmInv, OnlyMoves
  <2> QED BY <1>2, <1>3, <2>1 DEF DownWhenStopped, Idle
<1>5. Taken(workers[c])'
  BY <1>1, <1>2 DEF Taken, OnlyMoves, Idle
<1>6. /\ stack' # Absent /\ hash' # NoCommit
      /\ workers'[c] = Idle \/ workers'[c].pc \in {"hash", "persist"} \/ stack' \notin Stopped
      /\ stack' \in Stopped => containers' = NoCommit
  <2>1. CASE CloneAgain(c) \/ ReadHash(c)
    <3>1. workers \in [Workers -> Worker] /\ UNCHANGED <<stack, hash, containers>>
      BY <2>1 DEF TypeInv, WorkersInv, CloneAgain, ReadHash
    <3>2. workers'[c] = Idle \/ workers'[c].pc \in {"hash", "persist"}
      <4>1. CASE CloneAgain(c)
        BY <1>2, <3>1, <4>1 DEF CloneAgain, Ends, Goes, Worker
      <4>2. CASE ReadHash(c)
        BY <1>2, <3>1, <4>2 DEF ReadHash, Ends, Worker
      <4> QED BY <2>1, <4>1, <4>2
    <3> QED BY <1>3, <1>4, <3>1, <3>2 DEF WorkflowExists
  <2>3. CASE Persist(c)
    <3>1. stack' \in InProgress /\ hash' \in Commits
      BY <1>2, <1>3, <2>3 DEF Persist, At, Holds, HasNew, Update
    <3> QED BY <3>1, ConstantsAssumption DEF InProgress, Stopped, Absent, Commits, NoCommit
  <2>4. CASE CheckFirst(c) \/ UndeployFirst(c) \/ StoreFailure(c)
    <3>1. stack \notin Stopped /\ UNCHANGED hash
      BY <1>3, <2>4 DEF CheckFirst, UndeployFirst, StoreFailure, At, StackFits
    <3>2. stack' \notin Stopped
      BY <2>4, <3>1 DEF CheckFirst, UndeployFirst, StoreFailure, Update,
         UndeploymentResult, Stopped, Absent
    <3> QED BY <1>3, <3>1, <3>2 DEF Stopped, WorkflowExists
  <2>5. CASE DeployAgain(c)
    BY <1>3, <2>5 DEF DeployAgain, At, StackFits, Stopped, WorkflowExists
  <2>6. CASE EndRedeploy(c)
    BY <1>3, <2>6 DEF EndRedeploy, Update, DeploymentResult, Stopped, Absent, WorkflowExists
  <2>7. CASE RevertHash(c)
    <3>1. workers[c].old # NoCommit
      BY <1>2, ConstantsAssumption DEF Holds, HasOld, Commits, NoCommit
    <3> QED BY <1>3, <2>7, <3>1 DEF RevertHash, At, StackFits, Stopped, WorkflowExists
  <2> QED BY <2>1, <2>3, <2>4, <2>5, <2>6, <2>7
<1>7. StackFits(workers[c])'
  BY <1>1, <1>2, <1>6 DEF StackFits, OnlyMoves, Idle
<1> QED BY <1>1, <1>2, <1>5, <1>6, <1>7, AloneCalm

LEMMA RequestCalm ==
  ASSUME TypeInv, CalmInv, NEW c \in Workers,
         Take(c) \/ Bring(c) \/ EndStop(c) \/ EndStart(c) \/ EndDelete(c)
  PROVE  CalmInv'
<1> SUFFICES ASSUME ~disturbed' PROVE CalmInv'
  BY DEF CalmInv
<1>1. /\ OnlyMoves(c) /\ ~disturbed
  <2>1. Answer(c)
    BY DEF Answer
  <2>2. Take(c) => ~disturbed
    BY DEF Take
  <2> QED BY <2>1, <2>2, AnswerMoves
<1>2. /\ workers[c] \in Worker /\ Holds(workers[c]) /\ workers \in [Workers -> Worker]
      /\ workers[c].task \in {"stop", "start", "delete"}
  BY InHand DEF TypeInv, WorkersInv, Take, Bring, EndStop, EndStart, EndDelete, At
<1>3. /\ stack # Absent /\ hash # NoCommit
      /\ StackFits(workers[c]) /\ Taken(workers[c])
  BY <1>1, AloneKnows DEF OnlyMoves, WorkflowExists
<1>4. CASE Take(c)
  <2>1. PICK ok \in BOOLEAN :
          Undeploy(ok) /\ (ok \/ workers[c].task = "stop") /\ GoesOk(c, "end", ok)
    BY <1>4 DEF Take
  <2>2. /\ workers'[c].ok = ok /\ workers'[c].task = workers[c].task
        /\ UNCHANGED <<stack, hash>>
    BY <1>2, <1>4, <2>1 DEF GoesOk, Take, Worker
  <2>3. /\ ok \/ workers[c].task = "stop"
        /\ ok \/ workers'[c].ok = FALSE
        /\ ok => containers' = NoCommit
    BY <2>1, <2>2 DEF Undeploy
  <2>4. workers[c].task = "stop" => stack \notin Stopped
    BY <1>3 DEF StackFits
  <2>5. StackFits(workers[c])' /\ Taken(workers[c])'
    <3>1. StackFits(workers[c])'
      BY <1>4, <2>2, <2>4 DEF StackFits, Take
    <3> QED BY <2>3, <3>1 DEF Taken
  <2> QED BY <1>1, <1>2, <1>3, <2>1, <2>2, <2>3, <2>4, <2>5, AloneCalm DEF Stopped
<1>5. CASE Bring(c)
  <2>1. PICK ok \in BOOLEAN : GoesOk(c, "end", ok)
    BY <1>5 DEF Bring
  <2>2. workers'[c].task = "start" /\ UNCHANGED <<stack, hash>>
    BY <1>2, <1>5, <2>1 DEF GoesOk, Bring, At, Worker
  <2>3. StackFits(workers[c])' /\ Taken(workers[c])'
    BY <1>3, <1>5, <2>2 DEF StackFits, Taken, Bring, At
  <2> QED BY <1>1, <1>2, <1>3, <2>2, <2>3, AloneCalm
<1>6. CASE EndStop(c) \/ EndStart(c) \/ EndDelete(c)
  <2>1. workers'[c] = Idle
    BY <1>2, <1>6 DEF EndStop, EndStart, EndDelete, Ends
  <2>2. hash' = NoCommit => stack' = Absent
    BY <1>3, <1>6 DEF EndStop, EndStart, EndDelete
  <2>3. stack' \in Stopped => containers' = NoCommit
    <3>1. CASE EndStop(c)
      BY <1>3, <3>1 DEF EndStop, At, Taken, WorkflowExists, Update, UndeploymentResult,
         Stopped, Absent
    <3>2. CASE EndStart(c)
      BY <1>3, <3>2 DEF EndStart, WorkflowExists, Update, DeploymentResult, Stopped, Absent
    <3>3. CASE EndDelete(c)
      BY <1>2, <1>3, <3>3 DEF EndDelete, At, Taken, Holds
    <3> QED BY <1>6, <3>1, <3>2, <3>3
  <2>4. StackFits(workers[c])' /\ Taken(workers[c])'
    BY <2>1 DEF StackFits, Taken, Idle
  <2> QED BY <1>1, <1>2, <2>1, <2>2, <2>3, <2>4, AloneCalm
<1> QED BY <1>4, <1>5, <1>6

\* Reading the hash, a change of settings keeps the stack it holds.
LEMMA LoadSettingsCalm ==
  ASSUME TypeInv, CalmInv, NEW c \in Workers, LoadSettings(c)
  PROVE  CalmInv'
<1> SUFFICES ASSUME ~disturbed' PROVE CalmInv'
  BY DEF CalmInv
<1>1. /\ OnlyMoves(c) /\ ~disturbed /\ workers[c].task = "settings"
      /\ UNCHANGED <<stack, hash, containers>>
  <2>1. /\ Answer(c) /\ UNCHANGED <<disturbed, stack, hash, containers>>
        /\ workers[c].task = "settings"
    BY DEF Answer, LoadSettings, At
  <2> QED BY <2>1, AnswerMoves
<1>2. workers'[c] = Idle \/ workers'[c].stack = workers[c].stack
  <2>1. workers \in [Workers -> Worker]
    BY DEF TypeInv, WorkersInv
  <2> QED BY <2>1 DEF LoadSettings, Ends, Worker
<1>3. Apart /\ Apart' /\ GoneIsQuiet /\ DownWhenStopped
  BY <1>1, MovesApart DEF CalmInv
<1>4. ASSUME NEW v \in Workers PROVE StackFits(workers[v])' /\ Taken(workers[v])'
  <2>1. StackFits(workers[v]) /\ Taken(workers[v])
    BY <1>1 DEF CalmInv
  <2>2. CASE v = c
    BY <1>1, <1>2, <2>1, <2>2 DEF StackFits, Taken, OnlyMoves, Idle
  <2>3. CASE v # c
    <3>1. workers'[v] = workers[v]
      BY <1>1, <2>3 DEF OnlyMoves
    <3> QED BY <1>1, <2>1, <3>1 DEF StackFits, Taken
  <2> QED BY <2>2, <2>3
<1>5. GoneIsQuiet' /\ DownWhenStopped'
  BY <1>1, <1>3 DEF GoneIsQuiet, DownWhenStopped, OnlyMoves
<1> QED BY <1>3, <1>4, <1>5 DEF CalmInv

\* The settings written are those of the stack as it is.
LEMMA SettingsCalm ==
  ASSUME TypeInv, CalmInv, NEW c \in Workers, EndSettings(c)
  PROVE  CalmInv'
<1> SUFFICES ASSUME ~disturbed' PROVE CalmInv'
  BY DEF CalmInv
<1>1. /\ OnlyMoves(c) /\ ~disturbed /\ workers[c].task = "settings" /\ workers'[c] = Idle
      /\ workers[c].pc = "end"
  <2>1. /\ Answer(c) /\ UNCHANGED disturbed /\ ~Take(c)
        /\ workers[c].task = "settings" /\ workers[c].pc = "end"
    BY DEF Answer, EndSettings, At, Take
  <2>2. workers'[c] = Idle
    BY DEF EndSettings, Ends, TypeInv, WorkersInv
  <2> QED BY <2>1, <2>2, AnswerMoves
<1>2. /\ stack # Absent /\ hash # NoCommit
      /\ StackFits(workers[c]) /\ DownWhenStopped
  BY <1>1, AloneKnows DEF OnlyMoves, WorkflowExists
<1>3. /\ workers[c].stack \in Stack /\ workers[c].old \in Commits
      /\ \A v \in Workers : workers[v] # Idle => StackFits(workers[v])
  BY <1>1, InHand DEF CalmInv, Holds, HasOld
<1>4. /\ stack' # Absent /\ hash' # NoCommit /\ (stack' = "Inactive" <=> stack = "Inactive")
      /\ UNCHANGED containers
  <2>1. stack' = workers[c].stack /\ hash' = workers[c].old /\ UNCHANGED containers
    BY <1>2 DEF EndSettings, WorkflowExists, Update
  <2>2. workers[c].stack # Absent /\ workers[c].old # NoCommit
    BY <1>3, ConstantsAssumption DEF Stack, Absent, Commits, NoCommit
  <2> QED BY <1>1, <1>2, <2>1, <2>2 DEF StackFits
<1>5. ASSUME NEW v \in Workers \ {c}, workers[v] # Idle
      PROVE  workers[v].task = "poll"
  BY <1>1, <1>5, OneSettings DEF CalmInv, OnlyMoves
<1>6. ASSUME NEW v \in Workers PROVE StackFits(workers[v])' /\ Taken(workers[v])'
  <2>1. CASE workers'[v] = Idle
    BY <2>1 DEF StackFits, Taken, Idle
  <2>2. CASE workers'[v] # Idle
    <3>1. v # c /\ workers'[v] = workers[v] /\ workers[v].task = "poll"
      BY <1>1, <1>5, <2>2 DEF OnlyMoves
    <3> QED BY <1>2, <1>3, <1>4, <2>2, <3>1 DEF StackFits, Taken, Stopped
  <2> QED BY <2>1, <2>2
<1>7. GoneIsQuiet' /\ DownWhenStopped'
  <2>1. \A w \in Workers : workers[w].task # "start"
    BY <1>1, <1>5 DEF Idle
  <2> QED BY <1>2, <1>4, <2>1 DEF GoneIsQuiet, DownWhenStopped, Stopped
<1>8. Apart /\ Apart'
  BY <1>1, MovesApart DEF CalmInv
<1> QED BY <1>6, <1>7, <1>8 DEF CalmInv

\* Who begins finds a stack that is there, and is alone or harmless.
LEMMA BeginCalm ==
  ASSUME TypeInv, CalmInv, NEW w \in Workers, BeginPoll(w) \/ Ask(w)
  PROVE  CalmInv'
<1> SUFFICES ASSUME ~disturbed' PROVE CalmInv'
  BY DEF CalmInv
<1>1. PICK task, pc, copy, old :
        /\ task \in Kinds \cup {"poll"}
        /\ Begin(w, task, pc, copy, old)
        /\ task = "poll" => stack \notin Stopped
        /\ task = "settings" => copy = stack
        /\ task = "start" => stack = "Inactive"
        /\ task = "stop" => stack \notin Stopped
        /\ task = "redeploy" => pc = "clone"
        /\ task \in {"stop", "delete"} => pc = "undeploy"
  BY DEF BeginPoll, Ask, BeginRedeploy, BeginStop, BeginStart, BeginDelete, BeginSettings,
     Kinds, Stopped
<1>2. stack # Absent /\ UNCHANGED <<stack, hash, containers>>
  BY DEF BeginPoll, Ask, BeginRedeploy, BeginStop, BeginStart, BeginDelete, BeginSettings,
     Stopped, Absent
<1>3. /\ ~disturbed /\ Apart /\ GoneIsQuiet /\ DownWhenStopped
      /\ \A v \in Workers : StackFits(workers[v]) /\ Taken(workers[v])
  BY <1>1 DEF Begin, CalmInv
<1>4. /\ workers'[w].task = task /\ workers'[w].pc = pc /\ workers'[w].stack = copy
      /\ workers[w] = Idle /\ \A v \in Workers \ {w} : workers'[v] = workers[v]
  BY <1>1 DEF Begin, TypeInv, WorkersInv
<1>5. StackFits(workers[w])' /\ Taken(workers[w])'
  BY <1>1, <1>2, <1>4 DEF StackFits, Taken
<1>6. ASSUME NEW v \in Workers \ {w} PROVE StackFits(workers[v])' /\ Taken(workers[v])'
  BY <1>2, <1>3, <1>4 DEF StackFits, Taken
<1>7. GoneIsQuiet' /\ DownWhenStopped'
  BY <1>2, <1>3, <1>4 DEF GoneIsQuiet, DownWhenStopped, Idle
<1>8. Apart'
  BY <1>1, <1>3, BeginApart
<1> QED BY <1>5, <1>6, <1>7, <1>8 DEF CalmInv

\* A calm restart cuts short no start, stop or deletion.
LEMMA RestartCalm ==
  ASSUME TypeInv, CalmInv, Restart
  PROVE  CalmInv'
<1> SUFFICES ASSUME ~disturbed' PROVE CalmInv'
  BY DEF CalmInv
<1>1. /\ ~disturbed /\ \A w \in Workers : workers'[w] = Idle /\ workers[w].task # "start"
      /\ UNCHANGED <<hash, containers>>
  <2>1. /\ ~disturbed
        /\ \A w \in Interrupted : workers[w].task \in {"poll", "settings", "redeploy"}
        /\ \A w \in Workers : workers'[w] = Idle
        /\ UNCHANGED <<hash, containers>>
    BY DEF Restart
  <2>2. ASSUME NEW w \in Workers PROVE workers[w].task # "start"
    BY <2>1 DEF Interrupted, Idle
  <2> QED BY <2>1, <2>2
<1>2. stack' = stack \/ (stack' = "Error" /\ stack \notin Stopped)
  BY DEF Restart, InProgress, Stopped, Absent
<1>3. Apart'
  BY <1>1 DEF Apart
<1>4. \A w \in Workers : StackFits(workers[w])' /\ Taken(workers[w])'
  BY <1>1 DEF StackFits, Taken, Idle
<1>5. GoneIsQuiet' /\ DownWhenStopped'
  BY <1>1, <1>2 DEF CalmInv, GoneIsQuiet, DownWhenStopped, Stopped, Absent
<1> QED BY <1>3, <1>4, <1>5 DEF CalmInv

LEMMA NextCalm ==
  ASSUME TypeInv, CalmInv, [Next]_vars
  PROVE  CalmInv'
<1>1. Polls \subseteq Workers /\ Clients \subseteq Workers
  BY DEF Workers
<1>2. CASE \E w \in Polls : Poll(w)
  BY <1>1, <1>2, PollCalm, BeginCalm
<1>3. CASE \E c \in Clients : Answer(c) \/ Ask(c)
  BY <1>1, <1>3, BeginCalm, RedeployCalm, RequestCalm, LoadSettingsCalm, SettingsCalm
     DEF Answer
<1>4. CASE Push \/ UNCHANGED vars
  BY <1>4 DEF Push, vars, CalmInv, Apart, GoneIsQuiet, StackFits, Taken, DownWhenStopped
<1> QED BY <1>2, <1>3, <1>4, RestartCalm DEF Next

LEMMA CalmHolds == Spec => []CalmInv
<1> QED BY InitTypes, InitCalm, NextTypes, NextCalm, PTL DEF Spec

\* When nothing is going on and no request met another, the containers of an inactive or
\* deleted stack are gone, after any number of polls, failures, requests and restarts.
THEOREM StoppedStacksAreDown == Spec => []StoppedIsDown
<1>1. CalmInv => StoppedIsDown
  BY DEF CalmInv, DownWhenStopped, StoppedIsDown, AtRest, Stopped, Idle
<1> QED BY <1>1, CalmHolds, PTL

-----------------------------------------------------------------------------
(* Polls have a single flight (~Webhook), and no commit came between a     *)
(* clone and LatestCommitID (~pushed).                                     *)

Flies(r) == r.task = "poll" /\ r.pc # "load"

OneFlight ==
  /\ \A w \in Workers : Flies(workers[w]) => inFlight
  /\ \A v, w \in Workers : Flies(workers[v]) /\ Flies(workers[w]) => v = w

ByClients == \A w \in Workers : workers[w].task \in Kinds => w \in Clients

\* The directory holds this commit or a newer one, or nothing usable.
FilesReach(n) == files = NoCommit \/ n <= files

\* A flight goes forward: what it replaces is not newer than what it brings.
FlightForward(r) ==
  /\ Flies(r) => hash <= r.old /\ FilesReach(r.old)
  /\ r.task = "poll" /\ HasNew(r) => r.old <= r.new
  /\ r.task = "poll" /\ r.pc \in {"mark", "deploy", "end"} => FilesReach(r.new)
  /\ r.task = "poll" /\ r.pc = "end" /\ r.ok => r.new <= containers

\* A flight that deploys the recorded commit again (ForceUpdate) meets no change of
\* settings, and the stack is not Active meanwhile.
Again(r) == r.task = "poll" /\ HasNew(r) /\ r.new = r.old
NoSettings == \A v \in Workers : workers[v].task # "settings"
AgainForward(r) ==
  Again(r) => NoSettings /\ (r.pc \in {"deploy", "end"} => stack # "Active")

\* Who writes a commit back writes none that is newer than the recorded one.
WritesBack(r) == r.task \in {"settings", "redeploy"} => r.old <= hash

RedeployForward(r) ==
  r.task = "redeploy" =>
    /\ r.pc = "hash" => files = head
    /\ r.pc = "persist" => files = r.new
    /\ r.pc \in {"check", "undeploy", "failed", "deploy", "end", "revert"} => stack # "Active"

Brought(r) == r.task \in {"redeploy", "start"} /\ r.pc = "end" /\ r.ok => hash <= containers

FilesForward == FilesReach(hash)

\* The stack is Active, or will be again when its settings are written.
ActiveOrWill ==
  \/ stack = "Active"
  \/ \E w \in Workers : workers[w].task = "settings" /\ workers[w].stack = "Active"

NobodyTakes == \A w \in Workers : workers[w].task \notin {"stop", "delete"}

Runs == ActiveOrWill /\ NobodyTakes /\ hash = head => containers = head

Forward ==
  /\ \A w \in Workers : /\ FlightForward(workers[w]) /\ AgainForward(workers[w])
                        /\ WritesBack(workers[w])
                        /\ RedeployForward(workers[w]) /\ Brought(workers[w])
  /\ FilesForward
  /\ Runs

ForwardInv == ~disturbed /\ ~pushed => Forward

LEMMA InitForward == Init => OneFlight /\ ByClients /\ ForwardInv
BY DEF Init, OneFlight, ByClients, ForwardInv, Forward, Flies, FlightForward, WritesBack,
   AgainForward, Again, RedeployForward, Brought, FilesForward, FilesReach, Runs,
   ActiveOrWill, Idle, Kinds, HasNew

\* The commits are numbers; those of the record and of the environment are not newer
\* than the latest.
LEMMA Numbers ==
  ASSUME TypeInv
  PROVE  /\ head \in Nat /\ hash \in Nat /\ files \in Nat /\ containers \in Int
         /\ hash <= head /\ containers <= head /\ files <= head
         /\ \A w \in Workers : /\ workers[w].old \in Nat /\ workers[w].new \in Nat
                               /\ workers[w].new <= head /\ workers[w].old <= head
BY ConstantsAssumption DEF TypeInv, PlacesInv, WorkersInv, Worker, Holds, Commits, NoCommit, Broken

LEMMA ClientsAsk ==
  ASSUME TypeInv, ByClients, [Next]_vars
  PROVE  ByClients'
<1>1. Polls \subseteq Workers /\ Clients \subseteq Workers
  BY DEF Workers
<1>2. ASSUME NEW w \in Workers, (Poll(w) /\ ~BeginPoll(w)) \/ Answer(w)
      PROVE  ByClients'
  <2>1. OnlyMoves(w)
    BY <1>2, PollMoves, AnswerMoves
  <2> QED BY <2>1 DEF OnlyMoves, ByClients, Idle, Kinds
<1>3. ASSUME NEW w \in Workers, NEW task, NEW pc, NEW copy, NEW old,
             Begin(w, task, pc, copy, old), task \in Kinds => w \in Clients
      PROVE  ByClients'
  BY <1>3 DEF Begin, ByClients, TypeInv, WorkersInv
<1>4. ASSUME NEW w \in Polls, BeginPoll(w) PROVE ByClients'
  <2>1. "poll" \notin Kinds
    BY DEF Kinds
  <2> QED BY <1>1, <1>3, <1>4, <2>1 DEF BeginPoll
<1>5. ASSUME NEW c \in Clients, Ask(c) PROVE ByClients'
  <2>1. PICK task, pc, copy, old : Begin(c, task, pc, copy, old)
    BY <1>5 DEF Ask, BeginRedeploy, BeginStop, BeginStart, BeginDelete, BeginSettings
  <2> QED BY <1>1, <1>3, <2>1
<1>6. CASE Restart
  BY <1>6 DEF Restart, ByClients, Idle, Kinds
<1>7. CASE Push \/ UNCHANGED vars
  BY <1>7 DEF Push, vars, ByClients
<1> QED BY <1>1, <1>2, <1>4, <1>5, <1>6, <1>7 DEF Next

LEMMA FlightAlone ==
  ASSUME TypeInv, OneFlight, ~Webhook, [Next]_vars
  PROVE  OneFlight'
<1>1. Polls \subseteq Workers /\ Clients \subseteq Workers
  BY DEF Workers
<1>2. ASSUME NEW w \in Workers, LoadGit(w) PROVE OneFlight'
  <2>1. \A v \in Workers : ~Flies(workers[v])
    BY <1>2 DEF LoadGit, OneFlight
  <2>2. \A v \in Workers \ {w} : workers'[v] = workers[v]
    BY <1>2 DEF LoadGit, Ends, TypeInv, WorkersInv
  <2>3. inFlight' \/ workers'[w] = Idle
    BY <1>2 DEF LoadGit, Ends, TypeInv, WorkersInv
  <2> QED BY <2>1, <2>2, <2>3 DEF OneFlight, Flies, Idle
<1>3. ASSUME NEW w \in Workers, Fetch(w) \/ Clone(w) \/ Mark(w) \/ Deploy(w) \/ Finish(w)
      PROVE  OneFlight'
  <2>1. Flies(workers[w])
    BY <1>3 DEF Fetch, Clone, Mark, Deploy, Finish, At, Flies
  <2>2. inFlight /\ \A v \in Workers \ {w} : ~Flies(workers[v])
    BY <2>1 DEF OneFlight
  <2>3. \A v \in Workers \ {w} : workers'[v] = workers[v]
    BY <1>3, PollMoves DEF Poll, OnlyMoves, BeginPoll, Begin, Fetch, Clone, Mark, Deploy,
       Finish, At, Idle
  <2>4. inFlight' \/ workers'[w] = Idle
    BY <1>3, <2>2 DEF Fetch, Clone, Mark, Deploy, Finish, Ends, TypeInv, WorkersInv
  <2> QED BY <2>2, <2>3, <2>4 DEF OneFlight, Flies, Idle
<1>4. ASSUME NEW w \in Workers, JoinPoll(w) \/ BeginPoll(w) \/ Answer(w) \/ Ask(w)
      PROVE  OneFlight'
  <2>1. UNCHANGED inFlight
    BY <1>4 DEF JoinPoll, BeginPoll, Answer, CloneAgain, ReadHash, Persist, CheckFirst,
       UndeployFirst, StoreFailure, DeployAgain, EndRedeploy, RevertHash, Take, Bring,
       EndStop, EndStart, LoadSettings, EndSettings, EndDelete, Ask, BeginRedeploy, BeginStop, BeginStart, BeginDelete, BeginSettings
  <2>2. \A v \in Workers : Flies(workers'[v]) => Flies(workers[v])
    <3>1. CASE JoinPoll(w)
      BY <3>1 DEF JoinPoll, Ends, TypeInv, WorkersInv, Flies, Idle
    <3>2. CASE BeginPoll(w)
      BY <3>2 DEF BeginPoll, Begin, TypeInv, WorkersInv, Flies
    <3>3. CASE Answer(w)
      BY <3>3, AnswerMoves DEF OnlyMoves, Flies, Idle, Kinds
    <3>4. CASE Ask(w)
      BY <3>4 DEF Ask, BeginRedeploy, BeginStop, BeginStart, BeginDelete, BeginSettings,
         Begin, TypeInv, WorkersInv, Flies
    <3> QED BY <1>4, <3>1, <3>2, <3>3, <3>4
  <2> QED BY <2>1, <2>2 DEF OneFlight
<1>5. CASE Restart
  BY <1>5 DEF Restart, OneFlight, Flies, Idle
<1>6. CASE Push \/ UNCHANGED vars
  BY <1>6 DEF Push, vars, OneFlight
<1> QED BY <1>1, <1>2, <1>3, <1>4, <1>5, <1>6 DEF Next, Poll

\* What a step must show when nobody else is at work.
LEMMA AloneForward ==
  ASSUME TypeInv, CalmInv, ~disturbed, NEW c \in Workers, OnlyMoves(c),
         workers[c].task \notin {"poll", "settings"},
         WritesBack(workers[c])', RedeployForward(workers[c])', Brought(workers[c])',
         FilesForward',
         stack' = "Active" /\ workers'[c].task \notin {"stop", "delete"} /\ hash' = head'
           => containers' = head'
  PROVE  Forward'
<1>1. \A v \in Workers \ {c} : workers'[v] = Idle
  BY AloneUnlessPolling DEF CalmInv, OnlyMoves
<1>2. ASSUME NEW v \in Workers \ {c}
      PROVE  /\ FlightForward(workers[v])' /\ AgainForward(workers[v])'
             /\ WritesBack(workers[v])' /\ RedeployForward(workers[v])' /\ Brought(workers[v])'
  BY <1>1 DEF FlightForward, AgainForward, Again, WritesBack, RedeployForward, Brought, Flies, Idle
<1>3. FlightForward(workers[c])' /\ AgainForward(workers[c])'
  BY DEF FlightForward, AgainForward, Again, Flies, OnlyMoves, Idle
<1>4. Runs'
  <2>1. \A w \in Workers : workers'[w].task # "settings"
    BY <1>1 DEF OnlyMoves, Idle
  <2> QED BY <2>1 DEF Runs, ActiveOrWill, NobodyTakes
<1> QED BY <1>2, <1>3, <1>4 DEF Forward

LEMMA RedeployGoesForward ==
  ASSUME TypeInv, CalmInv, ~disturbed, Forward, NEW c \in Workers,
         \/ CloneAgain(c) \/ ReadHash(c) \/ Persist(c) \/ CheckFirst(c) \/ UndeployFirst(c)
         \/ StoreFailure(c) \/ DeployAgain(c) \/ EndRedeploy(c) \/ RevertHash(c)
  PROVE  Forward'
<1>1. /\ OnlyMoves(c) /\ head' = head
  <2>1. Answer(c)
    BY DEF Answer
  <2> QED BY <2>1, AnswerMoves
<1>2. /\ workers[c].task = "redeploy" /\ workers[c] \in Worker /\ Holds(workers[c])
      /\ workers \in [Workers -> Worker]
  BY InHand DEF TypeInv, WorkersInv, CloneAgain, ReadHash, Persist, CheckFirst,
     UndeployFirst, StoreFailure, DeployAgain, EndRedeploy, RevertHash, At
<1>3. /\ stack # Absent /\ WorkflowExists /\ StackFits(workers[c])
      /\ workers[c].old <= hash /\ RedeployForward(workers[c]) /\ Brought(workers[c])
      /\ FilesForward
  BY <1>1, <1>2, AloneKnows DEF OnlyMoves, Forward, WritesBack
<1>4. /\ head \in Nat /\ hash \in Nat /\ files \in Nat /\ hash <= head
      /\ containers \in Int /\ containers <= head
      /\ workers[c].old \in Nat
  BY Numbers
<1>5. \A v \in Workers \ {c} : workers[v] = Idle
  BY <1>1, <1>2, AloneUnlessPolling DEF CalmInv, OnlyMoves
<1>6. stack = "Active" /\ hash = head => containers = head
  <2>1. NobodyTakes
    BY <1>2, <1>5 DEF NobodyTakes, Idle
  <2> QED BY <2>1 DEF Forward, Runs, ActiveOrWill
<1>7. CASE CloneAgain(c)
  <2>1. /\ UNCHANGED <<stack, hash, containers>>
        /\ \/ files' = files /\ workers'[c] = Idle
           \/ /\ files' = head /\ workers'[c].pc = "hash" /\ workers'[c].old = workers[c].old
    BY <1>2, <1>7 DEF CloneAgain, Ends, Goes, Worker
  <2>2. /\ WritesBack(workers[c])' /\ RedeployForward(workers[c])' /\ Brought(workers[c])'
    BY <1>1, <1>3, <2>1 DEF WritesBack, RedeployForward, Brought, Idle
  <2>3. FilesForward'
    BY <1>3, <1>4, <2>1 DEF FilesForward, FilesReach
  <2> QED BY <1>1, <1>2, <1>6, <2>1, <2>2, <2>3, AloneForward
<1>8. CASE ReadHash(c)
  <2>1. /\ UNCHANGED <<stack, hash, containers, files>>
        /\ \/ workers'[c] = Idle
           \/ /\ workers'[c].pc = "persist" /\ workers'[c].old = workers[c].old
              /\ workers'[c].new = head
    BY <1>2, <1>8 DEF ReadHash, Ends, Worker
  <2>2. /\ WritesBack(workers[c])' /\ RedeployForward(workers[c])' /\ Brought(workers[c])'
    BY <1>1, <1>3, <1>8, <2>1 DEF WritesBack, RedeployForward, Brought, Idle, ReadHash, At
  <2>3. FilesForward'
    BY <1>3, <2>1 DEF FilesForward, FilesReach
  <2> QED BY <1>1, <1>2, <1>6, <2>1, <2>2, <2>3, AloneForward
<1>9. CASE Persist(c)
  <2>1. /\ stack' = workers[c].stack /\ workers[c].stack \in InProgress
        /\ hash' = workers[c].new /\ workers[c].new = files /\ files' = files
        /\ workers'[c].pc = "check" /\ workers'[c].old = workers[c].old
        /\ workers[c].new \in Commits
    BY <1>2, <1>3, <1>9 DEF Persist, Update, At, Worker, Holds, HasNew, RedeployForward
  <2>2. stack' # "Active" /\ hash <= hash'
    BY <1>3, <2>1, ConstantsAssumption DEF InProgress, FilesForward, FilesReach, Commits, NoCommit
  <2>3. WritesBack(workers[c])'
    BY <1>3, <1>4, <2>1, <2>2 DEF WritesBack
  <2>4. /\ RedeployForward(workers[c])' /\ Brought(workers[c])'
    BY <2>1, <2>2 DEF RedeployForward, Brought
  <2>5. FilesForward'
    BY <1>4, <2>1 DEF FilesForward, FilesReach
  <2> QED BY <1>1, <1>2, <2>2, <2>3, <2>4, <2>5, AloneForward
<1>10. CASE CheckFirst(c) \/ UndeployFirst(c) \/ StoreFailure(c)
  <2>1. /\ UNCHANGED <<hash, files>> /\ stack # "Active"
        /\ stack' # "Active"
    <3>1. stack # "Active" /\ UNCHANGED <<hash, files>>
      BY <1>2, <1>3, <1>10 DEF CheckFirst, UndeployFirst, StoreFailure, At, RedeployForward
    <3>2. stack' # "Active"
      BY <1>10, <3>1 DEF CheckFirst, UndeployFirst, StoreFailure, Update, UndeploymentResult
    <3> QED BY <3>1, <3>2
  <2>2. \/ workers'[c] = Idle
        \/ /\ workers'[c].pc \in {"undeploy", "failed", "deploy"}
           /\ workers'[c].old = workers[c].old
    <3>1. Ends(c) \/ Goes(c, "deploy") \/ Goes(c, "undeploy") \/ Goes(c, "failed")
      BY <1>10 DEF CheckFirst, UndeployFirst, StoreFailure
    <3> QED BY <1>2, <3>1 DEF Ends, Goes, Worker
  <2>3. /\ WritesBack(workers[c])' /\ RedeployForward(workers[c])' /\ Brought(workers[c])'
        /\ FilesForward'
    BY <1>3, <2>1, <2>2 DEF WritesBack, RedeployForward, Brought, FilesForward, FilesReach, Idle
  <2> QED BY <1>1, <1>2, <2>1, <2>3, AloneForward
<1>11. CASE DeployAgain(c)
  <2>1. PICK ok \in BOOLEAN : DeployFiles(ok) /\ GoesOk(c, "end", ok)
    BY <1>11 DEF DeployAgain
  <2>2. /\ UNCHANGED <<stack, hash, files>> /\ stack # "Active"
        /\ workers'[c].pc = "end" /\ workers'[c].old = workers[c].old /\ workers'[c].ok = ok
    BY <1>2, <1>3, <1>11, <2>1 DEF DeployAgain, At, RedeployForward, GoesOk, Worker
  <2>3. ok => hash <= containers'
    BY <1>3, <2>1 DEF DeployFiles, FilesForward, FilesReach
  <2>4. Brought(workers[c])'
    <3>1. ok \/ workers'[c].ok = FALSE
      BY <2>2
    <3> QED BY <2>2, <2>3, <3>1 DEF Brought
  <2>5. WritesBack(workers[c])' /\ RedeployForward(workers[c])' /\ FilesForward'
    BY <1>3, <2>2 DEF WritesBack, RedeployForward, FilesForward, FilesReach
  <2> QED BY <1>1, <1>2, <2>2, <2>4, <2>5, AloneForward
<1>12. CASE EndRedeploy(c)
  <2>1. UNCHANGED <<hash, files, containers>>
    BY <1>12 DEF EndRedeploy
  <2>2. \/ workers[c].ok /\ workers'[c] = Idle
        \/ /\ stack' # "Active" /\ workers'[c].pc = "revert"
           /\ workers'[c].old = workers[c].old
    BY <1>2, <1>3, <1>12 DEF EndRedeploy, Update, DeploymentResult, Ends, Goes, Worker
  <2>3. workers[c].ok => hash <= containers
    BY <1>2, <1>3, <1>12 DEF EndRedeploy, At, Brought
  <2>4. /\ WritesBack(workers[c])' /\ RedeployForward(workers[c])' /\ Brought(workers[c])'
        /\ FilesForward'
    BY <1>3, <2>1, <2>2 DEF WritesBack, RedeployForward, Brought, FilesForward, FilesReach, Idle
  <2>5. stack' = "Active" /\ hash' = head' => containers' = head'
    BY <1>1, <1>4, <2>1, <2>2, <2>3
  <2> QED BY <1>1, <1>2, <2>4, <2>5, AloneForward
<1>13. CASE RevertHash(c)
  <2>1. /\ UNCHANGED <<stack, files, containers>> /\ stack # "Active"
        /\ workers'[c] = Idle /\ hash' = workers[c].old
    BY <1>2, <1>3, <1>13 DEF RevertHash, At, RedeployForward, Ends
  <2>2. /\ WritesBack(workers[c])' /\ RedeployForward(workers[c])' /\ Brought(workers[c])'
    BY <2>1 DEF WritesBack, RedeployForward, Brought, Idle
  <2>3. FilesForward'
    BY <1>3, <1>4, <2>1 DEF FilesForward, FilesReach
  <2> QED BY <1>1, <1>2, <2>1, <2>2, <2>3, AloneForward
<1> QED BY <1>7, <1>8, <1>9, <1>10, <1>11, <1>12, <1>13

LEMMA RequestGoesForward ==
  ASSUME TypeInv, CalmInv, ~disturbed, ~disturbed', Forward, NEW c \in Workers,
         Take(c) \/ Bring(c) \/ EndStop(c) \/ EndStart(c) \/ EndDelete(c)
  PROVE  Forward'
<1>1. /\ OnlyMoves(c) /\ head' = head
  <2>1. Answer(c)
    BY DEF Answer
  <2> QED BY <2>1, AnswerMoves
<1>2. /\ workers[c] \in Worker /\ workers \in [Workers -> Worker]
      /\ workers[c].task \in {"stop", "start", "delete"}
  BY InHand DEF TypeInv, WorkersInv, Take, Bring, EndStop, EndStart, EndDelete, At
<1>3. /\ stack # Absent /\ WorkflowExists /\ StackFits(workers[c])
      /\ Brought(workers[c]) /\ FilesForward
  BY <1>1, AloneKnows DEF OnlyMoves, Forward
<1>4. /\ head \in Nat /\ hash \in Nat /\ files \in Nat /\ hash <= head
      /\ containers \in Int /\ containers <= head
  BY Numbers
<1>5. WritesBack(workers[c])' /\ RedeployForward(workers[c])'
  BY <1>1, <1>2 DEF OnlyMoves, WritesBack, RedeployForward, Idle
<1>6. CASE Take(c)
  <2>1. /\ UNCHANGED <<stack, hash, files>> /\ workers[c].task \in {"stop", "delete"}
        /\ workers'[c].task = workers[c].task
    BY <1>2, <1>6 DEF Take, GoesOk, Worker
  <2>2. Brought(workers[c])' /\ FilesForward'
    BY <1>3, <2>1 DEF Brought, FilesForward, FilesReach
  <2> QED BY <1>1, <1>2, <1>5, <2>1, <2>2, AloneForward
<1>7. CASE Bring(c)
  <2>1. PICK ok \in BOOLEAN : DeployFiles(ok) /\ GoesOk(c, "end", ok)
    BY <1>7 DEF Bring
  <2>2. /\ UNCHANGED <<stack, hash, files>> /\ stack = "Inactive"
        /\ workers'[c].ok = ok
    BY <1>2, <1>3, <1>7, <2>1 DEF Bring, At, StackFits, GoesOk, Worker
  <2>3. ok => hash <= containers'
    BY <1>3, <2>1 DEF DeployFiles, FilesForward, FilesReach
  <2>4. Brought(workers[c])' /\ FilesForward'
    <3>1. ok \/ workers'[c].ok = FALSE
      BY <2>2
    <3> QED BY <1>3, <2>2, <2>3, <3>1 DEF Brought, FilesForward, FilesReach
  <2> QED BY <1>1, <1>2, <1>5, <2>2, <2>4, AloneForward
<1>8. CASE EndStop(c) \/ EndDelete(c)
  <2>1. workers'[c] = Idle /\ stack' # "Active"
    BY <1>2, <1>3, <1>8 DEF EndStop, EndDelete, Ends, Update, UndeploymentResult, Absent
  <2>2. Brought(workers[c])' /\ FilesForward'
    BY <1>3, <1>8, <2>1 DEF Brought, FilesForward, FilesReach, Idle, EndStop, EndDelete
  <2> QED BY <1>1, <1>2, <1>5, <2>1, <2>2, AloneForward
<1>9. CASE EndStart(c)
  <2>1. workers'[c] = Idle /\ UNCHANGED <<hash, files, containers>>
    BY <1>2, <1>9 DEF EndStart, Ends
  <2>2. stack' = "Active" => hash <= containers
    BY <1>3, <1>9 DEF EndStart, At, Update, DeploymentResult, Brought
  <2>3. Brought(workers[c])' /\ FilesForward'
    BY <1>3, <2>1 DEF Brought, FilesForward, FilesReach, Idle
  <2>4. stack' = "Active" /\ hash' = head' => containers' = head'
    BY <1>1, <1>4, <2>1, <2>2
  <2> QED BY <1>1, <1>2, <1>5, <2>3, <2>4, AloneForward
<1> QED BY <1>6, <1>7, <1>8, <1>9

\* The hash a change of settings reads is the recorded one.
LEMMA LoadSettingsForward ==
  ASSUME TypeInv, Forward, NEW c \in Workers, LoadSettings(c)
  PROVE  Forward'
<1>1. /\ OnlyMoves(c) /\ workers[c].task = "settings"
      /\ UNCHANGED <<head, stack, hash, files, containers>>
  <2>1. /\ Answer(c) /\ UNCHANGED <<head, stack, hash, files, containers>>
        /\ workers[c].task = "settings"
    BY DEF Answer, LoadSettings, At
  <2> QED BY <2>1, AnswerMoves
<1>2. \/ workers'[c] = Idle
      \/ /\ workers'[c].stack = workers[c].stack /\ workers'[c].old = hash
         /\ workers'[c].task = "settings"
  <2>1. workers \in [Workers -> Worker]
    BY DEF TypeInv, WorkersInv
  <2> QED BY <1>1, <2>1 DEF LoadSettings, Ends, Worker
<1>3. hash \in Nat
  BY Numbers
<1>4. ASSUME NEW v \in Workers
      PROVE  /\ FlightForward(workers[v])' /\ AgainForward(workers[v])'
             /\ WritesBack(workers[v])' /\ RedeployForward(workers[v])' /\ Brought(workers[v])'
  <2>1. CASE v = c
    BY <1>1, <1>2, <1>3, <2>1 DEF FlightForward, AgainForward, Again, WritesBack,
       RedeployForward, Brought, Flies, Idle
  <2>2. CASE v # c
    <3>1. workers'[v] = workers[v]
      BY <1>1, <2>2 DEF OnlyMoves
    <3>2. ~Again(workers[v])
      BY <1>1 DEF Forward, AgainForward, NoSettings
    <3>3. AgainForward(workers[v])'
      BY <3>1, <3>2 DEF AgainForward, Again, HasNew
    <3> QED BY <1>1, <3>1, <3>3 DEF Forward, FlightForward, FilesReach, WritesBack,
               RedeployForward, Brought, Flies, HasNew
  <2> QED BY <2>1, <2>2
<1>5. FilesForward' /\ Runs'
  <2>1. NobodyTakes' => NobodyTakes
    BY <1>1 DEF NobodyTakes, OnlyMoves
  <2>2. ActiveOrWill' => ActiveOrWill
    BY <1>1, <1>2 DEF ActiveOrWill, OnlyMoves, Idle
  <2> QED BY <1>1, <2>1, <2>2 DEF Forward, FilesForward, FilesReach, Runs
<1> QED BY <1>4, <1>5 DEF Forward

\* Settings written back take the hash no further, and polls in flight stay ahead of it.
LEMMA SettingsGoForward ==
  ASSUME TypeInv, CalmInv, ~disturbed, Forward, NEW c \in Workers, EndSettings(c)
  PROVE  Forward'
<1>1. /\ OnlyMoves(c) /\ head' = head /\ workers[c].task = "settings" /\ workers'[c] = Idle
      /\ UNCHANGED <<files, containers>>
  <2>1. Answer(c) /\ workers[c].task = "settings" /\ UNCHANGED <<files, containers>>
    BY DEF Answer, EndSettings, At
  <2>2. workers'[c] = Idle
    BY DEF EndSettings, Ends, TypeInv, WorkersInv
  <2> QED BY <2>1, <2>2, AnswerMoves
<1>2. WorkflowExists
  BY <1>1, AloneKnows DEF OnlyMoves
<1>3. stack' = workers[c].stack /\ hash' = workers[c].old /\ workers[c].old <= hash
  BY <1>1, <1>2 DEF EndSettings, Update, Forward, WritesBack
<1>4. /\ head \in Nat /\ hash \in Nat /\ files \in Nat /\ containers \in Int /\ hash <= head
      /\ \A w \in Workers : workers[w].old \in Nat
  BY Numbers
<1>5. ASSUME NEW v \in Workers \ {c}, workers[v] # Idle
      PROVE  workers[v].task = "poll"
  BY <1>1, <1>5, OneSettings DEF CalmInv, OnlyMoves
<1>6. ASSUME NEW v \in Workers
      PROVE  /\ FlightForward(workers[v])' /\ AgainForward(workers[v])'
             /\ WritesBack(workers[v])' /\ RedeployForward(workers[v])' /\ Brought(workers[v])'
  <2>1. CASE workers'[v] = Idle
    BY <2>1 DEF FlightForward, AgainForward, Again, WritesBack, RedeployForward, Brought, Flies, Idle
  <2>2. CASE workers'[v] # Idle
    <3>1. workers'[v] = workers[v] /\ workers[v].task = "poll"
      BY <1>1, <1>5, <2>2 DEF OnlyMoves
    <3>2. Flies(workers[v]) => hash' <= workers[v].old
      BY <1>3, <1>4 DEF Forward, FlightForward
    <3>3. FlightForward(workers[v])'
      BY <1>1, <3>1, <3>2 DEF Forward, FlightForward, FilesReach, Flies, HasNew
    <3>4. ~Again(workers[v])
      BY <1>1 DEF Forward, AgainForward, NoSettings
    <3>5. AgainForward(workers[v])'
      BY <3>1, <3>4 DEF AgainForward, Again, HasNew
    <3> QED BY <3>1, <3>3, <3>5 DEF WritesBack, RedeployForward, Brought
  <2> QED BY <2>1, <2>2
<1>7. FilesForward'
  BY <1>1, <1>3, <1>4 DEF Forward, FilesForward, FilesReach
<1>8. Runs'
  <2>1. NobodyTakes /\ \A w \in Workers : workers'[w].task # "settings"
    BY <1>1, <1>5 DEF NobodyTakes, OnlyMoves, Idle
  <2>2. stack' = "Active" /\ hash' = head' => ActiveOrWill /\ hash = head
    <3>1. hash' = head' => hash = head
      BY <1>1, <1>3, <1>4
    <3>2. stack' = "Active" => ActiveOrWill
      BY <1>1, <1>3 DEF ActiveOrWill
    <3> QED BY <3>1, <3>2
  <2> QED BY <1>1, <2>1, <2>2 DEF Forward, Runs, ActiveOrWill
<1> QED BY <1>6, <1>7, <1>8 DEF Forward

LEMMA PollGoesForward ==
  ASSUME TypeInv, CalmInv, ~disturbed, ~disturbed', OneFlight, Forward, NEW w \in Workers,
         Poll(w), ~BeginPoll(w)
  PROVE  Forward'
<1>1. /\ OnlyMoves(w) /\ workers[w].task = "poll" /\ head' = head
      /\ workers \in [Workers -> Worker] /\ workers[w] \in Worker
  BY PollMoves DEF TypeInv, WorkersInv
<1>2. ASSUME NEW v \in Workers \ {w}, workers[v] # Idle
      PROVE  workers[v].task \in {"poll", "settings"}
  BY <1>1, <1>2, HarmlessPairs DEF CalmInv, Apart, OnlyMoves
<1>3. /\ head \in Nat /\ hash \in Nat /\ files \in Nat /\ containers \in Int
      /\ hash <= head /\ containers <= head
      /\ \A v \in Workers : /\ workers[v].old \in Nat /\ workers[v].new \in Nat
                            /\ workers[v].new <= head /\ workers[v].old <= head
  BY Numbers
<1>4. /\ FlightForward(workers[w]) /\ AgainForward(workers[w])
      /\ FilesForward /\ Runs /\ NobodyTakes
      /\ \A v \in Workers : /\ FlightForward(workers[v]) /\ AgainForward(workers[v])
                            /\ WritesBack(workers[v])
  BY <1>1, <1>2 DEF Forward, NobodyTakes, Idle
\* What this step must show of the worker itself and of the places.
<1>5. ASSUME FlightForward(workers[w])', AgainForward(workers[w])', FilesForward',
             hash' \in Nat, hash <= hash',
             \/ UNCHANGED <<stack, hash, files, containers>>
             \/ \A v \in Workers \ {w} : ~Flies(workers[v]),
             \/ stack' # "Active" /\ hash' = hash /\ containers' = containers
             \/ stack' = stack /\ hash' = hash /\ containers' = containers
             \/ stack' # "Active" /\ NoSettings
             \/ hash' # head
             \/ containers' = head
      PROVE  Forward'
  <2>1. ASSUME NEW v \in Workers \ {w}
        PROVE  /\ FlightForward(workers[v])' /\ AgainForward(workers[v])'
               /\ WritesBack(workers[v])' /\ RedeployForward(workers[v])' /\ Brought(workers[v])'
    <3>1. workers'[v] = workers[v] /\ (workers[v] = Idle \/ workers[v].task \in {"poll", "settings"})
      BY <1>1, <1>2 DEF OnlyMoves
    <3>2. FlightForward(workers[v])' /\ AgainForward(workers[v])'
      <4>1. CASE UNCHANGED <<stack, hash, files, containers>>
        <5>1. NoSettings => NoSettings'
          BY <1>1 DEF NoSettings, OnlyMoves, Idle
        <5>2. FlightForward(workers[v]) /\ AgainForward(workers[v])
          BY <1>4
        <5>3. FlightForward(workers[v])'
          BY <3>1, <4>1, <5>2 DEF FlightForward, FilesReach, Flies, HasNew
        <5>4. AgainForward(workers[v])'
          BY <3>1, <4>1, <5>1, <5>2 DEF AgainForward, Again, HasNew
        <5> QED BY <5>3, <5>4
      <4>2. CASE ~Flies(workers[v])
        BY <3>1, <4>2 DEF FlightForward, AgainForward, Again, Flies, HasNew
      <4> QED BY <1>5, <4>1, <4>2
    <3>3. WritesBack(workers[v])'
      BY <1>3, <1>4, <1>5, <3>1 DEF WritesBack
    <3> QED BY <3>1, <3>2, <3>3 DEF RedeployForward, Brought, Idle
  <2>2. WritesBack(workers[w])' /\ RedeployForward(workers[w])' /\ Brought(workers[w])'
    BY <1>1 DEF WritesBack, RedeployForward, Brought, OnlyMoves, Idle
  <2>3. Runs'
    <3>1. \A v \in Workers : workers'[v].task = "settings" => workers'[v] = workers[v]
      BY <1>1 DEF OnlyMoves, Idle
    <3>3. CASE stack' # "Active" /\ hash' = hash /\ containers' = containers
      BY <1>1, <1>4, <3>1, <3>3 DEF Runs, ActiveOrWill
    <3>4. CASE stack' = stack /\ hash' = hash /\ containers' = containers
      BY <1>1, <1>4, <3>1, <3>4 DEF Runs, ActiveOrWill
    <3>5. CASE stack' # "Active" /\ NoSettings
      BY <3>1, <3>5 DEF Runs, ActiveOrWill, NoSettings
    <3> QED BY <1>1, <1>5, <3>3, <3>4, <3>5 DEF Runs
  <2> QED BY <1>5, <2>1, <2>2, <2>3 DEF Forward
<1>6. ASSUME Flies(workers[w]) PROVE \A v \in Workers \ {w} : ~Flies(workers[v])
  BY <1>6 DEF OneFlight
\* A flight that brings what is recorded goes on doing so, among the same workers.
<1>7. ASSUME workers'[w].old = workers[w].old, workers'[w].new = workers[w].new,
             HasNew(workers[w]), workers'[w].pc \in {"deploy", "end"} => stack' # "Active"
             \/ workers[w].new # workers[w].old
      PROVE  AgainForward(workers[w])'
  <2>1. NoSettings => NoSettings'
    BY <1>1 DEF NoSettings, OnlyMoves, Idle
  <2> QED BY <1>1, <1>4, <1>7, <2>1 DEF AgainForward, Again
<1>8. CASE JoinPoll(w) \/ LoadGit(w) \/ Fetch(w)
  <2>1. UNCHANGED <<stack, hash, files, containers>>
    BY <1>8 DEF JoinPoll, LoadGit, Fetch
  <2>2. \/ workers'[w] = Idle
        \/ workers'[w].pc = "fetch" /\ workers'[w].old = hash
        \/ /\ workers'[w].pc = "clone" /\ workers[w].pc = "fetch"
           /\ workers'[w].old = workers[w].old /\ workers'[w].new = head
           /\ head # workers[w].old
        \/ /\ workers'[w].pc = "mark" /\ workers[w].pc = "fetch"
           /\ workers'[w].old = workers[w].old /\ workers'[w].new = head
           /\ head = workers[w].old /\ NoSettings
    <3>1. CASE JoinPoll(w)
      BY <1>1, <3>1 DEF JoinPoll, Ends
    <3>2. CASE LoadGit(w)
      BY <1>1, <3>2 DEF LoadGit, Ends, Worker
    <3>3. CASE Fetch(w)
      <4>1. \/ workers' = [workers EXCEPT ![w] = Idle]
            \/ /\ head # workers[w].old
               /\ workers' = [workers EXCEPT ![w].pc = "clone", ![w].new = head]
            \/ /\ head = workers[w].old /\ NoSettings
               /\ workers' = [workers EXCEPT ![w].pc = "mark", ![w].new = head]
        BY <3>3, Zenon DEF Fetch, Ends, NoSettings
      <4>2. workers[w].pc = "fetch"
        BY <3>3 DEF Fetch, At
      <4> QED BY <1>1, <4>1, <4>2 DEF Worker
    <3> QED BY <1>8, <3>1, <3>2, <3>3
  <2>3. FlightForward(workers[w])'
    BY <1>1, <1>3, <1>4, <2>1, <2>2 DEF FlightForward, FilesForward, FilesReach, Flies,
       HasNew, Idle, OnlyMoves
  <2>4. AgainForward(workers[w])'
    <3>1. NoSettings => NoSettings'
      BY <1>1 DEF NoSettings, OnlyMoves, Idle
    <3> QED BY <2>2, <3>1 DEF AgainForward, Again, HasNew, Idle
  <2> QED BY <1>3, <1>4, <1>5, <2>1, <2>3, <2>4 DEF FilesForward, FilesReach
<1>9. CASE Clone(w)
  <2>1. /\ UNCHANGED <<stack, hash, containers>> /\ files' \in {files, NoCommit, head}
        /\ workers[w].pc = "clone"
        /\ \/ workers'[w] = Idle
           \/ /\ files' = head /\ workers'[w].pc = "mark"
              /\ workers'[w].old = workers[w].old /\ workers'[w].new = workers[w].new
    BY <1>1, <1>9 DEF Clone, At, Ends, Goes, Worker
  <2>2. FlightForward(workers[w])'
    BY <1>1, <1>3, <1>4, <2>1 DEF FlightForward, FilesReach, Flies, HasNew, Idle, OnlyMoves
  <2>3. AgainForward(workers[w])'
    BY <1>1, <1>7, <2>1 DEF HasNew, AgainForward, Again, Idle
  <2>4. FilesForward'
    BY <1>3, <1>4, <2>1 DEF FilesForward, FilesReach
  <2> QED BY <1>1, <1>3, <1>5, <1>6, <2>1, <2>2, <2>3, <2>4 DEF Flies
<1>10. CASE Mark(w)
  <2>1. /\ stack' # "Active" /\ UNCHANGED <<hash, files, containers>>
        /\ workers[w].pc = "mark"
        /\ \/ workers'[w] = Idle
           \/ /\ workers'[w].pc = "deploy"
              /\ workers'[w].old = workers[w].old /\ workers'[w].new = workers[w].new
    BY <1>1, <1>10 DEF Mark, At, Update, Deploying, Ends, Worker
  <2>2. FlightForward(workers[w])'
    BY <1>1, <1>4, <2>1 DEF FlightForward, FilesReach, Flies, HasNew, Idle, OnlyMoves
  <2>3. AgainForward(workers[w])'
    BY <1>1, <1>7, <2>1 DEF HasNew, AgainForward, Again, Idle
  <2> QED BY <1>1, <1>3, <1>4, <1>5, <1>6, <2>1, <2>2, <2>3 DEF FilesForward, FilesReach, Flies
<1>11. CASE Deploy(w)
  <2>1. PICK ok \in BOOLEAN : DeployFiles(ok) /\ GoesOk(w, "end", ok)
    BY <1>11 DEF Deploy
  <2>2. /\ UNCHANGED <<stack, hash, files>> /\ workers[w].pc = "deploy"
        /\ workers'[w].pc = "end" /\ workers'[w].ok = ok /\ workers'[w].task = "poll"
        /\ workers'[w].old = workers[w].old /\ workers'[w].new = workers[w].new
    BY <1>1, <1>11, <2>1 DEF Deploy, At, GoesOk, Worker
  <2>3. /\ hash <= workers[w].old /\ workers[w].old <= workers[w].new
        /\ FilesReach(workers[w].new) /\ FilesReach(workers[w].old)
    BY <1>1, <1>4, <2>2 DEF FlightForward, Flies, HasNew
  <2>4. ok => workers[w].new <= containers'
    BY <2>1, <2>3 DEF DeployFiles, FilesReach
  <2>5. FlightForward(workers[w])'
    <3>1. ok \/ workers'[w].ok = FALSE
      BY <2>2
    <3> QED BY <2>2, <2>3, <2>4, <3>1 DEF FlightForward, FilesReach, Flies
  <2>6. AgainForward(workers[w]) /\ HasNew(workers[w])
    BY <1>1, <1>4, <2>2 DEF HasNew
  <2>7. workers[w].new = workers[w].old => NoSettings /\ stack' # "Active"
    BY <1>1, <2>2, <2>6 DEF AgainForward, Again
  <2>8. AgainForward(workers[w])'
    BY <1>7, <2>2, <2>6, <2>7
  <2>9. workers[w].new # workers[w].old => hash' # head
    BY <1>3, <2>2, <2>3
  <2>10. FilesForward'
    BY <1>4, <2>2 DEF FilesForward, FilesReach
  <2>11. \A v \in Workers \ {w} : ~Flies(workers[v])
    BY <1>1, <1>6, <2>2 DEF Flies
  <2>12. hash' \in Nat /\ hash <= hash'
    BY <1>3, <2>2
  <2> QED BY <1>5, <2>5, <2>7, <2>8, <2>9, <2>10, <2>11, <2>12
<1>12. CASE Finish(w)
  <2>1. /\ UNCHANGED <<files, containers>> /\ workers[w].pc = "end" /\ workers'[w] = Idle
        /\ \/ stack' = stack /\ hash' = hash
           \/ stack' # "Active" /\ hash' = hash
           \/ workers[w].ok /\ hash' = workers[w].new
    BY <1>1, <1>12 DEF Finish, At, Update, DeploymentResult, Ends
  <2>2. /\ hash <= workers[w].old /\ workers[w].old <= workers[w].new
        /\ FilesReach(workers[w].new)
        /\ workers[w].ok => workers[w].new <= containers
    BY <1>1, <1>4, <2>1 DEF FlightForward, Flies, HasNew
  <2>3. FlightForward(workers[w])' /\ AgainForward(workers[w])'
    BY <2>1 DEF FlightForward, AgainForward, Again, Flies, Idle
  <2>4. /\ hash' \in Nat /\ hash <= hash' /\ FilesForward'
    BY <1>3, <1>4, <2>1, <2>2 DEF FilesForward, FilesReach
  <2>5. \/ stack' # "Active" /\ hash' = hash /\ containers' = containers
        \/ stack' = stack /\ hash' = hash /\ containers' = containers
        \/ hash' # head
        \/ containers' = head
    BY <1>3, <2>1, <2>2
  <2> QED BY <1>1, <1>5, <1>6, <2>1, <2>3, <2>4, <2>5 DEF Flies
<1> QED BY <1>8, <1>9, <1>10, <1>11, <1>12 DEF Poll

\* Who begins changes nothing, and holds the stack and the hash as they are.
LEMMA BeginForward ==
  ASSUME TypeInv, Forward, ~disturbed', NEW w \in Workers, BeginPoll(w) \/ Ask(w)
  PROVE  Forward'
<1>1. PICK task, pc, copy, old :
        /\ task \in Kinds \cup {"poll"}
        /\ Begin(w, task, pc, copy, old)
        /\ task = "poll" => pc = "load"
        /\ task = "settings" => copy = stack /\ old = NoCommit
        /\ task = "start" => pc = "deploy"
        /\ task = "redeploy" => pc = "clone" /\ old = hash
  BY DEF BeginPoll, Ask, BeginRedeploy, BeginStop, BeginStart, BeginDelete, BeginSettings,
     Kinds
<1>2. UNCHANGED <<head, stack, hash, files, containers>>
  BY DEF BeginPoll, Ask, BeginRedeploy, BeginStop, BeginStart, BeginDelete, BeginSettings
<1>3. /\ workers'[w].task = task /\ workers'[w].pc = pc /\ workers'[w].stack = copy
      /\ workers'[w].old = old
      /\ workers[w] = Idle /\ \A v \in Workers \ {w} : workers'[v] = workers[v]
  BY <1>1 DEF Begin, TypeInv, WorkersInv
<1>4. hash \in Nat
  BY Numbers
<1>5. /\ FlightForward(workers[w])' /\ AgainForward(workers[w])'
      /\ WritesBack(workers[w])' /\ RedeployForward(workers[w])' /\ Brought(workers[w])'
  BY <1>1, <1>2, <1>3, <1>4 DEF FlightForward, AgainForward, Again, WritesBack,
     RedeployForward, Brought, Flies, HasNew, NoCommit
<1>6. ASSUME NEW v \in Workers \ {w}
      PROVE  /\ FlightForward(workers[v])' /\ AgainForward(workers[v])'
             /\ WritesBack(workers[v])' /\ RedeployForward(workers[v])' /\ Brought(workers[v])'
  <2>1. Again(workers[v]) => task # "settings"
    <3>1. disturbed' = (disturbed \/ Meets(w, task))
      BY <1>1 DEF Begin
    <3>2. Again(workers[v]) => Forced(v) /\ workers[v] # Idle
      BY InHand, ConstantsAssumption DEF Again, Forced, Holds, Idle, Commits, NoCommit
    <3> QED BY <3>1, <3>2 DEF Meets
  <2>2. NoSettings /\ task # "settings" => NoSettings'
    BY <1>3 DEF NoSettings
  <2>3. AgainForward(workers[v])'
    BY <1>2, <1>3, <2>1, <2>2 DEF Forward, AgainForward, Again, HasNew
  <2> QED BY <1>2, <1>3, <2>3 DEF Forward, FlightForward, FilesReach, WritesBack,
             RedeployForward, Brought, Flies, HasNew
<1>7. FilesForward' /\ Runs'
  <2>1. NobodyTakes' => NobodyTakes
    BY <1>3 DEF NobodyTakes, Idle
  <2>2. ActiveOrWill' => ActiveOrWill
    BY <1>1, <1>2, <1>3 DEF ActiveOrWill
  <2> QED BY <1>2, <2>1, <2>2 DEF Forward, FilesForward, FilesReach, Runs
<1> QED BY <1>5, <1>6, <1>7 DEF Forward

LEMMA PushForward ==
  ASSUME TypeInv, ByClients, Forward, Push, ~pushed'
  PROVE  Forward'
<1>1. /\ head' = head + 1 /\ UNCHANGED <<stack, hash, files, containers, workers>>
      /\ \A c \in Clients : ~At(c, "redeploy", "hash")
  BY DEF Push
<1>2. head \in Nat /\ hash \in Nat /\ hash <= head
  BY Numbers
<1>3. ASSUME NEW w \in Workers
      PROVE  /\ FlightForward(workers[w])' /\ AgainForward(workers[w])'
             /\ WritesBack(workers[w])' /\ RedeployForward(workers[w])' /\ Brought(workers[w])'
  <2>1. ~At(w, "redeploy", "hash")
    BY <1>1 DEF ByClients, At, Kinds
  <2>2. RedeployForward(workers[w])'
    BY <1>1, <2>1 DEF Forward, RedeployForward, At
  <2> QED BY <1>1, <2>2 DEF Forward, FlightForward, FilesReach, AgainForward, Again,
             NoSettings, WritesBack, Brought, Flies, HasNew
<1>4. FilesForward'
  BY <1>1 DEF Forward, FilesForward, FilesReach
<1>5. Runs'
  <2>1. hash' # head'
    BY <1>1, <1>2
  <2> QED BY <2>1 DEF Runs
<1> QED BY <1>3, <1>4, <1>5 DEF Forward

LEMMA RestartForward ==
  ASSUME TypeInv, Forward, Restart, ~disturbed'
  PROVE  Forward'
<1>1. /\ UNCHANGED <<head, hash, containers>> /\ files' \in {files, NoCommit}
      /\ \A w \in Workers : workers'[w] = Idle
      /\ stack' = "Active" => stack = "Active"
      /\ \A w \in Interrupted : workers[w].task \in {"poll", "settings", "redeploy"}
  BY DEF Restart
<1>2. NobodyTakes
  BY <1>1 DEF NobodyTakes, Interrupted, Idle
<1>3. FilesForward' /\ Runs'
  BY <1>1, <1>2 DEF Forward, FilesForward, FilesReach, Runs, ActiveOrWill, Idle
<1> QED BY <1>1, <1>3 DEF Forward, FlightForward, AgainForward, Again, WritesBack,
           RedeployForward, Brought, Flies, Idle

LEMMA NextForward ==
  ASSUME TypeInv, CalmInv, OneFlight, ByClients, ForwardInv, [Next]_vars
  PROVE  ForwardInv'
<1> SUFFICES ASSUME ~disturbed', ~pushed' PROVE Forward'
  BY DEF ForwardInv
<1>1. Polls \subseteq Workers /\ Clients \subseteq Workers
  BY DEF Workers
<1>2. ASSUME NEW w \in Workers, BeginPoll(w) \/ Ask(w) PROVE Forward'
  <2>1. ~disturbed /\ ~pushed
    <3>1. UNCHANGED pushed /\ \E task, pc, copy, old : Begin(w, task, pc, copy, old)
      BY <1>2 DEF BeginPoll, Ask, BeginRedeploy, BeginStop, BeginStart, BeginDelete,
         BeginSettings
    <3> QED BY <3>1 DEF Begin
  <2> QED BY <1>2, <2>1, BeginForward DEF ForwardInv
<1>3. ASSUME NEW w \in Workers, Poll(w), ~BeginPoll(w) PROVE Forward'
  <2>1. ~disturbed /\ ~pushed
    BY <1>3, PollMoves
  <2> QED BY <1>3, <2>1, PollGoesForward DEF ForwardInv
<1>4. ASSUME NEW c \in Workers, Answer(c) PROVE Forward'
  <2>1. ~disturbed /\ ~pushed
    <3>1. Take(c) => ~disturbed
      BY DEF Take
    <3> QED BY <1>4, <3>1, AnswerMoves
  <2>2. Forward
    BY <2>1 DEF ForwardInv
  <2> QED BY <1>4, <2>1, <2>2, RedeployGoesForward, RequestGoesForward,
         LoadSettingsForward, SettingsGoForward DEF Answer
<1>5. CASE Push
  <2>1. ~disturbed /\ ~pushed
    BY <1>5 DEF Push
  <2> QED BY <1>5, <2>1, PushForward DEF ForwardInv
<1>6. CASE Restart
  <2>1. ~disturbed /\ ~pushed
    BY <1>6 DEF Restart
  <2> QED BY <1>6, <2>1, RestartForward DEF ForwardInv
<1>7. CASE UNCHANGED vars
  BY <1>7 DEF vars, ForwardInv, Forward, FlightForward, AgainForward, Again, NoSettings,
     WritesBack, RedeployForward, Brought, Flies, HasNew, FilesForward, FilesReach, Runs,
     ActiveOrWill, NobodyTakes
<1> QED BY <1>1, <1>2, <1>3, <1>4, <1>5, <1>6, <1>7 DEF Next

LEMMA ForwardHolds ==
  ASSUME ~Webhook
  PROVE  Spec => [](TypeInv /\ ForwardInv)
<1>1. Init => TypeInv /\ CalmInv /\ OneFlight /\ ByClients /\ ForwardInv
  BY InitTypes, InitCalm, InitForward
<1>2. TypeInv /\ CalmInv /\ OneFlight /\ ByClients /\ ForwardInv /\ [Next]_vars
        => (TypeInv /\ CalmInv /\ OneFlight /\ ByClients /\ ForwardInv)'
  BY NextTypes, NextCalm, ClientsAsk, FlightAlone, NextForward
<1> QED BY <1>1, <1>2, PTL DEF Spec

\* Polls of a source have a single flight: an active stack whose recorded commit is the
\* latest runs that commit, for every number of polls, requests, commits and restarts.
THEOREM RecordedCommitsRun ==
  ASSUME ~Webhook
  PROVE  Spec => []NothingSkipped
<1>1. TypeInv /\ ForwardInv => NothingSkipped
  BY DEF ForwardInv, Forward, Runs, ActiveOrWill, NobodyTakes, NothingSkipped, AtRest, Idle
<1> QED BY <1>1, ForwardHolds, PTL
=============================================================================
