---------------------- MODULE ContainerReplacementProofs ----------------------
(***************************************************************************)
(* What holds of container replacements for any number of tabs, of server  *)
(* requests, of names and of networks, and for any bound on the number of  *)
(* replacements and of faults: the types with the freshness of             *)
(* identifiers, that a service keeps a running container, that somebody    *)
(* serves while nothing has failed, that a failed replacement puts back    *)
(* what it took down, and that of two that meet neither removes an old     *)
(* container that has no successor.  All but the types are said as long as *)
(* no container was stopped that the daemon removes then (KeptAtStop).     *)
(*                                                                         *)
(* One lemma per step of a replacement says at once what the step does to  *)
(* the replacement's own record (SagaShape), to the containers             *)
(* (TableShape), to the containers that serve (ServeShape), to the place   *)
(* of a replacement left alone (Tracks) and to another replacement that it *)
(* meets (Meets); the invariants then follow from these and never open a   *)
(* step again.                                                             *)
(***************************************************************************)
EXTENDS ContainerReplacement, FiniteSetTheorems, TLAPS

-----------------------------------------------------------------------------
(* Types and fresh identifiers.                                            *)

\* A replacement that has yet to create its container.
PendingPC == {"form", "stop", "rename", "disconnect", "create"}
\* A replacement that has a new container.
NewPC == {"start", "connect", "settings", "removeOld", "dropNew", "undoStop",
          "undoRemove"}

Pending == {s \in Actors : sagas[s].pc \in PendingPC}

\* Each replacement takes one identifier, so that they suffice; the new
\* container of a replacement is nobody else's and younger than its old one.
FreshInv ==
    /\ IsFiniteSet(Pending)
    /\ nextId + Cardinality(Pending) <= begun + 2
    /\ nextId >= 2
    /\ \A c \in DOMAIN containers : c < nextId
    /\ \A s \in Actors : sagas[s].old < nextId /\ sagas[s].new < nextId
    /\ \A s \in Actors : sagas[s].pc \in PendingPC => sagas[s].new = None
    /\ \A s \in Actors : sagas[s].pc \in NewPC => sagas[s].new # None
    /\ \A s \in Actors : sagas[s].new # None => sagas[s].old < sagas[s].new
    /\ \A s, t \in Actors : s # t /\ sagas[s].new = sagas[t].new => sagas[s].new = None

Sound == TypeOK /\ FreshInv

\* Containers that the daemon removes at their stop, and those stopped.
Tagged == autoRemove \subseteq Ids /\ doomed \subseteq autoRemove

\* The replacement may still remove its new container.
Fragile(s) ==
    \/ s \in Tabs /\ sagas[s].pc \in {"start", "dropNew"}
    \/ s \in Requests /\ sagas[s].pc \in {"connect", "start", "undoStop", "undoRemove"}

\* The new container has been started, and stays.
Passed(s) ==
    \/ s \in Tabs /\ sagas[s].pc \in {"settings", "connect", "removeOld"}
    \/ s \in Requests /\ sagas[s].pc \in {"removeOld", "settings"}

\* A recreation that stopped its old container and has yet to start one.
Owing == {"rename", "disconnect", "create", "connect", "start", "undoStop",
          "undoRemove", "undoRename", "undoConnect", "undoStart"}

Table(cs) == DOMAIN cs \subseteq Ids /\ \A c \in DOMAIN cs : cs[c] \in Container

Unique(cs) == \A c, d \in DOMAIN cs : cs[c].name = cs[d].name => c = d

\* The fields that no step of a replacement changes.
Same(r, q) == /\ r.old = q.old /\ r.alone = q.alone /\ r.was = q.was
              /\ r.nets = q.nets /\ r.stop = q.stop

\* What every step of a replacement does to the replacement itself.
SagaShape(s) ==
    /\ sagas[s].pc \notin AtRest /\ sagas'[s].pc # "idle"
    /\ sagas' = [sagas EXCEPT ![s] = sagas'[s]]
    /\ sagas'[s] \in Saga
    /\ Same(sagas'[s], sagas[s])
    /\ sagas[s].pc # "form" => sagas'[s].name = sagas[s].name
    /\ begun' = begun
    /\ faults' \in {faults, faults + 1} /\ faults' \in 0..MaxFaults
    /\ late' \subseteq Ids \X Networks
    /\ (late = {} /\ late' # {}) => sagas'[s].pc \in {"half", "died"}
    /\ sagas'[s].pc \in PendingPC => sagas[s].pc \in PendingPC
    /\ \/ nextId' = nextId /\ sagas'[s].new = sagas[s].new
       \/ /\ nextId' = nextId + 1
          /\ sagas[s].pc = "create" /\ sagas'[s].pc \notin PendingPC
          /\ sagas'[s].new \in {None, nextId}
    /\ Fragile(s)' => Fragile(s) \/ sagas'[s].new = nextId
    /\ sagas'[s].pc \in NewPC => sagas[s].pc \in NewPC \/ sagas'[s].new = nextId

\* What it does to the containers.
TableShape(s) ==
    /\ Table(containers')
    /\ DOMAIN containers' \subseteq DOMAIN containers \cup {nextId}
    /\ nextId \in DOMAIN containers' => nextId' = nextId + 1
    /\ \A c \in DOMAIN containers :
          \/ c \in DOMAIN containers' /\ (containers[c].ran => containers'[c].ran)
          \/ Fragile(s) /\ c = sagas[s].new
          \/ Passed(s) /\ c = sagas[s].old
    /\ Unique(containers) => Unique(containers')

\* A container stops only to be replaced or undone, and what a recreation has
\* stopped it starts again unless it has started another one.
ServeShape(s) ==
    /\ Passed(s)' => \/ Passed(s)
                     \/ /\ sagas[s].pc = "start"
                        /\ sagas[s].new \in DOMAIN containers
                        /\ containers' = Started(containers, sagas[s].new)
    /\ s \in Requests =>
       /\ \A c \in DOMAIN containers \cap DOMAIN containers' :
             containers[c].running =>
                \/ containers'[c].running
                \/ c = sagas[s].old /\ (faults' # 0 \/ sagas'[s].pc \in Owing)
                \/ c = sagas[s].new /\ Fragile(s)
       /\ sagas[s].pc \in Owing => 
          \/ faults' # 0 \/ sagas'[s].pc \in Owing \/ (sagas[s].pc = "start" /\ Passed(s)')
          \/ /\ sagas[s].old \in DOMAIN containers
                => sagas[s].old \in DOMAIN containers' /\ containers'[sagas[s].old].running

Shape(s) == SagaShape(s) /\ TableShape(s) /\ ServeShape(s)

\* Of a replacement that nobody else disturbs, by how far it is: where the old
\* container is and under which name, and the new one.
Is(r, cs, n) == r.old \in DOMAIN cs /\ cs[r.old].name = n
New(r, cs) == r.new \in DOMAIN cs /\ cs[r.new].name = r.was

Back(s, r, cs) ==
    /\ Is(r, cs, r.was)
    /\ s \in Requests => /\ r.stop => cs[r.old].running
                         /\ r.nets \subseteq cs[r.old].nets
    /\ r.new = None \/ r.new \notin DOMAIN cs

Made == {"start", "connect", "settings", "removeOld"}

Where(s, r, cs) ==
    /\ r.pc \in {"form", "stop", "rename"} => Is(r, cs, r.was)
    /\ r.pc \in {"form", "stop", "rename", "disconnect", "create"} => r.new = None
    /\ s \in Requests /\ r.pc \in {"stop", "rename"} => cs[r.old].nets = r.nets
    /\ s \in Requests /\ r.pc = "stop" => (r.stop <=> cs[r.old].running)
    /\ r.pc \in {"disconnect", "create", "renameBack"} =>
          Is(r, cs, Old(r.was)) /\ ~NameTaken(cs, r.was)
    /\ r.pc \in {"dropNew", "undoStop", "undoRemove"} => Is(r, cs, Old(r.was)) /\ New(r, cs)
    /\ r.pc \in Made /\ (s \in Requests => r.pc # "settings") =>
          /\ Is(r, cs, Old(r.was)) /\ New(r, cs)
          /\ r.nets \ r.todo \subseteq cs[r.new].nets
          /\ (s \in Requests /\ r.pc = "start") \/ r.pc = "removeOld" => r.todo = {}
          /\ (s \in Tabs /\ r.pc # "start") \/ r.pc = "removeOld" => cs[r.new].running
    /\ r.pc = "undoRemove" => ~cs[r.new].running
    /\ r.pc \in {"renameBack", "undoRename", "undoConnect", "undoStart"} =>
          r.new = None \/ r.new \notin DOMAIN cs
    /\ r.pc = "undoRename" =>
          \/ Is(r, cs, r.was)
          \/ (Is(r, cs, Old(r.was)) /\ ~NameTaken(cs, r.was))
    /\ r.pc = "undoConnect" => Is(r, cs, r.was) /\ r.nets \ r.todo \subseteq cs[r.old].nets
    /\ r.pc = "undoStart" => Is(r, cs, r.was) /\ r.nets \subseteq cs[r.old].nets
    /\ r.pc = "failed" => Back(s, r, cs)

Placed(s, r, cs) ==
    (/\ r.pc \in Undoing \cup {"failed"} => r.clean
     /\ r.old # None
     /\ r.pc = "form" \/ r.name = r.was)
    => Where(s, r, cs)

\* What the steps of s keep about itself.
Tracks(s) ==
    Unique(containers) /\ Placed(s, sagas[s], containers)
        => Placed(s, sagas'[s], containers')

\* The replacement has made its new container and not yet given up the old one.
Replacing(s, r) == r.pc \in Made /\ (s \in Requests => r.pc # "settings")

Successor(s, r, cs) ==
    /\ New(r, cs)
    /\ r.nets \ r.todo \subseteq cs[r.new].nets
    /\ (s \in Requests /\ r.pc = "start") \/ r.pc = "removeOld" => r.todo = {}
    /\ (s \in Tabs /\ r.pc # "start") \/ r.pc = "removeOld" => cs[r.new].ran

Gave(s, r, cs) ==
    Replacing(s, r) /\ r.old # None /\ r.name = r.was => Successor(s, r, cs)

\* Before it has a new container, or once it has none any more.
Idling == {"form", "stop", "rename", "undoRename", "undoConnect", "undoStart"}

\* No container goes, or loses its name or a network.
Gently(cs, ds) ==
    \A c \in DOMAIN cs : /\ c \in DOMAIN ds
                         /\ ds[c].name = cs[c].name
                         /\ cs[c].nets \subseteq ds[c].nets
                         /\ cs[c].ran => ds[c].ran

\* What a step of s does to the containers of others.
Frame(s) ==
    \A c \in DOMAIN containers : c \notin {sagas[s].old, sagas[s].new} =>
        c \in DOMAIN containers' /\ containers'[c] = containers[c]

\* What it does to its own successor, and to the others meanwhile.
Gives(s) ==
    /\ Gave(s, sagas[s], containers) => Gave(s, sagas'[s], containers')
    /\ Replacing(s, sagas'[s]) /\ sagas[s].pc # "create" =>
          /\ Replacing(s, sagas[s])
          /\ \A c \in DOMAIN containers : c # sagas[s].new =>
                c \in DOMAIN containers' /\ containers'[c] = containers[c]
    /\ sagas[s].pc = "removeOld" =>
          \A c \in DOMAIN containers' : c \in DOMAIN containers /\ containers'[c] = containers[c]

\* What it does to its old container when another holds the names.
Gentle(s) ==
    (/\ sagas[s].pc \in Idling
     /\ sagas[s].pc = "form" => sagas[s].old # None
     /\ sagas[s].pc = "rename" => NameTaken(containers, Old(sagas[s].was))
     /\ sagas[s].pc = "undoRename" => NameTaken(containers, sagas[s].was))
    => sagas'[s].pc \in Idling \cup AtRest /\ Gently(containers, containers')

\* What the steps of s keep of another replacement that it meets.
Meets(s) == Frame(s) /\ Gives(s) /\ Gentle(s)

-----------------------------------------------------------------------------
(* What a call can come to.                                                *)

\* Another saga, for all but "clean".
Alike(r, q) == r \in Saga /\ r = [q EXCEPT !.clean = r.clean]

\* s goes on as r.
Outcome(s, accepted, after, good, bad, r) ==
    /\ sagas' = [sagas EXCEPT ![s] = r]
    /\ late' = late /\ begun' = begun
    /\ \/ accepted /\ containers' = after /\ r = good /\ faults' = faults
       \/ ~accepted /\ containers' = containers /\ r = bad /\ faults' = faults
       \/ /\ faults < MaxFaults /\ faults' = faults + 1
          /\ Alike(r, bad)
          /\ r.clean => /\ containers' = containers /\ bad.clean
                        /\ sagas[s].pc \notin Undoing
          /\ containers' = containers \/ (accepted /\ containers' = after)

\* A call comes to one of the outcomes.
LEMMA CallOutcome ==
    ASSUME faults \in Nat, NEW s, NEW accepted, NEW after,
           NEW good \in Saga, NEW bad \in Saga,
           Call(s, accepted, after, good, bad)
    PROVE  \E r \in Saga : Outcome(s, accepted, after, good, bad, r)
<1>1. \A lost \in BOOLEAN :
         /\ Hurt(s, bad, lost) \in Saga
         /\ Alike(Hurt(s, bad, lost), bad)
         /\ Hurt(s, bad, lost).clean => /\ ~lost /\ bad.clean
                                        /\ sagas[s].pc \notin Undoing
  BY DEF Hurt, Alike, Saga
<1>0. faults + 1 # faults
  OBVIOUS
<1>2. CASE UNCHANGED faults /\ accepted
  <2>1. /\ containers' = after /\ sagas' = [sagas EXCEPT ![s] = good]
        /\ late' = late /\ begun' = begun
    BY <1>2, <1>0, Zenon DEF Call
  <2>2. Outcome(s, accepted, after, good, bad, good)
    BY <1>2, <2>1, Zenon DEF Outcome
  <2> QED BY <2>2
<1>3. CASE UNCHANGED faults /\ ~accepted
  <2>1. /\ containers' = containers /\ sagas' = [sagas EXCEPT ![s] = bad]
        /\ late' = late /\ begun' = begun
    BY <1>3, <1>0, Zenon DEF Call
  <2>2. Outcome(s, accepted, after, good, bad, bad)
    BY <1>3, <2>1, Zenon DEF Outcome
  <2> QED BY <2>2
<1>4. CASE faults' = faults + 1 /\ faults < MaxFaults /\ containers' = containers
              /\ sagas' = [sagas EXCEPT ![s] = Hurt(s, bad, FALSE)]
  <2>1. Outcome(s, accepted, after, good, bad, Hurt(s, bad, FALSE))
    BY <1>1, <1>4 DEF Call, Outcome
  <2> QED BY <1>1, <2>1
<1>5. CASE faults' = faults + 1 /\ faults < MaxFaults
              /\ accepted /\ containers' = after
              /\ sagas' = [sagas EXCEPT ![s] = Hurt(s, bad, TRUE)]
  <2>1. Outcome(s, accepted, after, good, bad, Hurt(s, bad, TRUE))
    BY <1>1, <1>5 DEF Call, Outcome
  <2> QED BY <1>1, <2>1
<1> QED BY <1>2, <1>3, <1>4, <1>5 DEF Call

-----------------------------------------------------------------------------

\* The containers are all there, have run if they had, and run if they did,
\* x set apart.
Kept(cs, ds, x) ==
    /\ Table(ds)
    /\ DOMAIN ds = DOMAIN cs
    /\ \A c \in DOMAIN cs : /\ cs[c].ran => ds[c].ran
                            /\ c # x /\ cs[c].running => ds[c].running
    /\ Unique(cs) => Unique(ds)

\* Nothing changes.
LEMMA NothingKept ==
    ASSUME NEW cs, Table(cs)
    PROVE  \A x : Kept(cs, cs, x)
BY DEF Kept

\* One container is changed, in anything but its name.
LEMMA ChangedKept ==
    ASSUME NEW cs, Table(cs), NEW c, NEW ds, NEW x,
           DOMAIN ds = DOMAIN cs,
           \A d \in DOMAIN cs : d # c => ds[d] = cs[d],
           c \in DOMAIN cs => /\ ds[c] \in Container
                              /\ ds[c].name = cs[c].name
                              /\ cs[c].ran => ds[c].ran
                              /\ c # x /\ cs[c].running => ds[c].running
    PROVE  Kept(cs, ds, x)
<1>1. Table(ds)
  BY DEF Table
<1>2. Unique(cs) => Unique(ds)
  BY DEF Unique
<1> QED BY <1>1, <1>2 DEF Kept

\* A free name is given.
LEMMA RenamedKept ==
    ASSUME NEW cs, Table(cs), NEW c, NEW n \in Name, MayRename(cs, c, n)
    PROVE  \A x : Kept(cs, Renamed(cs, c, n), x)
BY DEF Kept, Table, Container, Renamed, MayRename, NameTaken, Unique

\* A container is started.
LEMMA StartedKept ==
    ASSUME NEW cs, Table(cs), NEW c
    PROVE  \A x : Kept(cs, Started(cs, c), x)
<1> DEFINE ds == Started(cs, c)
<1>1. DOMAIN ds = DOMAIN cs /\ \A d \in DOMAIN cs : d # c => ds[d] = cs[d]
  BY DEF Started
<1>2. c \in DOMAIN cs => ds[c] = [cs[c] EXCEPT !.running = TRUE, !.ran = TRUE]
  BY DEF Started
<1>3. c \in DOMAIN cs => cs[c] \in Container
  BY DEF Table
<1>4. c \in DOMAIN cs => /\ ds[c] \in Container /\ ds[c].name = cs[c].name
                         /\ ds[c].ran /\ ds[c].running
  <2> HIDE DEF ds
  <2> QED BY <1>2, <1>3 DEF Container
<1> HIDE DEF ds
<1>5. \A x : Kept(cs, ds, x)
  BY <1>1, <1>4, ChangedKept
<1> QED BY <1>5 DEF ds

\* A container is stopped, and it alone may not run any more.
LEMMA StoppedKept ==
    ASSUME NEW cs, Table(cs), NEW c
    PROVE  Kept(cs, Stopped(cs, c), c)
<1> DEFINE ds == Stopped(cs, c)
<1>1. DOMAIN ds = DOMAIN cs /\ \A d \in DOMAIN cs : d # c => ds[d] = cs[d]
  BY DEF Stopped
<1>2. c \in DOMAIN cs => ds[c] = [cs[c] EXCEPT !.running = FALSE]
  BY DEF Stopped
<1>3. c \in DOMAIN cs => cs[c] \in Container
  BY DEF Table
<1>4. c \in DOMAIN cs => /\ ds[c] \in Container /\ ds[c].name = cs[c].name
                         /\ ds[c].ran = cs[c].ran
  <2> HIDE DEF ds
  <2> QED BY <1>2, <1>3 DEF Container
<1> HIDE DEF ds
<1>5. Kept(cs, ds, c)
  BY <1>1, <1>4, ChangedKept
<1> QED BY <1>5 DEF ds

\* A network is added.
LEMMA ConnectedKept ==
    ASSUME NEW cs, Table(cs), NEW c, NEW net \in Networks
    PROVE  \A x : Kept(cs, Connected(cs, c, net), x)
BY DEF Kept, Table, Container, Connected, Unique

\* A network is taken away.
LEMMA DisconnectedKept ==
    ASSUME NEW cs, Table(cs), NEW c, NEW net
    PROVE  \A x : Kept(cs, Disconnected(cs, c, net), x)
BY DEF Kept, Table, Container, Disconnected, Unique

\* Access is set.
LEMMA GrantedKept ==
    ASSUME NEW cs, Table(cs), NEW c
    PROVE  \A x : Kept(cs, [cs EXCEPT ![c].access = TRUE], x)
<1> DEFINE ds == [cs EXCEPT ![c].access = TRUE]
<1>1. DOMAIN ds = DOMAIN cs /\ \A d \in DOMAIN cs : d # c => ds[d] = cs[d]
  OBVIOUS
<1>2. c \in DOMAIN cs => ds[c] = [cs[c] EXCEPT !.access = TRUE]
  OBVIOUS
<1>3. c \in DOMAIN cs => cs[c] \in Container
  BY DEF Table
<1>4. c \in DOMAIN cs => /\ ds[c] \in Container /\ ds[c].name = cs[c].name
                         /\ ds[c].ran = cs[c].ran /\ ds[c].running = cs[c].running
  <2> HIDE DEF ds
  <2> QED BY <1>2, <1>3 DEF Container
<1> HIDE DEF ds
<1>5. \A x : Kept(cs, ds, x)
  BY <1>1, <1>4, ChangedKept
<1> QED BY <1>5 DEF ds

\* Starting, stopping and connecting take neither name nor network.
LEMMA StartedGently ==
    ASSUME NEW cs, Table(cs), NEW c
    PROVE  Gently(cs, Started(cs, c))
<1> DEFINE ds == Started(cs, c)
<1>1. DOMAIN ds = DOMAIN cs /\ \A d \in DOMAIN cs : d # c => ds[d] = cs[d]
  BY DEF Started
<1>2. c \in DOMAIN cs => ds[c] = [cs[c] EXCEPT !.running = TRUE, !.ran = TRUE]
  BY DEF Started
<1>3. c \in DOMAIN cs => cs[c] \in Container
  BY DEF Table
<1> HIDE DEF ds
<1>4. c \in DOMAIN cs => ds[c].name = cs[c].name /\ ds[c].nets = cs[c].nets /\ ds[c].ran
  BY <1>2, <1>3 DEF Container
<1>5. Gently(cs, ds)
  BY <1>1, <1>4 DEF Gently
<1> QED BY <1>5 DEF ds

\* A container that is stopped has run all the same.
LEMMA StoppedGently ==
    ASSUME NEW cs, Table(cs), NEW c
    PROVE  Gently(cs, Stopped(cs, c))
<1> DEFINE ds == Stopped(cs, c)
<1>1. DOMAIN ds = DOMAIN cs /\ \A d \in DOMAIN cs : d # c => ds[d] = cs[d]
  BY DEF Stopped
<1>2. c \in DOMAIN cs => ds[c] = [cs[c] EXCEPT !.running = FALSE]
  BY DEF Stopped
<1>3. c \in DOMAIN cs => cs[c] \in Container
  BY DEF Table
<1> HIDE DEF ds
<1>4. c \in DOMAIN cs => /\ ds[c].name = cs[c].name /\ ds[c].nets = cs[c].nets
                         /\ ds[c].ran = cs[c].ran
  BY <1>2, <1>3 DEF Container
<1>5. Gently(cs, ds)
  BY <1>1, <1>4 DEF Gently
<1> QED BY <1>5 DEF ds

\* A network is added to those that a container has.
LEMMA ConnectedGently ==
    ASSUME NEW cs, Table(cs), NEW c, NEW net
    PROVE  Gently(cs, Connected(cs, c, net))
<1> DEFINE ds == Connected(cs, c, net)
<1>1. DOMAIN ds = DOMAIN cs /\ \A d \in DOMAIN cs : d # c => ds[d] = cs[d]
  BY DEF Connected
<1>2. c \in DOMAIN cs => ds[c] = [cs[c] EXCEPT !.nets = cs[c].nets \cup {net}]
  BY DEF Connected
<1>3. c \in DOMAIN cs => cs[c] \in Container
  BY DEF Table
<1> HIDE DEF ds
<1>4. c \in DOMAIN cs => /\ ds[c].name = cs[c].name /\ ds[c].nets = cs[c].nets \cup {net}
                         /\ ds[c].ran = cs[c].ran
  BY <1>2, <1>3 DEF Container
<1>5. Gently(cs, ds)
  BY <1>1, <1>4 DEF Gently
<1> QED BY <1>5 DEF ds

\* A container that is started runs.
LEMMA StartedRuns ==
    ASSUME NEW cs, Table(cs), NEW c \in DOMAIN cs
    PROVE  /\ DOMAIN Started(cs, c) = DOMAIN cs
           /\ Started(cs, c)[c].running /\ Started(cs, c)[c].ran
<1>1. cs[c] \in Container
  BY DEF Table
<1>2. Started(cs, c)[c] = [cs[c] EXCEPT !.running = TRUE, !.ran = TRUE]
  BY DEF Started
<1>3. DOMAIN Started(cs, c) = DOMAIN cs
  BY DEF Started
<1> QED BY <1>1, <1>2, <1>3 DEF Container

\* The suffix makes another name.
LEMMA OldDiffers ==
    ASSUME NEW n \in Name
    PROVE  Old(n) # n /\ Old(n) \in Name
BY DEF Name, Old

\* A step that follows from a call, apart from what it does to the containers.
LEMMA SagaStep ==
    ASSUME Sound, NEW s \in Actors, NEW accepted, NEW after, NEW good, NEW bad,
           NEW r \in Saga, Outcome(s, accepted, after, good, bad, r),
           NEW r0, r0 = sagas[s],
           r0.pc \notin AtRest, r.pc # "idle", Same(r, r0), r.name = r0.name,
           r.pc \in PendingPC => r0.pc \in PendingPC,
           r.pc \in NewPC => r0.pc \in NewPC \/ r.new = nextId,
           \/ nextId' = nextId /\ r.new = r0.new
           \/ /\ nextId' = nextId + 1 /\ r0.pc = "create"
              /\ r.pc \notin PendingPC /\ r.new \in {None, nextId},
           s \in Tabs => (r.pc \in {"start", "dropNew"} =>
              r0.pc \in {"start", "dropNew"} \/ r.new = nextId),
           s \in Requests =>
              (r.pc \in {"connect", "start", "undoStop", "undoRemove"} =>
                 r0.pc \in {"connect", "start", "undoStop", "undoRemove"} \/ r.new = nextId)
    PROVE  SagaShape(s) /\ sagas'[s] = r
<1>1. sagas'[s] = r
  BY DEF Outcome, Sound, TypeOK
<1>2. faults' \in {faults, faults + 1} /\ faults' \in 0..MaxFaults
  BY BoundsAssumption DEF Outcome, Sound, TypeOK
<1>3. Fragile(s)' => Fragile(s) \/ r.new = nextId
  BY <1>1 DEF Fragile
<1>4. /\ late' = late /\ begun' = begun /\ late \subseteq Ids \X Networks
      /\ sagas' = [sagas EXCEPT ![s] = sagas'[s]]
  BY <1>1 DEF Outcome, Sound, TypeOK
<1> QED BY <1>1, <1>2, <1>3, <1>4 DEF SagaShape, Same

\* A call that leaves the containers there.
LEMMA KeepingStep ==
    ASSUME Sound, NEW s, NEW accepted, NEW after, NEW good, NEW bad, NEW r,
           Outcome(s, accepted, after, good, bad, r), NEW x,
           accepted => Kept(containers, after, x)
    PROVE  TableShape(s) /\ Kept(containers, containers', x)
<1>1. Kept(containers, containers', x)
  BY NothingKept DEF Outcome, Sound, TypeOK, Table
<1>2. nextId \notin DOMAIN containers
  BY DEF Sound, FreshInv, TypeOK
<1> QED BY <1>1, <1>2 DEF TableShape, Kept

-----------------------------------------------------------------------------
(* The calls of a replacement that stop and start a container.             *)

\* A tab stops the old container, or fails with everything as it was.
LEMMA StopOldStep ==
    ASSUME Sound, NEW t \in Tabs, StopOld(t)
    PROVE  Shape(t) /\ Tracks(t) /\ Meets(t)
<1> DEFINE accepted == sagas[t].old \in DOMAIN containers /\ containers[sagas[t].old].running
           after == Stopped(containers, sagas[t].old)
           good == Goto(t, "rename")
           bad == Goto(t, "failed")
<1> SUFFICES ASSUME NEW r0 \in Saga, r0 = sagas[t], r0.pc = "stop",
                    t \in Actors, t \notin Requests
             PROVE  Shape(t) /\ Tracks(t) /\ Meets(t)
  BY ActorsAssumption DEF Sound, TypeOK, Actors, StopOld
<1>1. good \in Saga /\ bad \in Saga
  BY DEF Goto, Saga, AtRest, TabPC, RequestPC
<1>2. UNCHANGED nextId /\ Call(t, accepted, after, good, bad)
  BY DEF StopOld
<1>3. PICK r \in Saga : Outcome(t, accepted, after, good, bad, r)
  <2> HIDE DEF good, bad, after, accepted
  <2> QED BY <1>1, <1>2, CallOutcome DEF Sound, TypeOK
<1>4. /\ r.pc \in {"failed", "rename"}
      /\ Same(r, r0) /\ r.new = r0.new /\ r.name = r0.name
      /\ r.clean => r0.clean
  BY <1>3 DEF Outcome, Alike, Goto, Same, Saga
<1>5. accepted => Kept(containers, after, sagas[t].old)
  BY StoppedKept DEF Sound, TypeOK, Table
<1>6. SagaShape(t) /\ sagas'[t] = r
  <2> HIDE DEF good, bad, after, accepted
  <2> QED BY <1>2, <1>3, <1>4, SagaStep DEF AtRest, PendingPC, NewPC
<1>7. TableShape(t) /\ Kept(containers, containers', sagas[t].old)
  <2> HIDE DEF good, bad, after, accepted
  <2> QED BY <1>3, <1>5, KeepingStep
<1>8. ServeShape(t)
  BY <1>4, <1>6 DEF ServeShape, Passed
<1>9. Tracks(t)
  <2> SUFFICES ASSUME Unique(containers), Placed(t, r0, containers),
                      r.pc \in Undoing \cup {"failed"} => r.clean,
                      r.old # None, r.name = r.was
               PROVE  Where(t, r, containers')
    BY <1>4, <1>6 DEF Tracks, Placed
  <2>0. Table(containers)
    BY DEF Sound, TypeOK, Table
  <2>5. Old(r0.was) # r0.was
    BY OldDiffers DEF Saga
  <2>6. r0.was \in Name
    BY DEF Saga
  <2>1. Where(t, r0, containers)
    BY <1>4 DEF Placed, Same, Undoing
  <2>2. \/ r.pc = "rename" /\ accepted /\ containers' = after
        \/ r.pc = "failed" /\ containers' = containers
    BY <1>3 DEF Outcome, Alike, Goto, Undoing, Saga
  <2>3. CASE r.pc = "rename" /\ accepted /\ containers' = after
    <3>1. 
          /\ r0.old \in DOMAIN containers /\ containers[r0.old].name = r0.was
          /\ r0.new = None
      BY <2>1 DEF Where, Is, New, Made
    <3>2. containers' = Stopped(containers, r0.old) /\ containers[r0.old] \in Container
      BY <2>0, <2>3, <3>1 DEF Table
    <3> HIDE DEF accepted, after, good, bad
    <3>3. /\ DOMAIN containers' = DOMAIN containers
          /\ \A d \in DOMAIN containers : d # r0.old => containers'[d] = containers[d]
          /\ containers'[r0.old] = [containers[r0.old] EXCEPT !.running = FALSE]
      BY <3>1, <3>2 DEF Stopped
    <3>4. r0.old \in DOMAIN containers' /\ containers'[r0.old].name = r0.was
      BY <2>5, <3>1, <3>2, <3>3 DEF Container
    <3> QED BY <1>4, <2>3, <3>1, <3>4 DEF Where, Is, New, Back, Same, Made
  <2>4. CASE r.pc = "failed" /\ containers' = containers
    BY <1>4, <2>1, <2>4 DEF Where, Is, New, Back, Same, Undoing, Made
  <2> QED BY <2>2, <2>3, <2>4
<1>10. Frame(t)
  BY <1>3 DEF Frame, Outcome, Stopped
<1>11. Gives(t)
  BY <1>4, <1>6 DEF Gives, Gave, Replacing, Made
<1>12. Gentle(t)
  <2>1. r.pc \in Idling \cup AtRest
    BY <1>4 DEF Idling, AtRest
  <2>2. Gently(containers, containers')
    BY <1>3, StoppedGently DEF Gently, Outcome, Sound, TypeOK, Table
  <2> QED BY <1>6, <2>1, <2>2 DEF Gentle
<1> QED BY <1>6, <1>7, <1>8, <1>9, <1>10, <1>11, <1>12 DEF Shape, Meets

\* The server stops the old container, which it owes a start from now on.
LEMMA StopCurrentStep ==
    ASSUME Sound, NEW q \in Requests, StopCurrent(q)
    PROVE  Shape(q) /\ Tracks(q) /\ Meets(q)
<1> DEFINE accepted == sagas[q].old \in DOMAIN containers
           after == Stopped(containers, sagas[q].old)
           good == Goto(q, "rename")
           bad == Goto(q, "failed")
<1> SUFFICES ASSUME NEW r0 \in Saga, r0 = sagas[q], r0.pc = "stop",
                    q \in Actors, q \notin Tabs
             PROVE  Shape(q) /\ Tracks(q) /\ Meets(q)
  BY ActorsAssumption DEF Sound, TypeOK, Actors, StopCurrent
<1>1. good \in Saga /\ bad \in Saga
  BY DEF Goto, Saga, AtRest, TabPC, RequestPC
<1>2. UNCHANGED nextId /\ Call(q, accepted, after, good, bad)
  BY DEF StopCurrent
<1>3. PICK r \in Saga : Outcome(q, accepted, after, good, bad, r)
  <2> HIDE DEF good, bad, after, accepted
  <2> QED BY <1>1, <1>2, CallOutcome DEF Sound, TypeOK
<1>4. /\ r.pc \in {"failed", "rename"}
      /\ Same(r, r0) /\ r.new = r0.new /\ r.name = r0.name
      /\ r.clean => r0.clean
  BY <1>3 DEF Outcome, Alike, Goto, Same, Saga
<1>5. accepted => Kept(containers, after, sagas[q].old)
  BY StoppedKept DEF Sound, TypeOK, Table
<1>6. SagaShape(q) /\ sagas'[q] = r
  <2> HIDE DEF good, bad, after, accepted
  <2> QED BY <1>2, <1>3, <1>4, SagaStep DEF AtRest, PendingPC, NewPC
<1>7. TableShape(q) /\ Kept(containers, containers', sagas[q].old)
  <2> HIDE DEF good, bad, after, accepted
  <2> QED BY <1>3, <1>5, KeepingStep
<1>8. ServeShape(q)
  <2>0. faults' # 0 \/ r.pc = "rename" \/ containers' = containers
    BY <1>3, BoundsAssumption DEF Outcome, Goto, Sound, TypeOK, Saga
  <2>1. Passed(q)' => Passed(q)
    BY <1>4, <1>6 DEF Passed
  <2>2. \A c \in DOMAIN containers \cap DOMAIN containers' :
           containers[c].running => containers'[c].running
              \/ (c = sagas[q].old /\ (faults' # 0 \/ sagas'[q].pc \in Owing))
    BY <1>3, <1>4, <1>6, <2>0, <1>7 DEF Kept, Owing
  <2>3. sagas[q].pc \notin Owing
    BY DEF Owing
  <2> QED BY <2>1, <2>2, <2>3 DEF ServeShape
<1>9. Tracks(q)
  <2> SUFFICES ASSUME Unique(containers), Placed(q, r0, containers),
                      r.pc \in Undoing \cup {"failed"} => r.clean,
                      r.old # None, r.name = r.was
               PROVE  Where(q, r, containers')
    BY <1>4, <1>6 DEF Tracks, Placed
  <2>0. Table(containers)
    BY DEF Sound, TypeOK, Table
  <2>5. Old(r0.was) # r0.was
    BY OldDiffers DEF Saga
  <2>6. r0.was \in Name
    BY DEF Saga
  <2>1. Where(q, r0, containers)
    BY <1>4 DEF Placed, Same, Undoing
  <2>2. \/ r.pc = "rename" /\ accepted /\ containers' = after
        \/ r.pc = "failed" /\ containers' = containers
    BY <1>3 DEF Outcome, Alike, Goto, Undoing, Saga
  <2>3. CASE r.pc = "rename" /\ accepted /\ containers' = after
    <3>1. 
          /\ r0.old \in DOMAIN containers /\ containers[r0.old].name = r0.was
          /\ containers[r0.old].nets = r0.nets
          /\ r0.new = None
      BY <2>1 DEF Where, Is, New, Made
    <3>2. containers' = Stopped(containers, r0.old) /\ containers[r0.old] \in Container
      BY <2>0, <2>3, <3>1 DEF Table
    <3> HIDE DEF accepted, after, good, bad
    <3>3. /\ DOMAIN containers' = DOMAIN containers
          /\ \A d \in DOMAIN containers : d # r0.old => containers'[d] = containers[d]
          /\ containers'[r0.old] = [containers[r0.old] EXCEPT !.running = FALSE]
      BY <3>1, <3>2 DEF Stopped
    <3>4. 
          /\ r0.old \in DOMAIN containers' /\ containers'[r0.old].name = r0.was
          /\ containers'[r0.old].nets = r0.nets
      BY <2>5, <3>1, <3>2, <3>3 DEF Container
    <3> QED BY <1>4, <2>3, <3>1, <3>4 DEF Where, Is, New, Back, Same, Made
  <2>4. CASE r.pc = "failed" /\ containers' = containers
    BY <1>4, <2>1, <2>4 DEF Where, Is, New, Back, Same, Undoing, Made
  <2> QED BY <2>2, <2>3, <2>4
<1>10. Frame(q)
  BY <1>3 DEF Frame, Outcome, Stopped
<1>11. Gives(q)
  BY <1>4, <1>6 DEF Gives, Gave, Replacing, Made
<1>12. Gentle(q)
  <2>1. r.pc \in Idling \cup AtRest
    BY <1>4 DEF Idling, AtRest
  <2>2. Gently(containers, containers')
    BY <1>3, StoppedGently DEF Gently, Outcome, Sound, TypeOK, Table
  <2> QED BY <1>6, <2>1, <2>2 DEF Gentle
<1> QED BY <1>6, <1>7, <1>8, <1>9, <1>10, <1>11, <1>12 DEF Shape, Meets

\* The last call of the undoing starts the old container.
LEMMA UndoStartStep ==
    ASSUME Sound, NEW q \in Requests, UndoStart(q)
    PROVE  Shape(q) /\ Tracks(q) /\ Meets(q)
<1> DEFINE accepted == sagas[q].old \in DOMAIN containers
           after == Started(containers, sagas[q].old)
           good == Goto(q, "failed")
           bad == Goto(q, "failed")
<1> SUFFICES ASSUME NEW r0 \in Saga, r0 = sagas[q], r0.pc = "undoStart",
                    q \in Actors, q \notin Tabs
             PROVE  Shape(q) /\ Tracks(q) /\ Meets(q)
  BY ActorsAssumption DEF Sound, TypeOK, Actors, UndoStart
<1>1. good \in Saga /\ bad \in Saga
  BY DEF Goto, Saga, AtRest, TabPC, RequestPC
<1>2. UNCHANGED nextId /\ Call(q, accepted, after, good, bad)
  BY DEF UndoStart
<1>3. PICK r \in Saga : Outcome(q, accepted, after, good, bad, r)
  <2> HIDE DEF good, bad, after, accepted
  <2> QED BY <1>1, <1>2, CallOutcome DEF Sound, TypeOK
<1>4. /\ r.pc \in {"failed"}
      /\ Same(r, r0) /\ r.new = r0.new /\ r.name = r0.name
      /\ r.clean => r0.clean
  BY <1>3 DEF Outcome, Alike, Goto, Same, Saga
<1>5. accepted => Kept(containers, after, None)
  BY StartedKept DEF Sound, TypeOK, Table
<1>6. SagaShape(q) /\ sagas'[q] = r
  <2> HIDE DEF good, bad, after, accepted
  <2> QED BY <1>2, <1>3, <1>4, SagaStep DEF AtRest, PendingPC, NewPC
<1>7. TableShape(q) /\ Kept(containers, containers', None)
  <2> HIDE DEF good, bad, after, accepted
  <2> QED BY <1>3, <1>5, KeepingStep
<1>8. ServeShape(q)
  <2>4. None \notin DOMAIN containers
    BY DEF Sound, TypeOK, Ids, None
  <2>1. Passed(q)' => Passed(q)
    BY <1>4, <1>6 DEF Passed
  <2>2. \A c \in DOMAIN containers \cap DOMAIN containers' :
           containers[c].running => containers'[c].running
    BY <2>4, <1>7 DEF Kept
  <2>3. \/ faults' # 0
        \/ sagas[q].old \in DOMAIN containers
              => sagas[q].old \in DOMAIN containers' /\ containers'[sagas[q].old].running
    <3>1. Table(containers) /\ faults + 1 # 0
      BY BoundsAssumption DEF Sound, TypeOK, Table
    <3> QED BY <1>3, <3>1, StartedRuns DEF Outcome
  <2> QED BY <2>1, <2>2, <2>3 DEF ServeShape
<1>9. Tracks(q)
  <2> SUFFICES ASSUME Unique(containers), Placed(q, r0, containers),
                      r.pc \in Undoing \cup {"failed"} => r.clean,
                      r.old # None, r.name = r.was
               PROVE  Where(q, r, containers')
    BY <1>4, <1>6 DEF Tracks, Placed
  <2>0. Table(containers)
    BY DEF Sound, TypeOK, Table
  <2>5. Old(r0.was) # r0.was
    BY OldDiffers DEF Saga
  <2>6. r0.was \in Name
    BY DEF Saga
  <2>1. Where(q, r0, containers)
    BY <1>4 DEF Placed, Same, Undoing
  <2>2. \/ r.pc = "failed" /\ accepted /\ containers' = after
        \/ r.pc = "failed" /\ ~accepted /\ containers' = containers
    BY <1>3 DEF Outcome, Alike, Goto, Undoing, Saga
  <2>3. CASE r.pc = "failed" /\ accepted /\ containers' = after
    <3>1. 
          /\ r0.old \in DOMAIN containers /\ containers[r0.old].name = r0.was
          /\ r0.nets \subseteq containers[r0.old].nets
          /\ r0.new = None \/ r0.new \notin DOMAIN containers
      BY <2>1 DEF Where, Is, New, Made
    <3>2. containers' = Started(containers, r0.old) /\ containers[r0.old] \in Container
      BY <2>0, <2>3, <3>1 DEF Table
    <3> HIDE DEF accepted, after, good, bad
    <3>3. /\ DOMAIN containers' = DOMAIN containers
          /\ \A d \in DOMAIN containers : d # r0.old => containers'[d] = containers[d]
          /\ containers'[r0.old] = [containers[r0.old] EXCEPT !.running = TRUE, !.ran = TRUE]
      BY <3>1, <3>2 DEF Started
    <3>4. 
          /\ r0.old \in DOMAIN containers' /\ containers'[r0.old].name = r0.was
          /\ r0.nets \subseteq containers'[r0.old].nets
          /\ containers'[r0.old].running
          /\ r0.new = None \/ r0.new \notin DOMAIN containers'
      BY <2>5, <3>1, <3>2, <3>3 DEF Container
    <3> QED BY <1>4, <2>3, <3>1, <3>4 DEF Where, Is, New, Back, Same, Made
  <2>4. CASE r.pc = "failed" /\ ~accepted /\ containers' = containers
    BY <1>4, <2>1, <2>4 DEF Where, Is, New, Back, Same, Undoing, Made
  <2> QED BY <2>2, <2>3, <2>4
<1>10. Frame(q)
  BY <1>3 DEF Frame, Outcome, Started
<1>11. Gives(q)
  BY <1>4, <1>6 DEF Gives, Gave, Replacing, Made
<1>12. Gentle(q)
  <2>1. r.pc \in Idling \cup AtRest
    BY <1>4 DEF Idling, AtRest
  <2>2. Gently(containers, containers')
    BY <1>3, StartedGently DEF Gently, Outcome, Sound, TypeOK, Table
  <2> QED BY <1>6, <2>1, <2>2 DEF Gentle
<1> QED BY <1>6, <1>7, <1>8, <1>9, <1>10, <1>11, <1>12 DEF Shape, Meets

\* The undoing stops the new container first.
LEMMA UndoStopStep ==
    ASSUME Sound, NEW q \in Requests, UndoStop(q)
    PROVE  Shape(q) /\ Tracks(q) /\ Meets(q)
<1> DEFINE accepted == sagas[q].new \in DOMAIN containers
           after == Stopped(containers, sagas[q].new)
           good == Goto(q, "undoRemove")
           bad == Goto(q, "undoRemove")
<1> SUFFICES ASSUME NEW r0 \in Saga, r0 = sagas[q], r0.pc = "undoStop",
                    q \in Actors, q \notin Tabs
             PROVE  Shape(q) /\ Tracks(q) /\ Meets(q)
  BY ActorsAssumption DEF Sound, TypeOK, Actors, UndoStop
<1>1. good \in Saga /\ bad \in Saga
  BY DEF Goto, Saga, AtRest, TabPC, RequestPC
<1>2. UNCHANGED nextId /\ Call(q, accepted, after, good, bad)
  BY DEF UndoStop
<1>3. PICK r \in Saga : Outcome(q, accepted, after, good, bad, r)
  <2> HIDE DEF good, bad, after, accepted
  <2> QED BY <1>1, <1>2, CallOutcome DEF Sound, TypeOK
<1>4. /\ r.pc \in {"undoRemove"}
      /\ Same(r, r0) /\ r.new = r0.new /\ r.name = r0.name
      /\ r.clean => r0.clean
  BY <1>3 DEF Outcome, Alike, Goto, Same, Saga
<1>5. accepted => Kept(containers, after, sagas[q].new)
  BY StoppedKept DEF Sound, TypeOK, Table
<1>6. SagaShape(q) /\ sagas'[q] = r
  <2> HIDE DEF good, bad, after, accepted
  <2> QED BY <1>2, <1>3, <1>4, SagaStep DEF AtRest, PendingPC, NewPC
<1>7. TableShape(q) /\ Kept(containers, containers', sagas[q].new)
  <2> HIDE DEF good, bad, after, accepted
  <2> QED BY <1>3, <1>5, KeepingStep
<1>8. ServeShape(q)
  <2>4. Fragile(q)
    BY DEF Fragile
  <2>1. Passed(q)' => Passed(q)
    BY <1>4, <1>6 DEF Passed
  <2>2. \A c \in DOMAIN containers \cap DOMAIN containers' :
           containers[c].running => containers'[c].running
              \/ (c = sagas[q].new /\ Fragile(q))
    BY <2>4, <1>7 DEF Kept
  <2>3. sagas'[q].pc \in Owing
    BY <1>4, <1>6 DEF Owing
  <2> QED BY <2>1, <2>2, <2>3 DEF ServeShape
<1>9. Tracks(q)
  <2> SUFFICES ASSUME Unique(containers), Placed(q, r0, containers),
                      r.pc \in Undoing \cup {"failed"} => r.clean,
                      r.old # None, r.name = r.was
               PROVE  Where(q, r, containers')
    BY <1>4, <1>6 DEF Tracks, Placed
  <2>0. Table(containers)
    BY DEF Sound, TypeOK, Table
  <2>5. Old(r0.was) # r0.was
    BY OldDiffers DEF Saga
  <2>6. r0.was \in Name
    BY DEF Saga
  <2>1. Where(q, r0, containers)
    BY <1>4 DEF Placed, Same, Undoing
  <2>2. \/ r.pc = "undoRemove" /\ accepted /\ containers' = after
        \/ r.pc = "undoRemove" /\ ~accepted /\ containers' = containers
    BY <1>3 DEF Outcome, Alike, Goto, Undoing, Saga
  <2>3. CASE r.pc = "undoRemove" /\ accepted /\ containers' = after
    <3>1. 
          /\ r0.old \in DOMAIN containers /\ containers[r0.old].name = Old(r0.was)
          /\ r0.new \in DOMAIN containers /\ containers[r0.new].name = r0.was
      BY <2>1 DEF Where, Is, New, Made
    <3>2. containers' = Stopped(containers, r0.new) /\ containers[r0.new] \in Container
      BY <2>0, <2>3, <3>1 DEF Table
    <3> HIDE DEF accepted, after, good, bad
    <3>3. /\ DOMAIN containers' = DOMAIN containers
          /\ \A d \in DOMAIN containers : d # r0.new => containers'[d] = containers[d]
          /\ containers'[r0.new] = [containers[r0.new] EXCEPT !.running = FALSE]
      BY <3>1, <3>2 DEF Stopped
    <3>4. 
          /\ r0.old \in DOMAIN containers' /\ containers'[r0.old].name = Old(r0.was)
          /\ r0.new \in DOMAIN containers' /\ containers'[r0.new].name = r0.was
          /\ ~containers'[r0.new].running
      BY <2>5, <3>1, <3>2, <3>3 DEF Container
    <3> QED BY <1>4, <2>3, <3>1, <3>4 DEF Where, Is, New, Back, Same, Made
  <2>4. CASE r.pc = "undoRemove" /\ ~accepted /\ containers' = containers
    BY <1>4, <2>1, <2>4 DEF Where, Is, New, Back, Same, Undoing, Made
  <2> QED BY <2>2, <2>3, <2>4
<1>10. Frame(q)
  BY <1>3 DEF Frame, Outcome, Stopped
<1>11. Gives(q)
  BY <1>4, <1>6 DEF Gives, Gave, Replacing, Made
<1>12. Gentle(q)
  BY DEF Gentle, Idling
<1> QED BY <1>6, <1>7, <1>8, <1>9, <1>10, <1>11, <1>12 DEF Shape, Meets

-----------------------------------------------------------------------------
(* Those that rename, connect and start, and what follows them.            *)

\* A tab gives the old container its second name, if that is free.
LEMMA RenameOldStep ==
    ASSUME Sound, NEW t \in Tabs, RenameOld(t)
    PROVE  Shape(t) /\ Tracks(t) /\ Meets(t)
<1> DEFINE accepted == MayRename(containers, sagas[t].old, Old(sagas[t].was))
           after == Renamed(containers, sagas[t].old, Old(sagas[t].was))
           good == Goto(t, "create")
           bad == Goto(t, "failed")
<1> SUFFICES ASSUME NEW r0 \in Saga, r0 = sagas[t], r0.pc = "rename",
                    t \in Actors, t \notin Requests
             PROVE  Shape(t) /\ Tracks(t) /\ Meets(t)
  BY ActorsAssumption DEF Sound, TypeOK, Actors, RenameOld
<1>1. good \in Saga /\ bad \in Saga
  BY DEF Goto, Saga, AtRest, TabPC, RequestPC
<1>2. UNCHANGED nextId /\ Call(t, accepted, after, good, bad)
  BY DEF RenameOld
<1>3. PICK r \in Saga : Outcome(t, accepted, after, good, bad, r)
  <2> HIDE DEF good, bad, after, accepted
  <2> QED BY <1>1, <1>2, CallOutcome DEF Sound, TypeOK
<1>4. /\ r.pc \in {"create", "failed"}
      /\ Same(r, r0) /\ r.new = r0.new /\ r.name = r0.name
      /\ r.clean => r0.clean
  BY <1>3 DEF Outcome, Alike, Goto, Same, Saga
<1>5. accepted => Kept(containers, after, None)
  <2>1. Old(sagas[t].was) \in Name
    BY OldDiffers DEF Saga
  <2> QED BY <2>1, RenamedKept DEF Sound, TypeOK, Table
<1>6. SagaShape(t) /\ sagas'[t] = r
  <2> HIDE DEF good, bad, after, accepted
  <2> QED BY <1>2, <1>3, <1>4, SagaStep DEF AtRest, PendingPC, NewPC
<1>7. TableShape(t) /\ Kept(containers, containers', None)
  <2> HIDE DEF good, bad, after, accepted
  <2> QED BY <1>3, <1>5, KeepingStep
<1>8. ServeShape(t)
  BY <1>4, <1>6 DEF ServeShape, Passed
<1>9. Tracks(t)
  <2> SUFFICES ASSUME Unique(containers), Placed(t, r0, containers),
                      r.pc \in Undoing \cup {"failed"} => r.clean,
                      r.old # None, r.name = r.was
               PROVE  Where(t, r, containers')
    BY <1>4, <1>6 DEF Tracks, Placed
  <2>0. Table(containers)
    BY DEF Sound, TypeOK, Table
  <2>5. Old(r0.was) # r0.was
    BY OldDiffers DEF Saga
  <2>6. r0.was \in Name
    BY DEF Saga
  <2>1. Where(t, r0, containers)
    BY <1>4 DEF Placed, Same, Undoing
  <2>2. \/ r.pc = "create" /\ accepted /\ containers' = after
        \/ r.pc = "failed" /\ containers' = containers
    BY <1>3 DEF Outcome, Alike, Goto, Undoing, Saga
  <2>3. CASE r.pc = "create" /\ accepted /\ containers' = after
    <3>1. 
          /\ r0.old \in DOMAIN containers /\ containers[r0.old].name = r0.was
          /\ r0.new = None
      BY <2>1 DEF Where, Is, New, Made
    <3>2. containers' = Renamed(containers, r0.old, Old(r0.was)) /\ containers[r0.old] \in Container
      BY <2>0, <2>3, <3>1 DEF Table
    <3> HIDE DEF accepted, after, good, bad
    <3>3. /\ DOMAIN containers' = DOMAIN containers
          /\ \A d \in DOMAIN containers : d # r0.old => containers'[d] = containers[d]
          /\ containers'[r0.old] = [containers[r0.old] EXCEPT !.name = Old(r0.was)]
      BY <3>1, <3>2 DEF Renamed
    <3>4. 
          /\ r0.old \in DOMAIN containers' /\ containers'[r0.old].name = Old(r0.was)
          /\ ~NameTaken(containers', r0.was)
      BY <2>5, <3>1, <3>2, <3>3, <2>6 DEF Container, NameTaken, Unique
    <3> QED BY <1>4, <2>3, <3>1, <3>4 DEF Where, Is, New, Back, Same, Made
  <2>4. CASE r.pc = "failed" /\ containers' = containers
    BY <1>4, <2>1, <2>4 DEF Where, Is, New, Back, Same, Undoing, Made
  <2> QED BY <2>2, <2>3, <2>4
<1>10. Frame(t)
  BY <1>3 DEF Frame, Outcome, Renamed
<1>11. Gives(t)
  BY <1>4, <1>6 DEF Gives, Gave, Replacing, Made
<1>12. Gentle(t)
  <2> SUFFICES ASSUME NameTaken(containers, Old(r0.was))
               PROVE  r.pc \in Idling \cup AtRest /\ Gently(containers, containers')
    BY <1>6 DEF Gentle
  <2>1. ~accepted
    BY DEF MayRename
  <2>2. containers' = containers
    BY <1>3, <2>1, Zenon DEF Outcome
  <2>3. r.pc \in Idling \cup AtRest
    BY <2>1, <1>3 DEF Outcome, Alike, Goto, Idling, AtRest, Saga
  <2> QED BY <2>2, <2>3 DEF Gently
<1> QED BY <1>6, <1>7, <1>8, <1>9, <1>10, <1>11, <1>12 DEF Shape, Meets

\* A tab starts the new container, or is about to drop it.
LEMMA StartNewStep ==
    ASSUME Sound, NEW t \in Tabs, StartNew(t)
    PROVE  Shape(t) /\ Tracks(t) /\ Meets(t)
<1> DEFINE accepted == sagas[t].new \in DOMAIN containers /\ ~containers[sagas[t].new].running
           after == Started(containers, sagas[t].new)
           good == Goto(t, "settings")
           bad == Goto(t, "dropNew")
<1> SUFFICES ASSUME NEW r0 \in Saga, r0 = sagas[t], r0.pc = "start",
                    t \in Actors, t \notin Requests
             PROVE  Shape(t) /\ Tracks(t) /\ Meets(t)
  BY ActorsAssumption DEF Sound, TypeOK, Actors, StartNew
<1>1. good \in Saga /\ bad \in Saga
  BY DEF Goto, Saga, AtRest, TabPC, RequestPC
<1>2. UNCHANGED nextId /\ Call(t, accepted, after, good, bad)
  BY DEF StartNew
<1>3. PICK r \in Saga : Outcome(t, accepted, after, good, bad, r)
  <2> HIDE DEF good, bad, after, accepted
  <2> QED BY <1>1, <1>2, CallOutcome DEF Sound, TypeOK
<1>4. /\ r.pc \in {"dropNew", "settings"}
      /\ Same(r, r0) /\ r.new = r0.new /\ r.name = r0.name
      /\ r.clean => r0.clean
  BY <1>3 DEF Outcome, Alike, Goto, Same, Saga
<1>5. accepted => Kept(containers, after, None)
  BY StartedKept DEF Sound, TypeOK, Table
<1>6. SagaShape(t) /\ sagas'[t] = r
  <2> HIDE DEF good, bad, after, accepted
  <2> QED BY <1>2, <1>3, <1>4, SagaStep DEF AtRest, PendingPC, NewPC
<1>7. TableShape(t) /\ Kept(containers, containers', None)
  <2> HIDE DEF good, bad, after, accepted
  <2> QED BY <1>3, <1>5, KeepingStep
<1>8. ServeShape(t)
  <2>1. r.pc = "settings" => sagas[t].new \in DOMAIN containers /\ containers' = Started(containers, sagas[t].new)
    BY <1>3 DEF Outcome, Alike, Goto, Saga
  <2> QED BY <1>4, <1>6, <2>1 DEF ServeShape, Passed
<1>9. Tracks(t)
  <2> SUFFICES ASSUME Unique(containers), Placed(t, r0, containers),
                      r.pc \in Undoing \cup {"failed"} => r.clean,
                      r.old # None, r.name = r.was
               PROVE  Where(t, r, containers')
    BY <1>4, <1>6 DEF Tracks, Placed
  <2>0. Table(containers)
    BY DEF Sound, TypeOK, Table
  <2>5. Old(r0.was) # r0.was
    BY OldDiffers DEF Saga
  <2>6. r0.was \in Name
    BY DEF Saga
  <2>1. Where(t, r0, containers)
    BY <1>4 DEF Placed, Same, Undoing
  <2>2. \/ r.pc = "settings" /\ accepted /\ containers' = after /\ r.todo = r0.todo
        \/ r.pc = "dropNew" /\ containers' = containers
    BY <1>3 DEF Outcome, Alike, Goto, Undoing, Saga
  <2>3. CASE r.pc = "settings" /\ accepted /\ containers' = after /\ r.todo = r0.todo
    <3>1. 
          /\ r0.old \in DOMAIN containers /\ containers[r0.old].name = Old(r0.was)
          /\ r0.new \in DOMAIN containers /\ containers[r0.new].name = r0.was
          /\ r0.nets \ r0.todo \subseteq containers[r0.new].nets
      BY <2>1 DEF Where, Is, New, Made
    <3>2. containers' = Started(containers, r0.new) /\ containers[r0.new] \in Container
      BY <2>0, <2>3, <3>1 DEF Table
    <3> HIDE DEF accepted, after, good, bad
    <3>3. /\ DOMAIN containers' = DOMAIN containers
          /\ \A d \in DOMAIN containers : d # r0.new => containers'[d] = containers[d]
          /\ containers'[r0.new] = [containers[r0.new] EXCEPT !.running = TRUE, !.ran = TRUE]
      BY <3>1, <3>2 DEF Started
    <3>4. 
          /\ r0.old \in DOMAIN containers' /\ containers'[r0.old].name = Old(r0.was)
          /\ r0.new \in DOMAIN containers' /\ containers'[r0.new].name = r0.was
          /\ r0.nets \ r0.todo \subseteq containers'[r0.new].nets
          /\ containers'[r0.new].running
      BY <2>5, <3>1, <3>2, <3>3 DEF Container
    <3> QED BY <1>4, <2>3, <3>1, <3>4 DEF Where, Is, New, Back, Same, Made
  <2>4. CASE r.pc = "dropNew" /\ containers' = containers
    BY <1>4, <2>1, <2>4 DEF Where, Is, New, Back, Same, Undoing, Made
  <2> QED BY <2>2, <2>3, <2>4
<1>10. Frame(t)
  BY <1>3 DEF Frame, Outcome, Started
<1>11. Gives(t)
  <2>1. /\ Replacing(t, r0)
        /\ \A c \in DOMAIN containers : c # r0.new =>
              c \in DOMAIN containers' /\ containers'[c] = containers[c]
    BY <1>3 DEF Outcome, Replacing, Made, Started
  <2> SUFFICES ASSUME Gave(t, r0, containers), Replacing(t, r), r.old # None, r.name = r.was
               PROVE  Successor(t, r, containers')
    BY <1>4, <1>6, <2>1 DEF Gives, Gave
  <2>2. Successor(t, r0, containers)
    BY <1>4, <2>1 DEF Gave, Same
  <2>3. /\ r.pc = "settings" /\ accepted /\ containers' = after
        /\ r.todo = r0.todo
    BY <1>3, <1>4 DEF Outcome, Alike, Goto, Replacing, Made, Saga, Same
  <2>4. r0.new \in DOMAIN containers /\ containers[r0.new] \in Container
    BY <2>2 DEF Successor, New, Sound, TypeOK
  <2>5. containers' = Started(containers, r0.new)
    BY <2>3, <2>4
  <2> HIDE DEF accepted, after, good, bad
  <2>6. /\ DOMAIN containers' = DOMAIN containers
        /\ containers'[r0.new] = [containers[r0.new] EXCEPT !.running = TRUE, !.ran = TRUE]
    BY <2>4, <2>5 DEF Started
  <2>7. /\ containers'[r0.new].name = containers[r0.new].name
        /\ containers'[r0.new].nets = containers[r0.new].nets /\ containers'[r0.new].ran
    BY <2>4, <2>6 DEF Container
  <2> QED BY <1>4, <2>2, <2>3, <2>4, <2>6, <2>7 DEF Successor, New, Same
<1>12. Gentle(t)
  BY DEF Gentle, Idling
<1> QED BY <1>6, <1>7, <1>8, <1>9, <1>10, <1>11, <1>12 DEF Shape, Meets

\* A tab gives the old container its name back, which is free by now.
LEMMA RenameBackStep ==
    ASSUME Sound, NEW t \in Tabs, RenameBack(t)
    PROVE  Shape(t) /\ Tracks(t) /\ Meets(t)
<1> DEFINE accepted == MayRename(containers, sagas[t].old, sagas[t].name)
           after == Renamed(containers, sagas[t].old, sagas[t].name)
           good == Goto(t, "failed")
           bad == Goto(t, "failed")
<1> SUFFICES ASSUME NEW r0 \in Saga, r0 = sagas[t], r0.pc = "renameBack",
                    t \in Actors, t \notin Requests
             PROVE  Shape(t) /\ Tracks(t) /\ Meets(t)
  BY ActorsAssumption DEF Sound, TypeOK, Actors, RenameBack
<1>1. good \in Saga /\ bad \in Saga
  BY DEF Goto, Saga, AtRest, TabPC, RequestPC
<1>2. UNCHANGED nextId /\ Call(t, accepted, after, good, bad)
  BY DEF RenameBack
<1>3. PICK r \in Saga : Outcome(t, accepted, after, good, bad, r)
  <2> HIDE DEF good, bad, after, accepted
  <2> QED BY <1>1, <1>2, CallOutcome DEF Sound, TypeOK
<1>4. /\ r.pc \in {"failed"}
      /\ Same(r, r0) /\ r.new = r0.new /\ r.name = r0.name
      /\ r.clean => r0.clean
  BY <1>3 DEF Outcome, Alike, Goto, Same, Saga
<1>5. accepted => Kept(containers, after, None)
  <2>1. sagas[t].name \in Name
    BY DEF Saga
  <2> QED BY <2>1, RenamedKept DEF Sound, TypeOK, Table
<1>6. SagaShape(t) /\ sagas'[t] = r
  <2> HIDE DEF good, bad, after, accepted
  <2> QED BY <1>2, <1>3, <1>4, SagaStep DEF AtRest, PendingPC, NewPC
<1>7. TableShape(t) /\ Kept(containers, containers', None)
  <2> HIDE DEF good, bad, after, accepted
  <2> QED BY <1>3, <1>5, KeepingStep
<1>8. ServeShape(t)
  BY <1>4, <1>6 DEF ServeShape, Passed
<1>9. Tracks(t)
  <2> SUFFICES ASSUME Unique(containers), Placed(t, r0, containers),
                      r.pc \in Undoing \cup {"failed"} => r.clean,
                      r.old # None, r.name = r.was
               PROVE  Where(t, r, containers')
    BY <1>4, <1>6 DEF Tracks, Placed
  <2>0. Table(containers)
    BY DEF Sound, TypeOK, Table
  <2>5. Old(r0.was) # r0.was
    BY OldDiffers DEF Saga
  <2>6. r0.was \in Name
    BY DEF Saga
  <2>1. Where(t, r0, containers)
    BY <1>4 DEF Placed, Same, Undoing
  <2>2. \/ r.pc = "failed" /\ accepted /\ containers' = after
        \/ r.pc = "failed" /\ ~accepted /\ containers' = containers
    BY <1>3 DEF Outcome, Alike, Goto, Undoing, Saga
  <2>3. CASE r.pc = "failed" /\ accepted /\ containers' = after
    <3>1. 
          /\ r0.old \in DOMAIN containers /\ containers[r0.old].name = Old(r0.was)
          /\ r0.new = None \/ r0.new \notin DOMAIN containers
      BY <2>1 DEF Where, Is, New, Made
    <3>2. containers' = Renamed(containers, r0.old, r0.name) /\ containers[r0.old] \in Container
      BY <2>0, <2>3, <3>1 DEF Table
    <3> HIDE DEF accepted, after, good, bad
    <3>3. /\ DOMAIN containers' = DOMAIN containers
          /\ \A d \in DOMAIN containers : d # r0.old => containers'[d] = containers[d]
          /\ containers'[r0.old] = [containers[r0.old] EXCEPT !.name = r0.name]
      BY <3>1, <3>2 DEF Renamed
    <3>4. 
          /\ r0.old \in DOMAIN containers' /\ containers'[r0.old].name = r0.name
          /\ r0.new = None \/ r0.new \notin DOMAIN containers'
      BY <2>5, <3>1, <3>2, <3>3 DEF Container
    <3> QED BY <1>4, <2>3, <3>1, <3>4 DEF Where, Is, New, Back, Same, Made
  <2>4. CASE r.pc = "failed" /\ ~accepted /\ containers' = containers
    <3>1. r0.old \in DOMAIN containers /\ ~NameTaken(containers, r0.name)
      BY <1>4, <2>1 DEF Where, Is, Same
    <3> QED BY <2>4, <3>1 DEF MayRename
  <2> QED BY <2>2, <2>3, <2>4
<1>10. Frame(t)
  BY <1>3 DEF Frame, Outcome, Renamed
<1>11. Gives(t)
  BY <1>4, <1>6 DEF Gives, Gave, Replacing, Made
<1>12. Gentle(t)
  BY DEF Gentle, Idling
<1> QED BY <1>6, <1>7, <1>8, <1>9, <1>10, <1>11, <1>12 DEF Shape, Meets

\* The new container gets its access, and keeps name and networks.
LEMMA ApplySettingsStep ==
    ASSUME Sound, NEW t \in Tabs, ApplySettings(t)
    PROVE  Shape(t) /\ Tracks(t) /\ Meets(t)
<1> DEFINE accepted == TRUE
           after == IF sagas[t].new \in DOMAIN containers
                    THEN [containers EXCEPT ![sagas[t].new].access = TRUE] ELSE containers
           good == Goto(t, CASE sagas[t].old = None -> "succeeded"
                            [] sagas[t].old # None /\ sagas[t].todo = {} -> "removeOld"
                            [] OTHER -> "connect")
           bad == Goto(t, "half")
<1> SUFFICES ASSUME NEW r0 \in Saga, r0 = sagas[t], r0.pc = "settings",
                    t \in Actors, t \notin Requests
             PROVE  Shape(t) /\ Tracks(t) /\ Meets(t)
  BY ActorsAssumption DEF Sound, TypeOK, Actors, ApplySettings
<1>1. good \in Saga /\ bad \in Saga
  BY DEF Goto, Saga, AtRest, TabPC, RequestPC
<1>2. UNCHANGED nextId /\ Call(t, accepted, after, good, bad)
  BY DEF ApplySettings
<1>3. PICK r \in Saga : Outcome(t, accepted, after, good, bad, r)
  <2> HIDE DEF good, bad, after, accepted
  <2> QED BY <1>1, <1>2, CallOutcome DEF Sound, TypeOK
<1>4. /\ r.pc \in {"connect", "half", "removeOld", "succeeded"}
      /\ Same(r, r0) /\ r.new = r0.new /\ r.name = r0.name
      /\ r.clean => r0.clean
  BY <1>3 DEF Outcome, Alike, Goto, Same, Saga
<1>5. accepted => Kept(containers, after, None)
  BY GrantedKept, NothingKept DEF Sound, TypeOK, Table
<1>6. SagaShape(t) /\ sagas'[t] = r
  <2> HIDE DEF good, bad, after, accepted
  <2> QED BY <1>2, <1>3, <1>4, SagaStep DEF AtRest, PendingPC, NewPC
<1>7. TableShape(t) /\ Kept(containers, containers', None)
  <2> HIDE DEF good, bad, after, accepted
  <2> QED BY <1>3, <1>5, KeepingStep
<1>8. ServeShape(t)
  BY <1>4, <1>6 DEF ServeShape, Passed
<1>9. Tracks(t)
  <2> SUFFICES ASSUME Unique(containers), Placed(t, r0, containers),
                      r.pc \in Undoing \cup {"failed"} => r.clean,
                      r.old # None, r.name = r.was
               PROVE  Where(t, r, containers')
    BY <1>4, <1>6 DEF Tracks, Placed
  <2>0. Table(containers)
    BY DEF Sound, TypeOK, Table
  <2>5. Old(r0.was) # r0.was
    BY OldDiffers DEF Saga
  <2>6. r0.was \in Name
    BY DEF Saga
  <2>1. Where(t, r0, containers)
    BY <1>4 DEF Placed, Same, Undoing
  <2>2. \/ r.pc \in {"succeeded", "removeOld", "connect"} /\ accepted /\ containers' = after /\ r.todo = r0.todo
           /\ (r.pc = "removeOld" => r.todo = {}) /\ r.pc # "succeeded"
        \/ r.pc = "half"
    BY <1>3 DEF Outcome, Alike, Goto, Undoing, Saga
  <2>3. CASE r.pc \in {"succeeded", "removeOld", "connect"} /\ accepted /\ containers' = after /\ r.todo = r0.todo
           /\ (r.pc = "removeOld" => r.todo = {}) /\ r.pc # "succeeded"
    <3>1. 
          /\ r0.old \in DOMAIN containers /\ containers[r0.old].name = Old(r0.was)
          /\ r0.new \in DOMAIN containers /\ containers[r0.new].name = r0.was
          /\ r0.nets \ r0.todo \subseteq containers[r0.new].nets
          /\ containers[r0.new].running
      BY <2>1 DEF Where, Is, New, Made
    <3>2. containers' = [containers EXCEPT ![r0.new].access = TRUE] /\ containers[r0.new] \in Container
      BY <2>0, <2>3, <3>1 DEF Table
    <3> HIDE DEF accepted, after, good, bad
    <3>3. /\ DOMAIN containers' = DOMAIN containers
          /\ \A d \in DOMAIN containers : d # r0.new => containers'[d] = containers[d]
          /\ containers'[r0.new] = [containers[r0.new] EXCEPT !.access = TRUE]
      BY <3>1, <3>2
    <3>4. 
          /\ r0.old \in DOMAIN containers' /\ containers'[r0.old].name = Old(r0.was)
          /\ r0.new \in DOMAIN containers' /\ containers'[r0.new].name = r0.was
          /\ r0.nets \ r0.todo \subseteq containers'[r0.new].nets
          /\ containers'[r0.new].running
      BY <2>5, <3>1, <3>2, <3>3 DEF Container
    <3> QED BY <1>4, <2>3, <3>1, <3>4 DEF Where, Is, New, Back, Same, Made
  <2>4. CASE r.pc = "half"
    BY <1>4, <2>1, <2>4 DEF Where, Is, New, Back, Same, Undoing, Made
  <2> QED BY <2>2, <2>3, <2>4
<1>10. Frame(t)
  BY <1>3 DEF Frame, Outcome
<1>11. Gives(t)
  <2>1. /\ Replacing(t, r0)
        /\ \A c \in DOMAIN containers : c # r0.new =>
              c \in DOMAIN containers' /\ containers'[c] = containers[c]
    BY <1>3 DEF Outcome, Replacing, Made
  <2> SUFFICES ASSUME Gave(t, r0, containers), Replacing(t, r), r.old # None, r.name = r.was
               PROVE  Successor(t, r, containers')
    BY <1>4, <1>6, <2>1 DEF Gives, Gave
  <2>2. Successor(t, r0, containers)
    BY <1>4, <2>1 DEF Gave, Same
  <2>3. /\ r.pc \in {"removeOld", "connect"} /\ containers' = after
        /\ r.todo = r0.todo /\ (r.pc = "removeOld" => r.todo = {})
    BY <1>3, <1>4 DEF Outcome, Alike, Goto, Replacing, Made, Saga, Same
  <2>4. r0.new \in DOMAIN containers /\ containers[r0.new] \in Container
    BY <2>2 DEF Successor, New, Sound, TypeOK
  <2>5. containers' = [containers EXCEPT ![r0.new].access = TRUE]
    BY <2>3, <2>4
  <2> HIDE DEF accepted, after, good, bad
  <2>6. /\ DOMAIN containers' = DOMAIN containers
        /\ containers'[r0.new] = [containers[r0.new] EXCEPT !.access = TRUE]
    BY <2>4, <2>5
  <2>7. /\ containers'[r0.new].name = containers[r0.new].name
        /\ containers'[r0.new].nets = containers[r0.new].nets /\ containers'[r0.new].ran = containers[r0.new].ran
    BY <2>4, <2>6 DEF Container
  <2> QED BY <1>4, <2>2, <2>3, <2>4, <2>6, <2>7 DEF Successor, New, Same
<1>12. Gentle(t)
  BY DEF Gentle, Idling
<1> QED BY <1>6, <1>7, <1>8, <1>9, <1>10, <1>11, <1>12 DEF Shape, Meets

\* The server gives the old container its second name, or undoes the stop.
LEMMA RenameCurrentStep ==
    ASSUME Sound, NEW q \in Requests, RenameCurrent(q)
    PROVE  Shape(q) /\ Tracks(q) /\ Meets(q)
<1> DEFINE accepted == MayRename(containers, sagas[q].old, Old(sagas[q].was))
           after == Renamed(containers, sagas[q].old, Old(sagas[q].was))
           good == Goto(q, IF sagas[q].todo = {} THEN "create" ELSE "disconnect")
           bad == Restore(q)
<1> SUFFICES ASSUME NEW r0 \in Saga, r0 = sagas[q], r0.pc = "rename",
                    q \in Actors, q \notin Tabs
             PROVE  Shape(q) /\ Tracks(q) /\ Meets(q)
  BY ActorsAssumption DEF Sound, TypeOK, Actors, RenameCurrent
<1>0. r0.new = None
  BY DEF Sound, FreshInv, PendingPC
<1>1. good \in Saga /\ bad \in Saga
  BY DEF Goto, Saga, AtRest, TabPC, RequestPC, Restore
<1>2. UNCHANGED nextId /\ Call(q, accepted, after, good, bad)
  BY DEF RenameCurrent
<1>3. PICK r \in Saga : Outcome(q, accepted, after, good, bad, r)
  <2> HIDE DEF good, bad, after, accepted
  <2> QED BY <1>1, <1>2, CallOutcome DEF Sound, TypeOK
<1>4. /\ r.pc \in {"create", "disconnect", "undoRename"}
      /\ Same(r, r0) /\ r.new = r0.new /\ r.name = r0.name
      /\ r.clean => r0.clean
  BY <1>0, <1>3 DEF Outcome, Alike, Goto, Same, Saga, Restore
<1>5. accepted => Kept(containers, after, None)
  <2>1. Old(sagas[q].was) \in Name
    BY OldDiffers DEF Saga
  <2> QED BY <2>1, RenamedKept DEF Sound, TypeOK, Table
<1>6. SagaShape(q) /\ sagas'[q] = r
  <2> HIDE DEF good, bad, after, accepted
  <2> QED BY <1>2, <1>3, <1>4, SagaStep DEF AtRest, PendingPC, NewPC
<1>7. TableShape(q) /\ Kept(containers, containers', None)
  <2> HIDE DEF good, bad, after, accepted
  <2> QED BY <1>3, <1>5, KeepingStep
<1>8. ServeShape(q)
  <2>4. None \notin DOMAIN containers
    BY DEF Sound, TypeOK, Ids, None
  <2>1. Passed(q)' => Passed(q)
    BY <1>4, <1>6 DEF Passed
  <2>2. \A c \in DOMAIN containers \cap DOMAIN containers' :
           containers[c].running => containers'[c].running
    BY <2>4, <1>7 DEF Kept
  <2>3. sagas'[q].pc \in Owing
    BY <1>4, <1>6 DEF Owing
  <2> QED BY <2>1, <2>2, <2>3 DEF ServeShape
<1>9. Tracks(q)
  <2> SUFFICES ASSUME Unique(containers), Placed(q, r0, containers),
                      r.pc \in Undoing \cup {"failed"} => r.clean,
                      r.old # None, r.name = r.was
               PROVE  Where(q, r, containers')
    BY <1>4, <1>6 DEF Tracks, Placed
  <2>0. Table(containers)
    BY DEF Sound, TypeOK, Table
  <2>5. Old(r0.was) # r0.was
    BY OldDiffers DEF Saga
  <2>6. r0.was \in Name
    BY DEF Saga
  <2>1. Where(q, r0, containers)
    BY <1>4 DEF Placed, Same, Undoing
  <2>2. \/ r.pc \in {"create", "disconnect"} /\ accepted /\ containers' = after
        \/ r.pc = "undoRename" /\ containers' = containers
    BY <1>0, <1>3 DEF Outcome, Alike, Goto, Undoing, Saga, Restore
  <2>3. CASE r.pc \in {"create", "disconnect"} /\ accepted /\ containers' = after
    <3>1. 
          /\ r0.old \in DOMAIN containers /\ containers[r0.old].name = r0.was
          /\ r0.new = None
      BY <2>1 DEF Where, Is, New, Made
    <3>2. containers' = Renamed(containers, r0.old, Old(r0.was)) /\ containers[r0.old] \in Container
      BY <2>0, <2>3, <3>1 DEF Table
    <3> HIDE DEF accepted, after, good, bad
    <3>3. /\ DOMAIN containers' = DOMAIN containers
          /\ \A d \in DOMAIN containers : d # r0.old => containers'[d] = containers[d]
          /\ containers'[r0.old] = [containers[r0.old] EXCEPT !.name = Old(r0.was)]
      BY <3>1, <3>2 DEF Renamed
    <3>4. 
          /\ r0.old \in DOMAIN containers' /\ containers'[r0.old].name = Old(r0.was)
          /\ ~NameTaken(containers', r0.was)
      BY <2>5, <3>1, <3>2, <3>3, <2>6 DEF Container, NameTaken, Unique
    <3> QED BY <1>4, <2>3, <3>1, <3>4 DEF Where, Is, New, Back, Same, Made
  <2>4. CASE r.pc = "undoRename" /\ containers' = containers
    BY <1>4, <2>1, <2>4 DEF Where, Is, New, Back, Same, Undoing, Made
  <2> QED BY <2>2, <2>3, <2>4
<1>10. Frame(q)
  BY <1>3 DEF Frame, Outcome, Renamed
<1>11. Gives(q)
  BY <1>4, <1>6 DEF Gives, Gave, Replacing, Made
<1>12. Gentle(q)
  <2> SUFFICES ASSUME NameTaken(containers, Old(r0.was))
               PROVE  r.pc \in Idling \cup AtRest /\ Gently(containers, containers')
    BY <1>6 DEF Gentle
  <2>1. ~accepted
    BY DEF MayRename
  <2>2. containers' = containers
    BY <1>3, <2>1, Zenon DEF Outcome
  <2>3. r.pc \in Idling \cup AtRest
    BY <2>1, <1>3, <1>0 DEF Outcome, Alike, Goto, Idling, AtRest, Saga, Restore
  <2> QED BY <2>2, <2>3 DEF Gently
<1> QED BY <1>6, <1>7, <1>8, <1>9, <1>10, <1>11, <1>12 DEF Shape, Meets

\* The server takes a network from the old container.
LEMMA DisconnectOneStep ==
    ASSUME Sound, NEW q \in Requests, NEW net \in Networks, DisconnectOne(q, net)
    PROVE  Shape(q) /\ Tracks(q) /\ Meets(q)
<1> DEFINE accepted == MayDisconnect(containers, sagas[q].old, net)
           after == Disconnected(containers, sagas[q].old, net)
           good == [sagas[q] EXCEPT !.todo = sagas[q].todo \ {net},
                             !.pc = IF sagas[q].todo \ {net} = {} THEN "create" ELSE "disconnect"]
           bad == Restore(q)
<1> SUFFICES ASSUME NEW r0 \in Saga, r0 = sagas[q], r0.pc = "disconnect",
                    q \in Actors, q \notin Tabs
             PROVE  Shape(q) /\ Tracks(q) /\ Meets(q)
  BY ActorsAssumption DEF Sound, TypeOK, Actors, DisconnectOne
<1>0. r0.new = None
  BY DEF Sound, FreshInv, PendingPC
<1>1. good \in Saga /\ bad \in Saga
  BY DEF Goto, Saga, AtRest, TabPC, RequestPC, Restore
<1>2. UNCHANGED nextId /\ Call(q, accepted, after, good, bad)
  BY DEF DisconnectOne
<1>3. PICK r \in Saga : Outcome(q, accepted, after, good, bad, r)
  <2> HIDE DEF good, bad, after, accepted
  <2> QED BY <1>1, <1>2, CallOutcome DEF Sound, TypeOK
<1>4. /\ r.pc \in {"create", "disconnect", "undoRename"}
      /\ Same(r, r0) /\ r.new = r0.new /\ r.name = r0.name
      /\ r.clean => r0.clean
  BY <1>0, <1>3 DEF Outcome, Alike, Goto, Same, Saga, Restore
<1>5. accepted => Kept(containers, after, None)
  BY DisconnectedKept DEF Sound, TypeOK, Table
<1>6. SagaShape(q) /\ sagas'[q] = r
  <2> HIDE DEF good, bad, after, accepted
  <2> QED BY <1>2, <1>3, <1>4, SagaStep DEF AtRest, PendingPC, NewPC
<1>7. TableShape(q) /\ Kept(containers, containers', None)
  <2> HIDE DEF good, bad, after, accepted
  <2> QED BY <1>3, <1>5, KeepingStep
<1>8. ServeShape(q)
  <2>4. None \notin DOMAIN containers
    BY DEF Sound, TypeOK, Ids, None
  <2>1. Passed(q)' => Passed(q)
    BY <1>4, <1>6 DEF Passed
  <2>2. \A c \in DOMAIN containers \cap DOMAIN containers' :
           containers[c].running => containers'[c].running
    BY <2>4, <1>7 DEF Kept
  <2>3. sagas'[q].pc \in Owing
    BY <1>4, <1>6 DEF Owing
  <2> QED BY <2>1, <2>2, <2>3 DEF ServeShape
<1>9. Tracks(q)
  <2> SUFFICES ASSUME Unique(containers), Placed(q, r0, containers),
                      r.pc \in Undoing \cup {"failed"} => r.clean,
                      r.old # None, r.name = r.was
               PROVE  Where(q, r, containers')
    BY <1>4, <1>6 DEF Tracks, Placed
  <2>0. Table(containers)
    BY DEF Sound, TypeOK, Table
  <2>5. Old(r0.was) # r0.was
    BY OldDiffers DEF Saga
  <2>6. r0.was \in Name
    BY DEF Saga
  <2>1. Where(q, r0, containers)
    BY <1>4 DEF Placed, Same, Undoing
  <2>2. \/ r.pc \in {"create", "disconnect"} /\ accepted /\ containers' = after
        \/ r.pc = "undoRename" /\ containers' = containers
    BY <1>0, <1>3 DEF Outcome, Alike, Goto, Undoing, Saga, Restore
  <2>3. CASE r.pc \in {"create", "disconnect"} /\ accepted /\ containers' = after
    <3>1. 
          /\ r0.old \in DOMAIN containers /\ containers[r0.old].name = Old(r0.was)
          /\ r0.new = None
          /\ ~NameTaken(containers, r0.was)
      BY <2>1 DEF Where, Is, New, Made
    <3>2. containers' = Disconnected(containers, r0.old, net) /\ containers[r0.old] \in Container
      BY <2>0, <2>3, <3>1 DEF Table
    <3> HIDE DEF accepted, after, good, bad
    <3>3. /\ DOMAIN containers' = DOMAIN containers
          /\ \A d \in DOMAIN containers : d # r0.old => containers'[d] = containers[d]
          /\ containers'[r0.old] = [containers[r0.old] EXCEPT !.nets = containers[r0.old].nets \ {net}]
      BY <3>1, <3>2 DEF Disconnected
    <3>4. 
          /\ r0.old \in DOMAIN containers' /\ containers'[r0.old].name = Old(r0.was)
          /\ ~NameTaken(containers', r0.was)
      BY <2>5, <3>1, <3>2, <3>3 DEF Container, NameTaken
    <3> QED BY <1>4, <2>3, <3>1, <3>4 DEF Where, Is, New, Back, Same, Made
  <2>4. CASE r.pc = "undoRename" /\ containers' = containers
    BY <1>4, <2>1, <2>4 DEF Where, Is, New, Back, Same, Undoing, Made
  <2> QED BY <2>2, <2>3, <2>4
<1>10. Frame(q)
  BY <1>3 DEF Frame, Outcome, Disconnected
<1>11. Gives(q)
  BY <1>4, <1>6 DEF Gives, Gave, Replacing, Made
<1>12. Gentle(q)
  BY DEF Gentle, Idling
<1> QED BY <1>6, <1>7, <1>8, <1>9, <1>10, <1>11, <1>12 DEF Shape, Meets

\* The server gives the new container a network, one fewer to do.
LEMMA ConnectNextStep ==
    ASSUME Sound, NEW q \in Requests, NEW net \in Networks, ConnectNext(q, net)
    PROVE  Shape(q) /\ Tracks(q) /\ Meets(q)
<1> DEFINE accepted == MayConnect(containers, sagas[q].new, net)
           after == Connected(containers, sagas[q].new, net)
           good == [sagas[q] EXCEPT !.todo = sagas[q].todo \ {net},
                             !.pc = IF sagas[q].todo \ {net} = {} THEN "start" ELSE "connect"]
           bad == Restore(q)
<1> SUFFICES ASSUME NEW r0 \in Saga, r0 = sagas[q], r0.pc = "connect",
                    q \in Actors, q \notin Tabs
             PROVE  Shape(q) /\ Tracks(q) /\ Meets(q)
  BY ActorsAssumption DEF Sound, TypeOK, Actors, ConnectNext
<1>1. good \in Saga /\ bad \in Saga
  BY DEF Goto, Saga, AtRest, TabPC, RequestPC, Restore
<1>2. UNCHANGED nextId /\ Call(q, accepted, after, good, bad)
  BY DEF ConnectNext
<1>3. PICK r \in Saga : Outcome(q, accepted, after, good, bad, r)
  <2> HIDE DEF good, bad, after, accepted
  <2> QED BY <1>1, <1>2, CallOutcome DEF Sound, TypeOK
<1>4. /\ r.pc \in {"connect", "start", "undoRename", "undoStop"}
      /\ Same(r, r0) /\ r.new = r0.new /\ r.name = r0.name
      /\ r.clean => r0.clean
  BY <1>3 DEF Outcome, Alike, Goto, Same, Saga, Restore
<1>5. accepted => Kept(containers, after, None)
  BY ConnectedKept DEF Sound, TypeOK, Table
<1>6. SagaShape(q) /\ sagas'[q] = r
  <2> HIDE DEF good, bad, after, accepted
  <2> QED BY <1>2, <1>3, <1>4, SagaStep DEF AtRest, PendingPC, NewPC
<1>7. TableShape(q) /\ Kept(containers, containers', None)
  <2> HIDE DEF good, bad, after, accepted
  <2> QED BY <1>3, <1>5, KeepingStep
<1>8. ServeShape(q)
  <2>4. None \notin DOMAIN containers
    BY DEF Sound, TypeOK, Ids, None
  <2>1. Passed(q)' => Passed(q)
    BY <1>4, <1>6 DEF Passed
  <2>2. \A c \in DOMAIN containers \cap DOMAIN containers' :
           containers[c].running => containers'[c].running
    BY <2>4, <1>7 DEF Kept
  <2>3. sagas'[q].pc \in Owing
    BY <1>4, <1>6 DEF Owing
  <2> QED BY <2>1, <2>2, <2>3 DEF ServeShape
<1>9. Tracks(q)
  <2> SUFFICES ASSUME Unique(containers), Placed(q, r0, containers),
                      r.pc \in Undoing \cup {"failed"} => r.clean,
                      r.old # None, r.name = r.was
               PROVE  Where(q, r, containers')
    BY <1>4, <1>6 DEF Tracks, Placed
  <2>0. Table(containers)
    BY DEF Sound, TypeOK, Table
  <2>5. Old(r0.was) # r0.was
    BY OldDiffers DEF Saga
  <2>6. r0.was \in Name
    BY DEF Saga
  <2>1. Where(q, r0, containers)
    BY <1>4 DEF Placed, Same, Undoing
  <2>2. \/ r.pc \in {"start", "connect"} /\ accepted /\ containers' = after
           /\ r.todo = r0.todo \ {net} /\ (r.pc = "start" => r.todo = {})
        \/ r.pc \in {"undoRename", "undoStop"} /\ containers' = containers /\ (r0.new # None => r.pc = "undoStop")
    BY <1>3 DEF Outcome, Alike, Goto, Undoing, Saga, Restore
  <2>3. CASE r.pc \in {"start", "connect"} /\ accepted /\ containers' = after
           /\ r.todo = r0.todo \ {net} /\ (r.pc = "start" => r.todo = {})
    <3>1. 
          /\ r0.old \in DOMAIN containers /\ containers[r0.old].name = Old(r0.was)
          /\ r0.new \in DOMAIN containers /\ containers[r0.new].name = r0.was
          /\ r0.nets \ r0.todo \subseteq containers[r0.new].nets
      BY <2>1 DEF Where, Is, New, Made
    <3>2. containers' = Connected(containers, r0.new, net) /\ containers[r0.new] \in Container
      BY <2>0, <2>3, <3>1 DEF Table
    <3> HIDE DEF accepted, after, good, bad
    <3>3. /\ DOMAIN containers' = DOMAIN containers
          /\ \A d \in DOMAIN containers : d # r0.new => containers'[d] = containers[d]
          /\ containers'[r0.new] = [containers[r0.new] EXCEPT !.nets = containers[r0.new].nets \cup {net}]
      BY <3>1, <3>2 DEF Connected
    <3>4. 
          /\ r0.old \in DOMAIN containers' /\ containers'[r0.old].name = Old(r0.was)
          /\ r0.new \in DOMAIN containers' /\ containers'[r0.new].name = r0.was
          /\ r0.nets \ (r0.todo \ {net}) \subseteq containers'[r0.new].nets
      BY <2>5, <3>1, <3>2, <3>3 DEF Container
    <3> QED BY <1>4, <2>3, <3>1, <3>4 DEF Where, Is, New, Back, Same, Made
  <2>4. CASE r.pc \in {"undoRename", "undoStop"} /\ containers' = containers /\ (r0.new # None => r.pc = "undoStop")
    <3>1. r0.new # None
      BY <2>0, <2>1 DEF Where, New, Made, Table, Ids, None
    <3> QED BY <1>4, <2>1, <2>4, <3>1 DEF Where, Is, New, Same, Made
  <2> QED BY <2>2, <2>3, <2>4
<1>10. Frame(q)
  BY <1>3 DEF Frame, Outcome, Connected
<1>11. Gives(q)
  <2>1. /\ Replacing(q, r0)
        /\ \A c \in DOMAIN containers : c # r0.new =>
              c \in DOMAIN containers' /\ containers'[c] = containers[c]
    BY <1>3 DEF Outcome, Replacing, Made, Connected
  <2> SUFFICES ASSUME Gave(q, r0, containers), Replacing(q, r), r.old # None, r.name = r.was
               PROVE  Successor(q, r, containers')
    BY <1>4, <1>6, <2>1 DEF Gives, Gave
  <2>2. Successor(q, r0, containers)
    BY <1>4, <2>1 DEF Gave, Same
  <2>3. /\ r.pc \in {"start", "connect"} /\ accepted /\ containers' = after
        /\ r.todo = r0.todo \ {net} /\ (r.pc = "start" => r.todo = {})
    BY <1>3, <1>4 DEF Outcome, Alike, Goto, Replacing, Made, Saga, Same, Restore
  <2>4. r0.new \in DOMAIN containers /\ containers[r0.new] \in Container
    BY <2>2 DEF Successor, New, Sound, TypeOK
  <2>5. containers' = Connected(containers, r0.new, net)
    BY <2>3, <2>4
  <2> HIDE DEF accepted, after, good, bad
  <2>6. /\ DOMAIN containers' = DOMAIN containers
        /\ containers'[r0.new] = [containers[r0.new] EXCEPT !.nets = containers[r0.new].nets \cup {net}]
    BY <2>4, <2>5 DEF Connected
  <2>7. /\ containers'[r0.new].name = containers[r0.new].name
        /\ containers'[r0.new].nets = containers[r0.new].nets \cup {net}
    BY <2>4, <2>6 DEF Container
  <2> QED BY <1>4, <2>2, <2>3, <2>4, <2>6, <2>7 DEF Successor, New, Same
<1>12. Gentle(q)
  BY DEF Gentle, Idling
<1> QED BY <1>6, <1>7, <1>8, <1>9, <1>10, <1>11, <1>12 DEF Shape, Meets

\* The server starts the new container, which settles what it owes.
LEMMA StartAgainStep ==
    ASSUME Sound, NEW q \in Requests, StartAgain(q)
    PROVE  Shape(q) /\ Tracks(q) /\ Meets(q)
<1> DEFINE accepted == sagas[q].new \in DOMAIN containers
           after == Started(containers, sagas[q].new)
           good == Goto(q, "removeOld")
           bad == Restore(q)
<1> SUFFICES ASSUME NEW r0 \in Saga, r0 = sagas[q], r0.pc = "start",
                    q \in Actors, q \notin Tabs
             PROVE  Shape(q) /\ Tracks(q) /\ Meets(q)
  BY ActorsAssumption DEF Sound, TypeOK, Actors, StartAgain
<1>1. good \in Saga /\ bad \in Saga
  BY DEF Goto, Saga, AtRest, TabPC, RequestPC, Restore
<1>2. UNCHANGED nextId /\ Call(q, accepted, after, good, bad)
  BY DEF StartAgain
<1>3. PICK r \in Saga : Outcome(q, accepted, after, good, bad, r)
  <2> HIDE DEF good, bad, after, accepted
  <2> QED BY <1>1, <1>2, CallOutcome DEF Sound, TypeOK
<1>4. /\ r.pc \in {"removeOld", "undoRename", "undoStop"}
      /\ Same(r, r0) /\ r.new = r0.new /\ r.name = r0.name
      /\ r.clean => r0.clean
  BY <1>3 DEF Outcome, Alike, Goto, Same, Saga, Restore
<1>5. accepted => Kept(containers, after, None)
  BY StartedKept DEF Sound, TypeOK, Table
<1>6. SagaShape(q) /\ sagas'[q] = r
  <2> HIDE DEF good, bad, after, accepted
  <2> QED BY <1>2, <1>3, <1>4, SagaStep DEF AtRest, PendingPC, NewPC
<1>7. TableShape(q) /\ Kept(containers, containers', None)
  <2> HIDE DEF good, bad, after, accepted
  <2> QED BY <1>3, <1>5, KeepingStep
<1>8. ServeShape(q)
  <2>4. None \notin DOMAIN containers
    BY DEF Sound, TypeOK, Ids, None
  <2>5. r.pc = "removeOld" => sagas[q].new \in DOMAIN containers /\ containers' = Started(containers, sagas[q].new)
    BY <1>3 DEF Outcome, Alike, Goto, Saga, Restore
  <2>1. Passed(q)' => /\ sagas[q].new \in DOMAIN containers
                      /\ containers' = Started(containers, sagas[q].new)
    BY <1>4, <1>6, <2>5 DEF Passed
  <2>2. \A c \in DOMAIN containers \cap DOMAIN containers' :
           containers[c].running => containers'[c].running
    BY <2>4, <1>7 DEF Kept
  <2>3. sagas'[q].pc \in Owing \/ Passed(q)'
    BY <1>4, <1>6 DEF Owing, Passed
  <2> QED BY <2>1, <2>2, <2>3 DEF ServeShape
<1>9. Tracks(q)
  <2> SUFFICES ASSUME Unique(containers), Placed(q, r0, containers),
                      r.pc \in Undoing \cup {"failed"} => r.clean,
                      r.old # None, r.name = r.was
               PROVE  Where(q, r, containers')
    BY <1>4, <1>6 DEF Tracks, Placed
  <2>0. Table(containers)
    BY DEF Sound, TypeOK, Table
  <2>5. Old(r0.was) # r0.was
    BY OldDiffers DEF Saga
  <2>6. r0.was \in Name
    BY DEF Saga
  <2>1. Where(q, r0, containers)
    BY <1>4 DEF Placed, Same, Undoing
  <2>2. \/ r.pc = "removeOld" /\ accepted /\ containers' = after /\ r.todo = r0.todo
        \/ r.pc \in {"undoRename", "undoStop"} /\ containers' = containers /\ (r0.new # None => r.pc = "undoStop")
    BY <1>3 DEF Outcome, Alike, Goto, Undoing, Saga, Restore
  <2>3. CASE r.pc = "removeOld" /\ accepted /\ containers' = after /\ r.todo = r0.todo
    <3>1. 
          /\ r0.old \in DOMAIN containers /\ containers[r0.old].name = Old(r0.was)
          /\ r0.new \in DOMAIN containers /\ containers[r0.new].name = r0.was
          /\ r0.nets \ r0.todo \subseteq containers[r0.new].nets
          /\ r0.todo = {}
      BY <2>1 DEF Where, Is, New, Made
    <3>2. containers' = Started(containers, r0.new) /\ containers[r0.new] \in Container
      BY <2>0, <2>3, <3>1 DEF Table
    <3> HIDE DEF accepted, after, good, bad
    <3>3. /\ DOMAIN containers' = DOMAIN containers
          /\ \A d \in DOMAIN containers : d # r0.new => containers'[d] = containers[d]
          /\ containers'[r0.new] = [containers[r0.new] EXCEPT !.running = TRUE, !.ran = TRUE]
      BY <3>1, <3>2 DEF Started
    <3>4. 
          /\ r0.old \in DOMAIN containers' /\ containers'[r0.old].name = Old(r0.was)
          /\ r0.new \in DOMAIN containers' /\ containers'[r0.new].name = r0.was
          /\ r0.nets \ r0.todo \subseteq containers'[r0.new].nets
          /\ containers'[r0.new].running
      BY <2>5, <3>1, <3>2, <3>3 DEF Container
    <3> QED BY <1>4, <2>3, <3>1, <3>4 DEF Where, Is, New, Back, Same, Made
  <2>4. CASE r.pc \in {"undoRename", "undoStop"} /\ containers' = containers /\ (r0.new # None => r.pc = "undoStop")
    <3>1. r0.new # None
      BY <2>0, <2>1 DEF Where, New, Made, Table, Ids, None
    <3> QED BY <1>4, <2>1, <2>4, <3>1 DEF Where, Is, New, Same, Made
  <2> QED BY <2>2, <2>3, <2>4
<1>10. Frame(q)
  BY <1>3 DEF Frame, Outcome, Started
<1>11. Gives(q)
  <2>1. /\ Replacing(q, r0)
        /\ \A c \in DOMAIN containers : c # r0.new =>
              c \in DOMAIN containers' /\ containers'[c] = containers[c]
    BY <1>3 DEF Outcome, Replacing, Made, Started
  <2> SUFFICES ASSUME Gave(q, r0, containers), Replacing(q, r), r.old # None, r.name = r.was
               PROVE  Successor(q, r, containers')
    BY <1>4, <1>6, <2>1 DEF Gives, Gave
  <2>2. Successor(q, r0, containers)
    BY <1>4, <2>1 DEF Gave, Same
  <2>3. /\ r.pc = "removeOld" /\ accepted /\ containers' = after
        /\ r.todo = r0.todo
    BY <1>3, <1>4 DEF Outcome, Alike, Goto, Replacing, Made, Saga, Same, Restore
  <2>4. r0.new \in DOMAIN containers /\ containers[r0.new] \in Container
    BY <2>2 DEF Successor, New, Sound, TypeOK
  <2>5. containers' = Started(containers, r0.new)
    BY <2>3, <2>4
  <2> HIDE DEF accepted, after, good, bad
  <2>6. /\ DOMAIN containers' = DOMAIN containers
        /\ containers'[r0.new] = [containers[r0.new] EXCEPT !.running = TRUE, !.ran = TRUE]
    BY <2>4, <2>5 DEF Started
  <2>7. /\ containers'[r0.new].name = containers[r0.new].name
        /\ containers'[r0.new].nets = containers[r0.new].nets /\ containers'[r0.new].ran
    BY <2>4, <2>6 DEF Container
  <2> QED BY <1>4, <2>2, <2>3, <2>4, <2>6, <2>7 DEF Successor, New, Same
<1>12. Gentle(q)
  BY DEF Gentle, Idling
<1> QED BY <1>6, <1>7, <1>8, <1>9, <1>10, <1>11, <1>12 DEF Shape, Meets

\* The new container inherits its access; the old one is gone already.
LEMMA InheritStep ==
    ASSUME Sound, NEW q \in Requests, Inherit(q)
    PROVE  Shape(q) /\ Tracks(q) /\ Meets(q)
<1> DEFINE accepted == sagas[q].new \in DOMAIN containers
           after == [containers EXCEPT ![sagas[q].new].access = TRUE]
           good == Goto(q, "succeeded")
           bad == Goto(q, "half")
<1> SUFFICES ASSUME NEW r0 \in Saga, r0 = sagas[q], r0.pc = "settings",
                    q \in Actors, q \notin Tabs
             PROVE  Shape(q) /\ Tracks(q) /\ Meets(q)
  BY ActorsAssumption DEF Sound, TypeOK, Actors, Inherit
<1>1. good \in Saga /\ bad \in Saga
  BY DEF Goto, Saga, AtRest, TabPC, RequestPC
<1>2. UNCHANGED nextId /\ Call(q, accepted, after, good, bad)
  BY DEF Inherit
<1>3. PICK r \in Saga : Outcome(q, accepted, after, good, bad, r)
  <2> HIDE DEF good, bad, after, accepted
  <2> QED BY <1>1, <1>2, CallOutcome DEF Sound, TypeOK
<1>4. /\ r.pc \in {"half", "succeeded"}
      /\ Same(r, r0) /\ r.new = r0.new /\ r.name = r0.name
      /\ r.clean => r0.clean
  BY <1>3 DEF Outcome, Alike, Goto, Same, Saga
<1>5. accepted => Kept(containers, after, None)
  BY GrantedKept DEF Sound, TypeOK, Table
<1>6. SagaShape(q) /\ sagas'[q] = r
  <2> HIDE DEF good, bad, after, accepted
  <2> QED BY <1>2, <1>3, <1>4, SagaStep DEF AtRest, PendingPC, NewPC
<1>7. TableShape(q) /\ Kept(containers, containers', None)
  <2> HIDE DEF good, bad, after, accepted
  <2> QED BY <1>3, <1>5, KeepingStep
<1>8. ServeShape(q)
  <2>4. None \notin DOMAIN containers
    BY DEF Sound, TypeOK, Ids, None
  <2>1. Passed(q)' => Passed(q)
    BY <1>4, <1>6 DEF Passed
  <2>2. \A c \in DOMAIN containers \cap DOMAIN containers' :
           containers[c].running => containers'[c].running
    BY <2>4, <1>7 DEF Kept
  <2>3. sagas[q].pc \notin Owing
    BY DEF Owing
  <2> QED BY <2>1, <2>2, <2>3 DEF ServeShape
<1>9. Tracks(q)
  <2> SUFFICES ASSUME Unique(containers), Placed(q, r0, containers),
                      r.pc \in Undoing \cup {"failed"} => r.clean,
                      r.old # None, r.name = r.was
               PROVE  Where(q, r, containers')
    BY <1>4, <1>6 DEF Tracks, Placed
  <2>0. Table(containers)
    BY DEF Sound, TypeOK, Table
  <2>5. Old(r0.was) # r0.was
    BY OldDiffers DEF Saga
  <2>6. r0.was \in Name
    BY DEF Saga
  <2>1. Where(q, r0, containers)
    BY <1>4 DEF Placed, Same, Undoing
  <2>2. \/ r.pc = "succeeded" /\ accepted /\ containers' = after
        \/ r.pc = "half"
    BY <1>3 DEF Outcome, Alike, Goto, Undoing, Saga
  <2>3. CASE r.pc = "succeeded" /\ accepted /\ containers' = after
    BY <2>3 DEF Where, Made
  <2>4. CASE r.pc = "half"
    BY <1>4, <2>1, <2>4 DEF Where, Is, New, Back, Same, Undoing, Made
  <2> QED BY <2>2, <2>3, <2>4
<1>10. Frame(q)
  BY <1>3 DEF Frame, Outcome
<1>11. Gives(q)
  BY <1>4, <1>6 DEF Gives, Gave, Replacing, Made
<1>12. Gentle(q)
  BY DEF Gentle, Idling
<1> QED BY <1>6, <1>7, <1>8, <1>9, <1>10, <1>11, <1>12 DEF Shape, Meets

\* The undoing gives the old container its name back, or it has it still.
LEMMA UndoRenameStep ==
    ASSUME Sound, NEW q \in Requests, UndoRename(q)
    PROVE  Shape(q) /\ Tracks(q) /\ Meets(q)
<1> DEFINE accepted == MayRename(containers, sagas[q].old, sagas[q].was)
           after == Renamed(containers, sagas[q].old, sagas[q].was)
           good == [sagas[q] EXCEPT !.pc = IF sagas[q].nets = {} THEN "undoStart" ELSE "undoConnect",
                             !.todo = sagas[q].nets]
           bad == [sagas[q] EXCEPT !.pc = IF sagas[q].nets = {} THEN "undoStart" ELSE "undoConnect",
                             !.todo = sagas[q].nets]
<1> SUFFICES ASSUME NEW r0 \in Saga, r0 = sagas[q], r0.pc = "undoRename",
                    q \in Actors, q \notin Tabs
             PROVE  Shape(q) /\ Tracks(q) /\ Meets(q)
  BY ActorsAssumption DEF Sound, TypeOK, Actors, UndoRename
<1>1. good \in Saga /\ bad \in Saga
  BY DEF Goto, Saga, AtRest, TabPC, RequestPC
<1>2. UNCHANGED nextId /\ Call(q, accepted, after, good, bad)
  BY DEF UndoRename
<1>3. PICK r \in Saga : Outcome(q, accepted, after, good, bad, r)
  <2> HIDE DEF good, bad, after, accepted
  <2> QED BY <1>1, <1>2, CallOutcome DEF Sound, TypeOK
<1>4. /\ r.pc \in {"undoConnect", "undoStart"}
      /\ Same(r, r0) /\ r.new = r0.new /\ r.name = r0.name
      /\ r.clean => r0.clean
  BY <1>3 DEF Outcome, Alike, Goto, Same, Saga
<1>5. accepted => Kept(containers, after, None)
  <2>1. sagas[q].was \in Name
    BY DEF Saga
  <2> QED BY <2>1, RenamedKept DEF Sound, TypeOK, Table
<1>6. SagaShape(q) /\ sagas'[q] = r
  <2> HIDE DEF good, bad, after, accepted
  <2> QED BY <1>2, <1>3, <1>4, SagaStep DEF AtRest, PendingPC, NewPC
<1>7. TableShape(q) /\ Kept(containers, containers', None)
  <2> HIDE DEF good, bad, after, accepted
  <2> QED BY <1>3, <1>5, KeepingStep
<1>8. ServeShape(q)
  <2>4. None \notin DOMAIN containers
    BY DEF Sound, TypeOK, Ids, None
  <2>1. Passed(q)' => Passed(q)
    BY <1>4, <1>6 DEF Passed
  <2>2. \A c \in DOMAIN containers \cap DOMAIN containers' :
           containers[c].running => containers'[c].running
    BY <2>4, <1>7 DEF Kept
  <2>3. sagas'[q].pc \in Owing
    BY <1>4, <1>6 DEF Owing
  <2> QED BY <2>1, <2>2, <2>3 DEF ServeShape
<1>9. Tracks(q)
  <2> SUFFICES ASSUME Unique(containers), Placed(q, r0, containers),
                      r.pc \in Undoing \cup {"failed"} => r.clean,
                      r.old # None, r.name = r.was
               PROVE  Where(q, r, containers')
    BY <1>4, <1>6 DEF Tracks, Placed
  <2>0. Table(containers)
    BY DEF Sound, TypeOK, Table
  <2>5. Old(r0.was) # r0.was
    BY OldDiffers DEF Saga
  <2>6. r0.was \in Name
    BY DEF Saga
  <2>1. Where(q, r0, containers)
    BY <1>4 DEF Placed, Same, Undoing
  <2>2. \/ r.pc \in {"undoStart", "undoConnect"} /\ accepted /\ containers' = after /\ r.todo = r0.nets
           /\ (r.pc = "undoStart" => r0.nets = {})
        \/ r.pc \in {"undoStart", "undoConnect"} /\ ~accepted /\ containers' = containers /\ r.todo = r0.nets
           /\ (r.pc = "undoStart" => r0.nets = {})
    BY <1>3 DEF Outcome, Alike, Goto, Undoing, Saga
  <2>3. CASE r.pc \in {"undoStart", "undoConnect"} /\ accepted /\ containers' = after /\ r.todo = r0.nets
           /\ (r.pc = "undoStart" => r0.nets = {})
    <3>1. 
          /\ r0.old \in DOMAIN containers
          /\ r0.new = None \/ r0.new \notin DOMAIN containers
      BY <2>1 DEF Where, Is, New, Made
    <3>2. containers' = Renamed(containers, r0.old, r0.was) /\ containers[r0.old] \in Container
      BY <2>0, <2>3, <3>1 DEF Table
    <3> HIDE DEF accepted, after, good, bad
    <3>3. /\ DOMAIN containers' = DOMAIN containers
          /\ \A d \in DOMAIN containers : d # r0.old => containers'[d] = containers[d]
          /\ containers'[r0.old] = [containers[r0.old] EXCEPT !.name = r0.was]
      BY <3>1, <3>2 DEF Renamed
    <3>4. 
          /\ r0.old \in DOMAIN containers' /\ containers'[r0.old].name = r0.was
          /\ r0.new = None \/ r0.new \notin DOMAIN containers'
      BY <2>5, <3>1, <3>2, <3>3 DEF Container
    <3> QED BY <1>4, <2>3, <3>1, <3>4 DEF Where, Is, New, Back, Same, Made
  <2>4. CASE r.pc \in {"undoStart", "undoConnect"} /\ ~accepted /\ containers' = containers /\ r.todo = r0.nets
           /\ (r.pc = "undoStart" => r0.nets = {})
    <3>1. Is(r0, containers, r0.was)
      BY <2>1, <2>4 DEF Where, Is, MayRename
    <3> QED BY <1>4, <2>1, <2>4, <3>1 DEF Where, Is, Same, Made
  <2> QED BY <2>2, <2>3, <2>4
<1>10. Frame(q)
  BY <1>3 DEF Frame, Outcome, Renamed
<1>11. Gives(q)
  BY <1>4, <1>6 DEF Gives, Gave, Replacing, Made
<1>12. Gentle(q)
  <2> SUFFICES ASSUME NameTaken(containers, r0.was)
               PROVE  r.pc \in Idling \cup AtRest /\ Gently(containers, containers')
    BY <1>6 DEF Gentle
  <2>1. ~accepted
    BY DEF MayRename
  <2>2. containers' = containers
    BY <1>3, <2>1, Zenon DEF Outcome
  <2>3. r.pc \in Idling \cup AtRest
    BY <2>1, <1>3 DEF Outcome, Alike, Goto, Idling, AtRest, Saga
  <2> QED BY <2>2, <2>3 DEF Gently
<1> QED BY <1>6, <1>7, <1>8, <1>9, <1>10, <1>11, <1>12 DEF Shape, Meets

\* The undoing gives the old container a network back, or it has it still.
LEMMA UndoConnectStep ==
    ASSUME Sound, NEW q \in Requests, NEW net \in Networks, UndoConnect(q, net)
    PROVE  Shape(q) /\ Tracks(q) /\ Meets(q)
<1> DEFINE accepted == MayConnect(containers, sagas[q].old, net)
           after == Connected(containers, sagas[q].old, net)
           good == [sagas[q] EXCEPT !.todo = sagas[q].todo \ {net},
                             !.pc = IF sagas[q].todo \ {net} = {} THEN "undoStart" ELSE "undoConnect"]
           bad == [sagas[q] EXCEPT !.todo = sagas[q].todo \ {net},
                             !.pc = IF sagas[q].todo \ {net} = {} THEN "undoStart" ELSE "undoConnect"]
<1> SUFFICES ASSUME NEW r0 \in Saga, r0 = sagas[q], r0.pc = "undoConnect",
                    q \in Actors, q \notin Tabs
             PROVE  Shape(q) /\ Tracks(q) /\ Meets(q)
  BY ActorsAssumption DEF Sound, TypeOK, Actors, UndoConnect
<1>1. good \in Saga /\ bad \in Saga
  BY DEF Goto, Saga, AtRest, TabPC, RequestPC
<1>2. UNCHANGED nextId /\ Call(q, accepted, after, good, bad)
  BY DEF UndoConnect
<1>3. PICK r \in Saga : Outcome(q, accepted, after, good, bad, r)
  <2> HIDE DEF good, bad, after, accepted
  <2> QED BY <1>1, <1>2, CallOutcome DEF Sound, TypeOK
<1>4. /\ r.pc \in {"undoConnect", "undoStart"}
      /\ Same(r, r0) /\ r.new = r0.new /\ r.name = r0.name
      /\ r.clean => r0.clean
  BY <1>3 DEF Outcome, Alike, Goto, Same, Saga
<1>5. accepted => Kept(containers, after, None)
  BY ConnectedKept DEF Sound, TypeOK, Table
<1>6. SagaShape(q) /\ sagas'[q] = r
  <2> HIDE DEF good, bad, after, accepted
  <2> QED BY <1>2, <1>3, <1>4, SagaStep DEF AtRest, PendingPC, NewPC
<1>7. TableShape(q) /\ Kept(containers, containers', None)
  <2> HIDE DEF good, bad, after, accepted
  <2> QED BY <1>3, <1>5, KeepingStep
<1>8. ServeShape(q)
  <2>4. None \notin DOMAIN containers
    BY DEF Sound, TypeOK, Ids, None
  <2>1. Passed(q)' => Passed(q)
    BY <1>4, <1>6 DEF Passed
  <2>2. \A c \in DOMAIN containers \cap DOMAIN containers' :
           containers[c].running => containers'[c].running
    BY <2>4, <1>7 DEF Kept
  <2>3. sagas'[q].pc \in Owing
    BY <1>4, <1>6 DEF Owing
  <2> QED BY <2>1, <2>2, <2>3 DEF ServeShape
<1>9. Tracks(q)
  <2> SUFFICES ASSUME Unique(containers), Placed(q, r0, containers),
                      r.pc \in Undoing \cup {"failed"} => r.clean,
                      r.old # None, r.name = r.was
               PROVE  Where(q, r, containers')
    BY <1>4, <1>6 DEF Tracks, Placed
  <2>0. Table(containers)
    BY DEF Sound, TypeOK, Table
  <2>5. Old(r0.was) # r0.was
    BY OldDiffers DEF Saga
  <2>6. r0.was \in Name
    BY DEF Saga
  <2>1. Where(q, r0, containers)
    BY <1>4 DEF Placed, Same, Undoing
  <2>2. \/ r.pc \in {"undoStart", "undoConnect"} /\ accepted /\ containers' = after
           /\ r.todo = r0.todo \ {net} /\ (r.pc = "undoStart" => r.todo = {})
        \/ r.pc \in {"undoStart", "undoConnect"} /\ ~accepted /\ containers' = containers
           /\ r.todo = r0.todo \ {net} /\ (r.pc = "undoStart" => r.todo = {})
    BY <1>3 DEF Outcome, Alike, Goto, Undoing, Saga
  <2>3. CASE r.pc \in {"undoStart", "undoConnect"} /\ accepted /\ containers' = after
           /\ r.todo = r0.todo \ {net} /\ (r.pc = "undoStart" => r.todo = {})
    <3>1. 
          /\ r0.old \in DOMAIN containers /\ containers[r0.old].name = r0.was
          /\ r0.new = None \/ r0.new \notin DOMAIN containers
          /\ r0.nets \ r0.todo \subseteq containers[r0.old].nets
      BY <2>1 DEF Where, Is, New, Made
    <3>2. containers' = Connected(containers, r0.old, net) /\ containers[r0.old] \in Container
      BY <2>0, <2>3, <3>1 DEF Table
    <3> HIDE DEF accepted, after, good, bad
    <3>3. /\ DOMAIN containers' = DOMAIN containers
          /\ \A d \in DOMAIN containers : d # r0.old => containers'[d] = containers[d]
          /\ containers'[r0.old] = [containers[r0.old] EXCEPT !.nets = containers[r0.old].nets \cup {net}]
      BY <3>1, <3>2 DEF Connected
    <3>4. 
          /\ r0.old \in DOMAIN containers' /\ containers'[r0.old].name = r0.was
          /\ r0.new = None \/ r0.new \notin DOMAIN containers'
          /\ r0.nets \ (r0.todo \ {net}) \subseteq containers'[r0.old].nets
      BY <2>5, <3>1, <3>2, <3>3 DEF Container
    <3> QED BY <1>4, <2>3, <3>1, <3>4 DEF Where, Is, New, Back, Same, Made
  <2>4. CASE r.pc \in {"undoStart", "undoConnect"} /\ ~accepted /\ containers' = containers
           /\ r.todo = r0.todo \ {net} /\ (r.pc = "undoStart" => r.todo = {})
    <3>1. Is(r0, containers, r0.was) /\ net \in containers[r0.old].nets
      BY <2>1, <2>4 DEF Where, Is, MayConnect
    <3> QED BY <1>4, <2>1, <2>4, <3>1 DEF Where, Is, Same, Made
  <2> QED BY <2>2, <2>3, <2>4
<1>10. Frame(q)
  BY <1>3 DEF Frame, Outcome, Connected
<1>11. Gives(q)
  BY <1>4, <1>6 DEF Gives, Gave, Replacing, Made
<1>12. Gentle(q)
  <2>1. r.pc \in Idling \cup AtRest
    BY <1>4 DEF Idling, AtRest
  <2>2. Gently(containers, containers')
    BY <1>3, ConnectedGently DEF Gently, Outcome, Sound, TypeOK, Table
  <2> QED BY <1>6, <2>1, <2>2 DEF Gentle
<1> QED BY <1>6, <1>7, <1>8, <1>9, <1>10, <1>11, <1>12 DEF Shape, Meets

-----------------------------------------------------------------------------
(* Those that remove a container.                                          *)

\* A call that removes a container or leaves all of them.
LEMMA RemovingStep ==
    ASSUME Sound, NEW s, NEW y,
           (Fragile(s) /\ y = sagas[s].new) \/ (Passed(s) /\ y = sagas[s].old),
           containers' = containers \/ containers' = Removed(containers, y)
    PROVE  /\ TableShape(s)
           /\ \A c \in DOMAIN containers' : c \in DOMAIN containers /\ containers'[c] = containers[c]
<1>1. /\ DOMAIN containers' \subseteq DOMAIN containers
      /\ \A c \in DOMAIN containers' : containers'[c] = containers[c]
      /\ \A c \in DOMAIN containers : c # y => c \in DOMAIN containers'
  BY DEF Removed
<1>2. Table(containers) /\ nextId \notin DOMAIN containers
  BY DEF Sound, FreshInv, TypeOK, Table
<1>3. Table(containers')
  BY <1>1, <1>2 DEF Table
<1>4. Unique(containers) => Unique(containers')
  BY <1>1 DEF Unique
<1> QED BY <1>1, <1>2, <1>3, <1>4 DEF TableShape

\* A tab removes the new container that did not start; the name is free.
LEMMA DropNewStep ==
    ASSUME Sound, NEW t \in Tabs, DropNew(t)
    PROVE  Shape(t) /\ Tracks(t) /\ Meets(t)
<1> DEFINE y == sagas[t].new
           accepted == sagas[t].new \in DOMAIN containers
           after == Removed(containers, y)
           good == Caught(t)
           bad == Caught(t)
<1> SUFFICES ASSUME NEW r0 \in Saga, r0 = sagas[t], r0.pc = "dropNew",
                    t \in Actors, t \notin Requests
             PROVE  Shape(t) /\ Tracks(t) /\ Meets(t)
  BY ActorsAssumption DEF Sound, TypeOK, Actors, DropNew
<1>1. good \in Saga /\ bad \in Saga
  BY DEF Goto, Saga, AtRest, TabPC, RequestPC, Caught
<1>2. UNCHANGED nextId /\ Call(t, accepted, after, good, bad)
  BY DEF DropNew
<1>3. PICK r \in Saga : Outcome(t, accepted, after, good, bad, r)
  <2> HIDE DEF good, bad, after, accepted
  <2> QED BY <1>1, <1>2, CallOutcome DEF Sound, TypeOK
<1>4. /\ r.pc \in {"failed", "renameBack"}
      /\ Same(r, r0) /\ r.new = r0.new /\ r.name = r0.name
      /\ r.clean => r0.clean
  BY <1>3 DEF Outcome, Alike, Goto, Same, Saga, Caught
<1>5. Fragile(t) /\ y = sagas[t].new
  BY DEF Fragile
<1>6. SagaShape(t) /\ sagas'[t] = r
  <2> HIDE DEF good, bad, after, accepted
  <2> QED BY <1>2, <1>3, <1>4, SagaStep DEF AtRest, PendingPC, NewPC
<1>7. /\ TableShape(t)
      /\ \A c \in DOMAIN containers' : c \in DOMAIN containers /\ containers'[c] = containers[c]
  <2>1. containers' = containers \/ containers' = Removed(containers, y)
    BY <1>3 DEF Outcome
  <2> HIDE DEF y
  <2> QED BY <1>5, <2>1, RemovingStep
<1>8. ServeShape(t)
  BY <1>4, <1>6 DEF ServeShape, Passed
<1>9. Tracks(t)
  <2> SUFFICES ASSUME Unique(containers), Placed(t, r0, containers),
                      r.pc \in Undoing \cup {"failed"} => r.clean,
                      r.old # None, r.name = r.was
               PROVE  Where(t, r, containers')
    BY <1>4, <1>6 DEF Tracks, Placed
  <2>1. Where(t, r0, containers)
    BY <1>4 DEF Placed, Same, Undoing
  <2>2. /\ r0.new \in DOMAIN containers /\ containers[r0.new].name = r0.was
        /\ r0.old \in DOMAIN containers /\ containers[r0.old].name = Old(r0.was)
        /\ Old(r0.was) # r0.was
    BY <2>1, OldDiffers DEF Where, New, Is, Saga
  <2>3. r.pc = "renameBack" /\ containers' = Removed(containers, r0.new)
    BY <1>3, <1>4, <2>2 DEF Outcome, Alike, Goto, Caught, Saga, Undoing, Same
  <2> HIDE DEF accepted, after, good, bad, y
  <2>4. /\ DOMAIN containers' = DOMAIN containers \ {r0.new}
        /\ \A c \in DOMAIN containers' : containers'[c] = containers[c]
    BY <2>3 DEF Removed
  <2>5. /\ r0.new \notin DOMAIN containers'
        /\ r0.old \in DOMAIN containers' /\ containers'[r0.old].name = Old(r0.was)
        /\ ~NameTaken(containers', r0.was)
    BY <2>2, <2>4 DEF Unique, NameTaken
  <2> QED BY <1>4, <2>3, <2>5 DEF Where, Is, Same, Made
<1>10. Frame(t)
  BY <1>3 DEF Frame, Outcome, Removed
<1>11. Gives(t)
  BY <1>4, <1>6, <1>7 DEF Gives, Gave, Replacing, Made
<1>12. Gentle(t)
  BY DEF Gentle, Idling
<1> QED BY <1>6, <1>7, <1>8, <1>9, <1>10, <1>11, <1>12 DEF Shape, Meets

\* A tab removes the old container and touches no other.
LEMMA RemoveOldStep ==
    ASSUME Sound, NEW t \in Tabs, RemoveOld(t)
    PROVE  Shape(t) /\ Tracks(t) /\ Meets(t)
<1> DEFINE y == sagas[t].old
           accepted == sagas[t].old \in DOMAIN containers
           after == Removed(containers, y)
           good == Goto(t, "succeeded")
           bad == Goto(t, "half")
<1> SUFFICES ASSUME NEW r0 \in Saga, r0 = sagas[t], r0.pc = "removeOld",
                    t \in Actors, t \notin Requests
             PROVE  Shape(t) /\ Tracks(t) /\ Meets(t)
  BY ActorsAssumption DEF Sound, TypeOK, Actors, RemoveOld
<1>1. good \in Saga /\ bad \in Saga
  BY DEF Goto, Saga, AtRest, TabPC, RequestPC
<1>2. UNCHANGED nextId /\ Call(t, accepted, after, good, bad)
  BY DEF RemoveOld
<1>3. PICK r \in Saga : Outcome(t, accepted, after, good, bad, r)
  <2> HIDE DEF good, bad, after, accepted
  <2> QED BY <1>1, <1>2, CallOutcome DEF Sound, TypeOK
<1>4. /\ r.pc \in {"half", "succeeded"}
      /\ Same(r, r0) /\ r.new = r0.new /\ r.name = r0.name
      /\ r.clean => r0.clean
  BY <1>3 DEF Outcome, Alike, Goto, Same, Saga
<1>5. Passed(t) /\ y = sagas[t].old
  BY DEF Passed
<1>6. SagaShape(t) /\ sagas'[t] = r
  <2> HIDE DEF good, bad, after, accepted
  <2> QED BY <1>2, <1>3, <1>4, SagaStep DEF AtRest, PendingPC, NewPC
<1>7. /\ TableShape(t)
      /\ \A c \in DOMAIN containers' : c \in DOMAIN containers /\ containers'[c] = containers[c]
  <2>1. containers' = containers \/ containers' = Removed(containers, y)
    BY <1>3 DEF Outcome
  <2> HIDE DEF y
  <2> QED BY <1>5, <2>1, RemovingStep
<1>8. ServeShape(t)
  BY <1>4, <1>6 DEF ServeShape, Passed
<1>9. Tracks(t)
  <2> SUFFICES ASSUME Unique(containers), Placed(t, r0, containers),
                      r.pc \in Undoing \cup {"failed"} => r.clean,
                      r.old # None, r.name = r.was
               PROVE  Where(t, r, containers')
    BY <1>4, <1>6 DEF Tracks, Placed
  <2> QED BY <1>4 DEF Where, Made
<1>10. Frame(t)
  BY <1>3 DEF Frame, Outcome, Removed
<1>11. Gives(t)
  BY <1>4, <1>6, <1>7 DEF Gives, Gave, Replacing, Made
<1>12. Gentle(t)
  BY DEF Gentle, Idling
<1> QED BY <1>6, <1>7, <1>8, <1>9, <1>10, <1>11, <1>12 DEF Shape, Meets

\* The server removes the old container and touches no other.
LEMMA RemoveCurrentStep ==
    ASSUME Sound, NEW q \in Requests, RemoveCurrent(q)
    PROVE  Shape(q) /\ Tracks(q) /\ Meets(q)
<1> DEFINE y == sagas[q].old
           accepted == sagas[q].old \in DOMAIN containers /\ ~containers[sagas[q].old].running
           after == Removed(containers, y)
           good == Goto(q, "settings")
           bad == Goto(q, "settings")
<1> SUFFICES ASSUME NEW r0 \in Saga, r0 = sagas[q], r0.pc = "removeOld",
                    q \in Actors, q \notin Tabs
             PROVE  Shape(q) /\ Tracks(q) /\ Meets(q)
  BY ActorsAssumption DEF Sound, TypeOK, Actors, RemoveCurrent
<1>1. good \in Saga /\ bad \in Saga
  BY DEF Goto, Saga, AtRest, TabPC, RequestPC
<1>2. UNCHANGED nextId /\ Call(q, accepted, after, good, bad)
  BY DEF RemoveCurrent
<1>3. PICK r \in Saga : Outcome(q, accepted, after, good, bad, r)
  <2> HIDE DEF good, bad, after, accepted
  <2> QED BY <1>1, <1>2, CallOutcome DEF Sound, TypeOK
<1>4. /\ r.pc \in {"settings"}
      /\ Same(r, r0) /\ r.new = r0.new /\ r.name = r0.name
      /\ r.clean => r0.clean
  BY <1>3 DEF Outcome, Alike, Goto, Same, Saga
<1>5. Passed(q) /\ y = sagas[q].old
  BY DEF Passed
<1>6. SagaShape(q) /\ sagas'[q] = r
  <2> HIDE DEF good, bad, after, accepted
  <2> QED BY <1>2, <1>3, <1>4, SagaStep DEF AtRest, PendingPC, NewPC
<1>7. /\ TableShape(q)
      /\ \A c \in DOMAIN containers' : c \in DOMAIN containers /\ containers'[c] = containers[c]
  <2>1. containers' = containers \/ containers' = Removed(containers, y)
    BY <1>3 DEF Outcome
  <2> HIDE DEF y
  <2> QED BY <1>5, <2>1, RemovingStep
<1>8. ServeShape(q)
  <2>1. Passed(q)' => Passed(q)
    BY <1>4, <1>6 DEF Passed
  <2>2. sagas[q].pc \notin Owing
    BY <1>4, <1>6 DEF Owing
  <2> QED BY <1>7, <2>1, <2>2 DEF ServeShape
<1>9. Tracks(q)
  <2> SUFFICES ASSUME Unique(containers), Placed(q, r0, containers),
                      r.pc \in Undoing \cup {"failed"} => r.clean,
                      r.old # None, r.name = r.was
               PROVE  Where(q, r, containers')
    BY <1>4, <1>6 DEF Tracks, Placed
  <2> QED BY <1>4 DEF Where, Made
<1>10. Frame(q)
  BY <1>3 DEF Frame, Outcome, Removed
<1>11. Gives(q)
  BY <1>4, <1>6, <1>7 DEF Gives, Gave, Replacing, Made
<1>12. Gentle(q)
  BY DEF Gentle, Idling
<1> QED BY <1>6, <1>7, <1>8, <1>9, <1>10, <1>11, <1>12 DEF Shape, Meets

\* The undoing removes the new container; the name is free.
LEMMA UndoRemoveStep ==
    ASSUME Sound, NEW q \in Requests, UndoRemove(q)
    PROVE  Shape(q) /\ Tracks(q) /\ Meets(q)
<1> DEFINE y == sagas[q].new
           accepted == sagas[q].new \in DOMAIN containers /\ ~containers[sagas[q].new].running
           after == Removed(containers, y)
           good == Goto(q, "undoRename")
           bad == Goto(q, "undoRename")
<1> SUFFICES ASSUME NEW r0 \in Saga, r0 = sagas[q], r0.pc = "undoRemove",
                    q \in Actors, q \notin Tabs
             PROVE  Shape(q) /\ Tracks(q) /\ Meets(q)
  BY ActorsAssumption DEF Sound, TypeOK, Actors, UndoRemove
<1>1. good \in Saga /\ bad \in Saga
  BY DEF Goto, Saga, AtRest, TabPC, RequestPC
<1>2. UNCHANGED nextId /\ Call(q, accepted, after, good, bad)
  BY DEF UndoRemove
<1>3. PICK r \in Saga : Outcome(q, accepted, after, good, bad, r)
  <2> HIDE DEF good, bad, after, accepted
  <2> QED BY <1>1, <1>2, CallOutcome DEF Sound, TypeOK
<1>4. /\ r.pc \in {"undoRename"}
      /\ Same(r, r0) /\ r.new = r0.new /\ r.name = r0.name
      /\ r.clean => r0.clean
  BY <1>3 DEF Outcome, Alike, Goto, Same, Saga
<1>5. Fragile(q) /\ y = sagas[q].new
  BY DEF Fragile
<1>6. SagaShape(q) /\ sagas'[q] = r
  <2> HIDE DEF good, bad, after, accepted
  <2> QED BY <1>2, <1>3, <1>4, SagaStep DEF AtRest, PendingPC, NewPC
<1>7. /\ TableShape(q)
      /\ \A c \in DOMAIN containers' : c \in DOMAIN containers /\ containers'[c] = containers[c]
  <2>1. containers' = containers \/ containers' = Removed(containers, y)
    BY <1>3 DEF Outcome
  <2> HIDE DEF y
  <2> QED BY <1>5, <2>1, RemovingStep
<1>8. ServeShape(q)
  <2>1. Passed(q)' => Passed(q)
    BY <1>4, <1>6 DEF Passed
  <2>2. sagas'[q].pc \in Owing
    BY <1>4, <1>6 DEF Owing
  <2> QED BY <1>7, <2>1, <2>2 DEF ServeShape
<1>9. Tracks(q)
  <2> SUFFICES ASSUME Unique(containers), Placed(q, r0, containers),
                      r.pc \in Undoing \cup {"failed"} => r.clean,
                      r.old # None, r.name = r.was
               PROVE  Where(q, r, containers')
    BY <1>4, <1>6 DEF Tracks, Placed
  <2>1. Where(q, r0, containers)
    BY <1>4 DEF Placed, Same, Undoing
  <2>2. /\ r0.new \in DOMAIN containers /\ containers[r0.new].name = r0.was
        /\ r0.old \in DOMAIN containers /\ containers[r0.old].name = Old(r0.was)
        /\ Old(r0.was) # r0.was /\ ~containers[r0.new].running
    BY <2>1, OldDiffers DEF Where, New, Is, Saga
  <2>3. r.pc = "undoRename" /\ containers' = Removed(containers, r0.new)
    BY <1>3, <1>4, <2>2 DEF Outcome, Alike, Goto, Caught, Saga, Undoing, Same
  <2> HIDE DEF accepted, after, good, bad, y
  <2>4. /\ DOMAIN containers' = DOMAIN containers \ {r0.new}
        /\ \A c \in DOMAIN containers' : containers'[c] = containers[c]
    BY <2>3 DEF Removed
  <2>5. /\ r0.new \notin DOMAIN containers'
        /\ r0.old \in DOMAIN containers' /\ containers'[r0.old].name = Old(r0.was)
        /\ ~NameTaken(containers', r0.was)
    BY <2>2, <2>4 DEF Unique, NameTaken
  <2> QED BY <1>4, <2>3, <2>5 DEF Where, Is, Same, Made
<1>10. Frame(q)
  BY <1>3 DEF Frame, Outcome, Removed
<1>11. Gives(q)
  BY <1>4, <1>6, <1>7 DEF Gives, Gave, Replacing, Made
<1>12. Gentle(q)
  BY DEF Gentle, Idling
<1> QED BY <1>6, <1>7, <1>8, <1>9, <1>10, <1>11, <1>12 DEF Shape, Meets

-----------------------------------------------------------------------------
(* Those that create the new container.                                    *)

\* Every replacement that has yet to create its container finds an identifier.
LEMMA IdLeft ==
    ASSUME Sound, NEW s \in Actors, sagas[s].pc \in PendingPC
    PROVE  nextId \in Ids
<1>1. IsFiniteSet(Pending) /\ s \in Pending
  BY DEF Sound, FreshInv, Pending
<1>2. Cardinality(Pending) \in Nat /\ Cardinality(Pending) # 0
  BY <1>1, FS_EmptySet, FS_CardinalityType
<1> QED BY <1>2, BoundsAssumption DEF Sound, FreshInv, TypeOK, Ids

\* A call that creates a container or changes nothing.
LEMMA CreatingStep ==
    ASSUME Sound, NEW s, NEW n \in Name, NEW nets \in SUBSET Networks,
           nextId \in Ids, nextId' = nextId + 1,
           \/ containers' = containers
           \/ /\ ~NameTaken(containers, n)
              /\ containers' = Created(containers, nextId, n, nets)
    PROVE  /\ TableShape(s)
           /\ \A c \in DOMAIN containers : c \in DOMAIN containers' /\ containers'[c] = containers[c]
<1>1. Table(containers) /\ nextId \notin DOMAIN containers
  BY DEF Sound, FreshInv, TypeOK, Table
<1>2. CASE containers' = containers
  BY <1>1, <1>2 DEF TableShape
<1>3. CASE ~NameTaken(containers, n) /\ containers' = Created(containers, nextId, n, nets)
  <2>1. /\ DOMAIN containers' = DOMAIN containers \cup {nextId}
        /\ \A c \in DOMAIN containers : containers'[c] = containers[c]
        /\ containers'[nextId] = [name |-> n, running |-> FALSE, nets |-> nets,
                                  access |-> FALSE, ran |-> FALSE]
    BY <1>1, <1>3 DEF Created
  <2>2. containers'[nextId] \in Container /\ containers'[nextId].name = n
    BY <2>1 DEF Container
  <2>3. Table(containers')
    BY <1>1, <2>1, <2>2 DEF Table
  <2>4. Unique(containers) => Unique(containers')
    BY <1>3, <2>1, <2>2 DEF Unique, NameTaken
  <2> QED BY <2>1, <2>3, <2>4 DEF TableShape
<1> QED BY <1>2, <1>3

\* A tab creates the new container, with a fresh identifier and the name.
LEMMA CreateNewStep ==
    ASSUME Sound, NEW t \in Tabs, CreateNew(t)
    PROVE  Shape(t) /\ Tracks(t) /\ Meets(t)
<1> SUFFICES ASSUME NEW r0 \in Saga, r0 = sagas[t], r0.pc = "create", r0.new = None,
                    t \in Actors, t \notin Requests
             PROVE  Shape(t) /\ Tracks(t) /\ Meets(t)
  BY ActorsAssumption DEF Sound, TypeOK, Actors, CreateNew, FreshInv, PendingPC
<1>0. PICK auto \in BOOLEAN, first \in SUBSET r0.nets :
         CreateCall(t, r0.name, first, auto, [r0 EXCEPT !.pc = "start", !.new = nextId,
                            !.todo = IF r0.old = None THEN {} ELSE r0.nets \ first], Caught(t))
  BY DEF CreateNew
<1> DEFINE accepted == ~NameTaken(containers, r0.name)
           after == Created(containers, nextId, r0.name, first)
           good == [r0 EXCEPT !.pc = "start", !.new = nextId,
                            !.todo = IF r0.old = None THEN {} ELSE r0.nets \ first]
           bad == Caught(t)
<1>1. nextId \in Ids /\ nextId \notin DOMAIN containers /\ nextId # None
  BY IdLeft DEF PendingPC, Sound, FreshInv, TypeOK, Ids, None
<1>2. good \in Saga /\ bad \in Saga
  <2>1. bad \in Saga
    BY DEF Goto, Saga, AtRest, TabPC, RequestPC, Caught
  <2>2. r0.nets \ first \in SUBSET Networks /\ {} \in SUBSET Networks
    BY DEF Saga
  <2> DEFINE todo == IF r0.old = None THEN {} ELSE r0.nets \ first
             pc == "start"
  <2>3. good = [r0 EXCEPT !.pc = pc, !.new = nextId, !.todo = todo]
    OBVIOUS
  <2>4. todo \in SUBSET Networks /\ pc \in RequestPC
    BY <2>2 DEF RequestPC
  <2> HIDE DEF good, bad, todo, pc
  <2>5. good \in Saga
    BY <1>1, <2>3, <2>4 DEF Saga
  <2> QED BY <2>1, <2>5
<1>3. nextId' = nextId + 1 /\ Call(t, accepted, after, good, bad)
  BY <1>0 DEF CreateCall
<1>4. PICK r \in Saga : Outcome(t, accepted, after, good, bad, r)
  <2> HIDE DEF good, bad, after, accepted
  <2> QED BY <1>2, <1>3, CallOutcome DEF Sound, TypeOK
<1>5. /\ r.pc \in {"start", "failed", "renameBack"}
      /\ Same(r, r0) /\ r.name = r0.name
      /\ r.clean => r0.clean
      /\ r.pc \in {"start"} => /\ r.new = nextId /\ accepted /\ containers' = after
                               /\ (r0.old # None => r.todo = r0.nets \ first)
      /\ r.pc \in {"failed", "renameBack"} => r.new = None
  BY <1>4 DEF Outcome, Alike, Goto, Same, Saga, Caught
<1>6. SagaShape(t) /\ sagas'[t] = r
  <2> HIDE DEF good, bad, after, accepted
  <2> QED BY <1>3, <1>4, <1>5, SagaStep DEF AtRest, PendingPC, NewPC
<1>7. /\ TableShape(t)
      /\ \A c \in DOMAIN containers : c \in DOMAIN containers' /\ containers'[c] = containers[c]
  <2>1. containers' = containers \/ (accepted /\ containers' = after)
    BY <1>4 DEF Outcome
  <2>2. r0.name \in Name /\ first \subseteq Networks
    BY DEF Saga
  <2> QED BY <1>1, <1>3, <2>1, <2>2, CreatingStep
<1>8. ServeShape(t)
  BY <1>5, <1>6 DEF ServeShape, Passed
<1>9. Tracks(t)
  <2> SUFFICES ASSUME Unique(containers), Placed(t, r0, containers),
                      r.pc \in Undoing \cup {"failed"} => r.clean,
                      r.old # None, r.name = r.was
               PROVE  Where(t, r, containers')
    BY <1>5, <1>6 DEF Tracks, Placed
  <2>1. Where(t, r0, containers)
    BY <1>5 DEF Placed, Same, Undoing
  <2>2. /\ r0.old \in DOMAIN containers /\ containers[r0.old].name = Old(r0.was)
        /\ ~NameTaken(containers, r0.was)
    BY <2>1 DEF Where, Is
  <2>3. CASE r.pc \in {"start"}
    <3>1. containers' = Created(containers, nextId, r0.name, first) /\ r.todo = r0.nets \ first
      BY <1>5, <2>3 DEF Same
    <3>2. /\ nextId \in DOMAIN containers' /\ containers'[nextId].name = r0.name
          /\ containers'[nextId].nets = first
      BY <3>1 DEF Created
    <3> HIDE DEF accepted, after, good, bad
    <3>3. r.new \in DOMAIN containers' /\ containers'[r.new].name = r.was
          /\ r.nets \ r.todo \subseteq containers'[r.new].nets
          /\ r.old \in DOMAIN containers' /\ containers'[r.old].name = Old(r.was)
      BY <1>5, <1>7, <2>2, <2>3, <3>1, <3>2 DEF Same
    <3> QED BY <2>3, <3>3 DEF Where, Is, New, Made
  <2>4. CASE r.pc \in {"failed", "renameBack"}
    <3>1. r.pc = "renameBack" /\ containers' = containers
      BY <1>4, <1>5, <2>2, <2>4 DEF Outcome, Alike, Goto, Same, Undoing, Saga, Caught
    <3> HIDE DEF accepted, after, good, bad
    <3> QED BY <1>5, <2>2, <2>4, <3>1 DEF Where, Is, Same, Made
  <2> QED BY <1>5, <2>3, <2>4
<1>10. Frame(t)
  BY <1>7 DEF Frame
<1>11. Gives(t)
  <2> SUFFICES ASSUME Replacing(t, r), r.old # None, r.name = r.was
               PROVE  Successor(t, r, containers')
    BY <1>6 DEF Gives, Gave
  <2>1. r.pc \in {"start"}
    BY <1>5 DEF Replacing, Made
  <2>2. containers' = Created(containers, nextId, r0.name, first) /\ r.todo = r0.nets \ first
    BY <1>5, <2>1 DEF Same
  <2>3. /\ nextId \in DOMAIN containers' /\ containers'[nextId].name = r0.name
        /\ containers'[nextId].nets = first
    BY <2>2 DEF Created
  <2> HIDE DEF accepted, after, good, bad
  <2>4. /\ r.new \in DOMAIN containers' /\ containers'[r.new].name = r.was
        /\ r.nets \ r.todo \subseteq containers'[r.new].nets
    BY <1>5, <2>1, <2>2, <2>3 DEF Same
  <2> QED BY <2>1, <2>4 DEF Successor, New
<1>12. Gentle(t)
  BY DEF Gentle, Idling
<1> QED BY <1>6, <1>7, <1>8, <1>9, <1>10, <1>11, <1>12 DEF Shape, Meets

\* The server creates the new container, on the first of its networks.
LEMMA CreateAgainStep ==
    ASSUME Sound, NEW q \in Requests, CreateAgain(q)
    PROVE  Shape(q) /\ Tracks(q) /\ Meets(q)
<1> SUFFICES ASSUME NEW r0 \in Saga, r0 = sagas[q], r0.pc = "create", r0.new = None,
                    q \in Actors, q \notin Tabs
             PROVE  Shape(q) /\ Tracks(q) /\ Meets(q)
  BY ActorsAssumption DEF Sound, TypeOK, Actors, CreateAgain, FreshInv, PendingPC
<1>0. PICK first \in SUBSET r0.nets :
         CreateCall(q, r0.name, first, r0.old \in autoRemove, [r0 EXCEPT !.pc = IF r0.nets \subseteq first THEN "start" ELSE "connect",
                            !.new = nextId, !.todo = r0.nets \ first], Restore(q))
  BY DEF CreateAgain
<1> DEFINE accepted == ~NameTaken(containers, r0.name)
           after == Created(containers, nextId, r0.name, first)
           good == [r0 EXCEPT !.pc = IF r0.nets \subseteq first THEN "start" ELSE "connect",
                            !.new = nextId, !.todo = r0.nets \ first]
           bad == Restore(q)
<1>1. nextId \in Ids /\ nextId \notin DOMAIN containers /\ nextId # None
  BY IdLeft DEF PendingPC, Sound, FreshInv, TypeOK, Ids, None
<1>2. good \in Saga /\ bad \in Saga
  <2>1. bad \in Saga
    BY DEF Goto, Saga, AtRest, TabPC, RequestPC, Restore
  <2>2. r0.nets \ first \in SUBSET Networks /\ {} \in SUBSET Networks
    BY DEF Saga
  <2> DEFINE todo == r0.nets \ first
             pc == IF r0.nets \subseteq first THEN "start" ELSE "connect"
  <2>3. good = [r0 EXCEPT !.pc = pc, !.new = nextId, !.todo = todo]
    OBVIOUS
  <2>4. todo \in SUBSET Networks /\ pc \in RequestPC
    BY <2>2 DEF RequestPC
  <2> HIDE DEF good, bad, todo, pc
  <2>5. good \in Saga
    BY <1>1, <2>3, <2>4 DEF Saga
  <2> QED BY <2>1, <2>5
<1>3. nextId' = nextId + 1 /\ Call(q, accepted, after, good, bad)
  BY <1>0 DEF CreateCall
<1>4. PICK r \in Saga : Outcome(q, accepted, after, good, bad, r)
  <2> HIDE DEF good, bad, after, accepted
  <2> QED BY <1>2, <1>3, CallOutcome DEF Sound, TypeOK
<1>5. /\ r.pc \in {"start", "connect", "undoRename"}
      /\ Same(r, r0) /\ r.name = r0.name
      /\ r.clean => r0.clean
      /\ r.pc \in {"start", "connect"} => /\ r.new = nextId /\ accepted /\ containers' = after
                               /\ (r0.old # None => r.todo = r0.nets \ first)
      /\ r.pc \in {"undoRename"} => r.new = None
  BY <1>4 DEF Outcome, Alike, Goto, Same, Saga, Restore
<1>a. r.pc = "start" => r0.nets \ first = {}
  BY <1>4 DEF Outcome, Alike, Goto, Saga, Restore
<1>6. SagaShape(q) /\ sagas'[q] = r
  <2> HIDE DEF good, bad, after, accepted
  <2> QED BY <1>3, <1>4, <1>5, SagaStep DEF AtRest, PendingPC, NewPC
<1>7. /\ TableShape(q)
      /\ \A c \in DOMAIN containers : c \in DOMAIN containers' /\ containers'[c] = containers[c]
  <2>1. containers' = containers \/ (accepted /\ containers' = after)
    BY <1>4 DEF Outcome
  <2>2. r0.name \in Name /\ first \subseteq Networks
    BY DEF Saga
  <2> QED BY <1>1, <1>3, <2>1, <2>2, CreatingStep
<1>8. ServeShape(q)
  <2>1. Passed(q)' => Passed(q)
    BY <1>5, <1>6 DEF Passed
  <2>2. sagas'[q].pc \in Owing
    BY <1>5, <1>6 DEF Owing
  <2> QED BY <1>7, <2>1, <2>2 DEF ServeShape
<1>9. Tracks(q)
  <2> SUFFICES ASSUME Unique(containers), Placed(q, r0, containers),
                      r.pc \in Undoing \cup {"failed"} => r.clean,
                      r.old # None, r.name = r.was
               PROVE  Where(q, r, containers')
    BY <1>5, <1>6 DEF Tracks, Placed
  <2>1. Where(q, r0, containers)
    BY <1>5 DEF Placed, Same, Undoing
  <2>2. /\ r0.old \in DOMAIN containers /\ containers[r0.old].name = Old(r0.was)
        /\ ~NameTaken(containers, r0.was)
    BY <2>1 DEF Where, Is
  <2>3. CASE r.pc \in {"start", "connect"}
    <3>1. containers' = Created(containers, nextId, r0.name, first) /\ r.todo = r0.nets \ first
      BY <1>5, <2>3 DEF Same
    <3>2. /\ nextId \in DOMAIN containers' /\ containers'[nextId].name = r0.name
          /\ containers'[nextId].nets = first
      BY <3>1 DEF Created
    <3> HIDE DEF accepted, after, good, bad
    <3>3. r.new \in DOMAIN containers' /\ containers'[r.new].name = r.was
          /\ r.nets \ r.todo \subseteq containers'[r.new].nets
          /\ r.old \in DOMAIN containers' /\ containers'[r.old].name = Old(r.was)
      BY <1>5, <1>7, <2>2, <2>3, <3>1, <3>2 DEF Same
    <3>4. r.pc = "start" => r.todo = {}
      BY <1>a, <1>5, <2>3, <3>1
    <3> QED BY <2>3, <3>3, <3>4 DEF Where, Is, New, Made
  <2>4. CASE r.pc \in {"undoRename"}
    <3>1. r.pc = "undoRename" /\ containers' = containers
      BY <1>4, <1>5, <2>2, <2>4 DEF Outcome, Alike, Goto, Same, Undoing, Saga, Restore
    <3> HIDE DEF accepted, after, good, bad
    <3> QED BY <1>5, <2>2, <2>4, <3>1 DEF Where, Is, Same, Made
  <2> QED BY <1>5, <2>3, <2>4
<1>10. Frame(q)
  BY <1>7 DEF Frame
<1>11. Gives(q)
  <2> SUFFICES ASSUME Replacing(q, r), r.old # None, r.name = r.was
               PROVE  Successor(q, r, containers')
    BY <1>6 DEF Gives, Gave
  <2>1. r.pc \in {"start", "connect"}
    BY <1>5 DEF Replacing, Made
  <2>2. containers' = Created(containers, nextId, r0.name, first) /\ r.todo = r0.nets \ first
    BY <1>5, <2>1 DEF Same
  <2>3. /\ nextId \in DOMAIN containers' /\ containers'[nextId].name = r0.name
        /\ containers'[nextId].nets = first
    BY <2>2 DEF Created
  <2> HIDE DEF accepted, after, good, bad
  <2>4. /\ r.new \in DOMAIN containers' /\ containers'[r.new].name = r.was
        /\ r.nets \ r.todo \subseteq containers'[r.new].nets
    BY <1>5, <2>1, <2>2, <2>3 DEF Same
  <2>5. r.pc = "start" => r.todo = {}
    BY <1>a, <1>5, <2>1, <2>2
  <2> QED BY <2>1, <2>4, <2>5 DEF Successor, New
<1>12. Gentle(q)
  BY DEF Gentle, Idling
<1> QED BY <1>6, <1>7, <1>8, <1>9, <1>10, <1>11, <1>12 DEF Shape, Meets

-----------------------------------------------------------------------------
(* The form, and the calls that a tab awaits together.                     *)

\* The form is submitted, maybe with another name.
LEMMA SubmitStep ==
    ASSUME Sound, NEW t \in Tabs, NEW name \in Name, Submit(t, name)
    PROVE  Shape(t) /\ Tracks(t) /\ Meets(t)
<1> SUFFICES ASSUME NEW r0 \in Saga, r0 = sagas[t], r0.pc = "form", r0.new = None,
                    t \in Actors, t \notin Requests
             PROVE  Shape(t) /\ Tracks(t) /\ Meets(t)
  BY ActorsAssumption DEF Sound, TypeOK, Actors, Submit, FreshInv, PendingPC
<1> DEFINE pc == CASE r0.old = None -> "create"
                   [] r0.old # None /\ r0.stop -> "stop"
                   [] OTHER -> "rename"
           r == [r0 EXCEPT !.name = name, !.pc = pc]
<1>1. pc \in {"create", "stop", "rename"} /\ (r0.old # None => pc # "create")
  OBVIOUS
<1>2. /\ sagas' = [sagas EXCEPT ![t] = r]
      /\ UNCHANGED <<containers, nextId, late, begun, faults>>
  <2>1. sagas' = [sagas EXCEPT ![t].name = name, ![t].pc = pc]
    BY DEF Submit
  <2>2. [sagas EXCEPT ![t].name = name, ![t].pc = pc] = [sagas EXCEPT ![t] = r]
    BY DEF Sound, TypeOK
  <2> HIDE DEF r, pc
  <2> QED BY <2>1, <2>2 DEF Submit
<1>3. r \in Saga /\ Same(r, r0) /\ r.pc = pc /\ r.new = None /\ r.name = name
  <2> HIDE DEF pc
  <2>1. pc \in TabPC
    BY <1>1 DEF TabPC
  <2> QED BY <2>1 DEF Saga, Same
<1> HIDE DEF r, pc
<1>4. sagas'[t] = r
  BY <1>2 DEF Sound, TypeOK
<1>5. SagaShape(t)
  <2>1. r.pc \in PendingPC /\ r.pc \notin NewPC /\ r.pc # "idle" /\ r0.pc \notin AtRest
    BY <1>1, <1>3 DEF PendingPC, NewPC, AtRest
  <2>2. ~Fragile(t)'
    BY <1>1, <1>3, <1>4 DEF Fragile
  <2> QED BY <1>2, <1>3, <1>4, <2>1, <2>2 DEF SagaShape, Same, Sound, TypeOK, PendingPC
<1>6. TableShape(t)
  BY <1>2 DEF TableShape, Sound, TypeOK, Table, FreshInv
<1>7. ServeShape(t)
  BY <1>1, <1>3, <1>4 DEF ServeShape, Passed
<1>8. Tracks(t)
  <2> SUFFICES ASSUME Placed(t, r0, containers), r.old # None
               PROVE  Where(t, r, containers)
    BY <1>2, <1>4 DEF Tracks, Placed
  <2>1. Where(t, r0, containers)
    BY <1>3 DEF Placed, Same, Undoing
  <2> QED BY <1>1, <1>3, <2>1 DEF Where, Is, Same, Made
<1>9. Frame(t)
  BY <1>2 DEF Frame
<1>10. Gives(t)
  BY <1>1, <1>3, <1>4 DEF Gives, Gave, Replacing, Made
<1>11. Gentle(t)
  BY <1>1, <1>2, <1>3, <1>4 DEF Gentle, Gently, Idling
<1> QED BY <1>5, <1>6, <1>7, <1>8, <1>9, <1>10, <1>11 DEF Shape, Meets

\* The tab is closed; nobody awaits its calls any more.
LEMMA CloseTabStep ==
    ASSUME Sound, NEW t \in Tabs, CloseTab(t)
    PROVE  Shape(t) /\ Tracks(t) /\ Meets(t)
<1> SUFFICES ASSUME NEW r0 \in Saga, r0 = sagas[t], r0.pc \in TabPC,
                    t \in Actors, t \notin Requests
             PROVE  Shape(t) /\ Tracks(t) /\ Meets(t)
  BY ActorsAssumption DEF Sound, TypeOK, Actors, CloseTab
<1> DEFINE r == [r0 EXCEPT !.pc = "died", !.todo = {}]
<1>1. /\ sagas' = [sagas EXCEPT ![t] = r]
      /\ UNCHANGED <<containers, nextId, begun>>
      /\ faults < MaxFaults /\ faults' = faults + 1
      /\ late' = late \cup IF r0.pc = "connect" THEN {r0.new} \X r0.todo ELSE {}
  <2>1. sagas' = [sagas EXCEPT ![t].pc = "died", ![t].todo = {}]
    BY DEF CloseTab
  <2>2. [sagas EXCEPT ![t].pc = "died", ![t].todo = {}] = [sagas EXCEPT ![t] = r]
    BY DEF Sound, TypeOK
  <2> HIDE DEF r
  <2> QED BY <2>1, <2>2 DEF CloseTab
<1>2. r \in Saga /\ Same(r, r0) /\ r.pc = "died" /\ r.new = r0.new /\ r.name = r0.name
  BY DEF Saga, Same, AtRest
<1> HIDE DEF r
<1>3. sagas'[t] = r
  BY <1>1 DEF Sound, TypeOK
<1>4. late' \subseteq Ids \X Networks
  <2>1. r0.pc = "connect" => r0.new \in Ids /\ r0.todo \subseteq Networks
    BY DEF Sound, FreshInv, NewPC, Saga
  <2> QED BY <1>1, <2>1 DEF Sound, TypeOK
<1>5. SagaShape(t)
  <2>1. r.pc \notin PendingPC /\ r.pc \notin NewPC /\ r0.pc \notin AtRest
    BY <1>2 DEF PendingPC, NewPC, AtRest, TabPC
  <2>2. ~Fragile(t)'
    BY <1>2, <1>3 DEF Fragile
  <2>3. faults' \in 0..MaxFaults /\ faults' = faults + 1
    BY <1>1, BoundsAssumption DEF Sound, TypeOK
  <2> QED BY <1>1, <1>2, <1>3, <1>4, <2>1, <2>2, <2>3 DEF SagaShape, Same
<1>6. TableShape(t)
  BY <1>1 DEF TableShape, Sound, TypeOK, Table, FreshInv
<1>7. ServeShape(t)
  BY <1>2, <1>3 DEF ServeShape, Passed
<1>8. Tracks(t)
  BY <1>2, <1>3 DEF Tracks, Placed, Where, Made
<1>9. Frame(t)
  BY <1>1 DEF Frame
<1>10. Gives(t)
  BY <1>1, <1>2, <1>3 DEF Gives, Gave, Replacing, Made
<1>11. Gentle(t)
  BY <1>1, <1>2, <1>3 DEF Gentle, Gently, AtRest
<1> QED BY <1>5, <1>6, <1>7, <1>8, <1>9, <1>10, <1>11 DEF Shape, Meets

\* One answer of those that a tab awaits together.
LEMMA ConnectOneStep ==
    ASSUME Sound, NEW t \in Tabs, NEW net \in Networks, ConnectOne(t, net)
    PROVE  Shape(t) /\ Tracks(t) /\ Meets(t)
<1> SUFFICES ASSUME NEW r0 \in Saga, r0 = sagas[t], r0.pc = "connect", r0.new \in Ids,
                    t \in Actors, t \notin Requests
             PROVE  Shape(t) /\ Tracks(t) /\ Meets(t)
  BY ActorsAssumption DEF Sound, TypeOK, Actors, ConnectOne, FreshInv, NewPC, Saga
<1> DEFINE rest == r0.todo \ {net}
           good == [r0 EXCEPT !.todo = rest,
                              !.pc = IF rest = {} THEN "removeOld" ELSE "connect"]
           bad == [r0 EXCEPT !.todo = {}, !.pc = "half"]
           after == Connected(containers, r0.new, net)
<1>1. /\ UNCHANGED <<nextId, begun>>
      /\ \/ /\ MayConnect(containers, r0.new, net) /\ containers' = after
            /\ sagas' = [sagas EXCEPT ![t] = good]
            /\ UNCHANGED <<late, faults>>
         \/ /\ \/ UNCHANGED <<containers, faults>>
               \/ /\ faults < MaxFaults /\ faults' = faults + 1
                  /\ containers' \in {containers, after}
            /\ sagas' = [sagas EXCEPT ![t] = bad]
            /\ late' = late \cup ({r0.new} \X rest)
  <2>1. [sagas EXCEPT ![t].todo = rest,
                      ![t].pc = IF rest = {} THEN "removeOld" ELSE "connect"]
           = [sagas EXCEPT ![t] = good]
    BY DEF Sound, TypeOK
  <2>2. [sagas EXCEPT ![t].todo = {}, ![t].pc = "half"] = [sagas EXCEPT ![t] = bad]
    BY DEF Sound, TypeOK
  <2> HIDE DEF good, bad
  <2> QED BY <2>1, <2>2 DEF ConnectOne
<1>2. PICK r \in {good, bad} :
         /\ sagas' = [sagas EXCEPT ![t] = r]
         /\ r.pc # "half" => containers' = after /\ r.todo = rest
         /\ r.pc = "removeOld" => r.todo = {}
         /\ r.pc # "half" => late' = late
  BY <1>1 DEF Saga
<1>3. /\ r \in Saga /\ Same(r, r0) /\ r.pc \in {"removeOld", "connect", "half"}
      /\ r.new = r0.new /\ r.name = r0.name
  <2>1. good \in Saga
    <3>1. rest \in SUBSET Networks
      BY DEF Saga
    <3> HIDE DEF rest
    <3> QED BY <3>1 DEF Saga, TabPC
  <2>2. /\ Same(good, r0) /\ good.pc \in {"removeOld", "connect"}
        /\ good.new = r0.new /\ good.name = r0.name
    BY DEF Saga, Same
  <2>3. /\ bad \in Saga /\ Same(bad, r0) /\ bad.pc = "half"
        /\ bad.new = r0.new /\ bad.name = r0.name
    BY DEF Saga, AtRest, Same
  <2> HIDE DEF good, bad
  <2> QED BY <1>2, <2>1, <2>2, <2>3
<1>4. /\ faults' \in {faults, faults + 1} /\ faults' \in 0..MaxFaults
      /\ containers' \in {containers, after}
      /\ late' \in {late, late \cup ({r0.new} \X rest)}
      /\ UNCHANGED <<nextId, begun>>
  <2> HIDE DEF good, bad, after, rest
  <2> QED BY <1>1, BoundsAssumption DEF Sound, TypeOK
<1> HIDE DEF good, bad, after
<1>5. sagas'[t] = r
  BY <1>2 DEF Sound, TypeOK
<1>6. late' \subseteq Ids \X Networks
  <2>1. late \subseteq Ids \X Networks /\ rest \subseteq Networks
    BY DEF Sound, TypeOK, Saga
  <2> QED BY <1>4, <2>1
<1>7. SagaShape(t)
  <2>1. r.pc \notin PendingPC /\ r0.pc \in NewPC /\ r0.pc \notin AtRest
    BY <1>3 DEF PendingPC, NewPC, AtRest
  <2>2. ~Fragile(t)'
    BY <1>3, <1>5 DEF Fragile
  <2> HIDE DEF rest
  <2> QED BY <1>2, <1>3, <1>4, <1>5, <1>6, <2>1, <2>2 DEF SagaShape, Same
<1>8. TableShape(t) /\ Kept(containers, containers', None)
  <2>1. Table(containers) /\ nextId \notin DOMAIN containers
    BY DEF Sound, TypeOK, Table, FreshInv
  <2>2. Kept(containers, containers', None)
    BY <1>4, <2>1, NothingKept, ConnectedKept DEF after
  <2> QED BY <1>4, <2>1, <2>2 DEF TableShape, Kept
<1>9. ServeShape(t)
  BY <1>3, <1>5 DEF ServeShape, Passed
<1>10. Tracks(t)
  <2> SUFFICES ASSUME Placed(t, r0, containers), r.old # None, r.name = r.was
               PROVE  Where(t, r, containers')
    BY <1>3, <1>5 DEF Tracks, Placed
  <2>1. Where(t, r0, containers)
    BY <1>3 DEF Placed, Same, Undoing
  <2>2. CASE r.pc = "half"
    BY <2>2 DEF Where, Made
  <2>3. CASE r.pc # "half"
    <3>1. /\ r0.old \in DOMAIN containers /\ containers[r0.old].name = Old(r0.was)
          /\ r0.new \in DOMAIN containers /\ containers[r0.new].name = r0.was
          /\ r0.nets \ r0.todo \subseteq containers[r0.new].nets
          /\ containers[r0.new].running /\ Old(r0.was) # r0.was
      BY <2>1, OldDiffers DEF Where, Is, New, Made, Saga
    <3>2. containers' = Connected(containers, r0.new, net) /\ containers[r0.new] \in Container
      BY <1>2, <2>3, <3>1 DEF after, Sound, TypeOK
    <3>3. /\ DOMAIN containers' = DOMAIN containers
          /\ \A d \in DOMAIN containers : d # r0.new => containers'[d] = containers[d]
          /\ containers'[r0.new] = [containers[r0.new] EXCEPT !.nets = containers[r0.new].nets \cup {net}]
      BY <3>1, <3>2 DEF Connected
    <3>4. /\ r0.old \in DOMAIN containers' /\ containers'[r0.old].name = Old(r0.was)
          /\ r0.new \in DOMAIN containers' /\ containers'[r0.new].name = r0.was
          /\ r0.nets \ (r0.todo \ {net}) \subseteq containers'[r0.new].nets
          /\ containers'[r0.new].running
      BY <3>1, <3>2, <3>3 DEF Container
    <3>5. r.pc \in {"removeOld", "connect"} /\ r.todo = r0.todo \ {net} /\ (r.pc = "removeOld" => r.todo = {})
      BY <1>2, <1>3, <2>3
    <3> QED BY <1>3, <3>4, <3>5 DEF Where, Is, New, Same, Made
  <2> QED BY <2>2, <2>3
<1>11. \A c \in DOMAIN containers : c # r0.new =>
          c \in DOMAIN containers' /\ containers'[c] = containers[c]
  BY <1>4 DEF after, Connected
<1>12. Frame(t)
  BY <1>11 DEF Frame
<1>13. Gives(t)
  <2>1. Replacing(t, r0)
    BY DEF Replacing, Made
  <2> SUFFICES ASSUME Gave(t, r0, containers), Replacing(t, r), r.old # None, r.name = r.was
               PROVE  Successor(t, r, containers')
    BY <1>3, <1>5, <1>11, <2>1 DEF Gives, Gave
  <2>2. Successor(t, r0, containers)
    BY <1>3, <2>1 DEF Gave, Same
  <2>3. /\ containers' = after /\ r.todo = r0.todo \ {net}
        /\ (r.pc = "removeOld" => r.todo = {}) /\ r.pc \in {"connect", "removeOld"}
    BY <1>2, <1>3 DEF Replacing, Made
  <2>4. r0.new \in DOMAIN containers /\ containers[r0.new] \in Container
    BY <2>2 DEF Successor, New, Sound, TypeOK
  <2>5. /\ DOMAIN containers' = DOMAIN containers
        /\ containers'[r0.new] = [containers[r0.new] EXCEPT !.nets = containers[r0.new].nets \cup {net}]
    BY <2>3, <2>4 DEF after, Connected
  <2>6. /\ containers'[r0.new].name = containers[r0.new].name
        /\ containers'[r0.new].nets = containers[r0.new].nets \cup {net}
        /\ containers'[r0.new].ran = containers[r0.new].ran
    BY <2>4, <2>5 DEF Container
  <2> QED BY <1>3, <2>2, <2>3, <2>4, <2>5, <2>6 DEF Successor, New, Same
<1>14. Gentle(t)
  BY DEF Gentle, Idling
<1> QED BY <1>7, <1>8, <1>9, <1>10, <1>12, <1>13, <1>14 DEF Shape, Meets

-----------------------------------------------------------------------------
(* Every step is one of five kinds.                                        *)

\* A replacement begins, as r.
Begins(s, r) ==
    /\ sagas[s].pc \in AtRest
    /\ r.pc \in {"form", "stop"} /\ r.new = None
    /\ r.old \in DOMAIN containers \cup {None}
    /\ r.old # None => Is(r, containers, r.was)
    /\ r.alone <=> late = {} /\ \A t \in Actors \ {s} : sagas[t].pc \in AtRest
    /\ Placed(s, r, containers)
    /\ sagas' = [t \in Actors |-> IF t = s THEN r ELSE [sagas[t] EXCEPT !.alone = FALSE]]
    /\ UNCHANGED <<containers, nextId, late, faults>>
    /\ begun < MaxSagas /\ begun' = begun + 1

\* The same for all but "alone".
Alone(r, q) == r = [q EXCEPT !.alone = r.alone]

\* A replacement begins where its old container is as it was read.
LEMMA BeginSaga ==
    ASSUME Sound, NEW s \in Actors, NEW q \in Saga, Begin(s, q),
           sagas[s].pc \in AtRest, begun < MaxSagas, begun' = begun + 1,
           q.pc \in {"form", "stop"}, q.new = None,
           q.old \in DOMAIN containers \cup {None},
           q.old # None => containers[q.old].name = q.was,
           \A r \in Saga : Alone(r, q) => Placed(s, r, containers)
    PROVE  \E r \in Saga : Begins(s, r)
<1> DEFINE others == {t \in Actors \ {s} : sagas[t].pc \notin AtRest}
           r == [q EXCEPT !.alone = (others = {} /\ late = {})]
<1>1. r \in Saga /\ r.pc = q.pc /\ r.new = q.new /\ r.old = q.old /\ r.was = q.was
  BY DEF Saga
<1>2. r.alone <=> late = {} /\ \A t \in Actors \ {s} : sagas[t].pc \in AtRest
  BY DEF Saga
<1>3. Alone(r, q)
  BY DEF Saga, Alone
<1>4. /\ sagas' = [t \in Actors |-> IF t = s THEN r ELSE [sagas[t] EXCEPT !.alone = FALSE]]
      /\ UNCHANGED <<containers, nextId, late, faults>>
  BY DEF Begin
<1> HIDE DEF r, others
<1> QED BY <1>1, <1>2, <1>3, <1>4 DEF Begins, Is

\* A form is opened.
LEMMA OpenFormBegins ==
    ASSUME Sound, NEW t \in Tabs, NEW from, NEW name \in Name, OpenForm(t, from, name)
    PROVE  \E r \in Saga : Begins(t, r)
<1> DEFINE named == {c \in DOMAIN containers : containers[c].name = name}
<1>1. PICK old \in IF named = {} THEN {None} ELSE named :
        Begin(t, [pc |-> "form", old |-> old, was |-> name,
                  stop |-> old # None /\ containers[old].running,
                  nets |-> containers[from].nets, name |-> name,
                  new |-> None, todo |-> {}, alone |-> TRUE, clean |-> TRUE])
  BY DEF OpenForm
<1> DEFINE q == [pc |-> "form", old |-> old, was |-> name,
                 stop |-> old # None /\ containers[old].running,
                 nets |-> containers[from].nets, name |-> name,
                 new |-> None, todo |-> {}, alone |-> TRUE, clean |-> TRUE]
<1>2. t \in Actors /\ t \notin Requests
  BY ActorsAssumption DEF Actors
<1>3. old \in DOMAIN containers \cup {None} /\ old \in Ids \cup {None}
      /\ (old # None => containers[old].name = name)
  BY DEF Sound, TypeOK
<1>4. containers[from].nets \in SUBSET Networks
  BY DEF OpenForm, Sound, TypeOK, Container
<1>5. q \in Saga
  BY <1>3, <1>4 DEF Saga, TabPC
<1>6. ASSUME NEW r \in Saga, Alone(r, q) PROVE Placed(t, r, containers)
  <2>1. r.pc = "form" /\ r.old = old /\ r.was = name /\ r.new = None
    BY <1>6 DEF Alone
  <2> HIDE DEF q
  <2> QED BY <1>2, <1>3, <2>1 DEF Placed, Where, Is, Made
<1>7. /\ Begin(t, q) /\ q.pc = "form" /\ q.new = None /\ q.old = old /\ q.was = name
      /\ sagas[t].pc \in AtRest /\ begun < MaxSagas /\ begun' = begun + 1
  BY <1>1 DEF OpenForm
<1> HIDE DEF q, named
<1> QED BY <1>2, <1>3, <1>5, <1>6, <1>7, BeginSaga

\* The server inspects the container to recreate.
LEMMA InspectBegins ==
    ASSUME Sound, NEW p \in Requests, NEW c, Inspect(p, c)
    PROVE  \E r \in Saga : Begins(p, r)
<1> DEFINE q == [pc |-> "stop", old |-> c, was |-> containers[c].name,
                 stop |-> containers[c].running, nets |-> containers[c].nets,
                 name |-> containers[c].name, new |-> None,
                 todo |-> containers[c].nets, alone |-> TRUE, clean |-> TRUE]
<1>1. p \in Actors /\ c \in DOMAIN containers /\ c \in Ids /\ containers[c] \in Container
  BY DEF Actors, Inspect, Sound, TypeOK
<1>2. q \in Saga
  BY <1>1 DEF Saga, RequestPC, Container
<1>3. ASSUME NEW r \in Saga, Alone(r, q) PROVE Placed(p, r, containers)
  <2>1. /\ r.pc = "stop" /\ r.old = c /\ r.was = containers[c].name /\ r.new = None
        /\ r.nets = containers[c].nets /\ r.stop = containers[c].running
    BY <1>3 DEF Alone
  <2> HIDE DEF q
  <2> QED BY <1>1, <2>1 DEF Placed, Where, Is, Made
<1>4. /\ Begin(p, q) /\ q.pc = "stop" /\ q.new = None /\ q.old = c
      /\ q.was = containers[c].name
      /\ sagas[p].pc \in AtRest /\ begun < MaxSagas /\ begun' = begun + 1
  BY DEF Inspect
<1> HIDE DEF q
<1> QED BY <1>1, <1>2, <1>3, <1>4, BeginSaga

\* The steps of a tab are those above.
LEMMA TabSteps ==
    ASSUME Sound, NEW t \in Tabs, TabStep(t)
    PROVE  (Shape(t) /\ Tracks(t) /\ Meets(t)) \/ \E r \in Saga : Begins(t, r)
<1>1. ASSUME NEW from \in Ids, NEW b \in Bases, NEW k \in 0..1, OpenForm(t, from, <<b, k>>)
      PROVE  \E r \in Saga : Begins(t, r)
  <2>1. <<b, k>> \in Name
    BY DEF Name
  <2> QED BY <1>1, <2>1, OpenFormBegins
<1>2. ASSUME NEW name \in {<<b, 0>> : b \in Bases} \cup {sagas[t].name}, Submit(t, name)
      PROVE  Shape(t) /\ Tracks(t) /\ Meets(t)
  <2>1. name \in Name
    BY DEF Name, Sound, TypeOK, Saga, Actors
  <2> QED BY <1>2, <2>1, SubmitStep
<1> QED BY <1>1, <1>2, StopOldStep, RenameOldStep, CreateNewStep, StartNewStep, DropNewStep,
           RenameBackStep, ApplySettingsStep, ConnectOneStep, RemoveOldStep,
           CloseTabStep DEF TabStep

\* The steps of a request are those above.
LEMMA RequestSteps ==
    ASSUME Sound, NEW q \in Requests, RequestStep(q)
    PROVE  (Shape(q) /\ Tracks(q) /\ Meets(q)) \/ \E r \in Saga : Begins(q, r)
BY InspectBegins, StopCurrentStep, RenameCurrentStep, DisconnectOneStep, CreateAgainStep,
   ConnectNextStep, StartAgainStep, RemoveCurrentStep, InheritStep, UndoStopStep,
   UndoRemoveStep, UndoRenameStep, UndoConnectStep, UndoStartStep DEF RequestStep

\* A call that nobody awaits takes nothing away.
LEMMA LateKeeps ==
    ASSUME Sound, LateConnect
    PROVE  /\ Kept(containers, containers', None) /\ Gently(containers, containers')
           /\ late' \subseteq late /\ late # {}
           /\ UNCHANGED <<nextId, sagas, begun, faults>>
<1>1. PICK call \in late :
        /\ late' = late \ {call}
        /\ \/ UNCHANGED containers
           \/ /\ MayConnect(containers, call[1], call[2])
              /\ containers' = Connected(containers, call[1], call[2])
        /\ UNCHANGED <<nextId, sagas, begun, faults>>
  BY DEF LateConnect
<1>2. Table(containers) /\ call[2] \in Networks
  BY DEF Sound, TypeOK, Table
<1>3. Gently(containers, containers')
  BY <1>1, <1>2, ConnectedGently DEF Gently
<1> QED BY <1>1, <1>2, <1>3, NothingKept, ConnectedKept

\* The sagas when the server dies.
LEMMA DiesKeeps ==
    ASSUME Sound, ServerDies
    PROVE  /\ UNCHANGED <<containers, nextId, late, begun>>
           /\ faults' = faults + 1 /\ faults' \in 0..MaxFaults
           /\ sagas' \in [Actors -> Saga]
           /\ \A s \in Actors :
                 \/ sagas'[s] = sagas[s]
                 \/ /\ sagas'[s].pc = "died" /\ sagas[s].pc \notin AtRest
                    /\ sagas'[s].old = sagas[s].old /\ sagas'[s].new = sagas[s].new
                    /\ sagas'[s].alone = sagas[s].alone
<1>1. ASSUME NEW s \in Actors
      PROVE  /\ [sagas[s] EXCEPT !.pc = "died"] \in Saga
             /\ [sagas[s] EXCEPT !.pc = "died"].pc = "died"
             /\ [sagas[s] EXCEPT !.pc = "died"].old = sagas[s].old
             /\ [sagas[s] EXCEPT !.pc = "died"].new = sagas[s].new
             /\ [sagas[s] EXCEPT !.pc = "died"].alone = sagas[s].alone
  BY DEF Sound, TypeOK, Saga, AtRest
<1>2. faults' = faults + 1 /\ faults' \in 0..MaxFaults
  BY BoundsAssumption DEF ServerDies, Sound, TypeOK
<1>3. RequestPC \cap AtRest = {}
  BY DEF RequestPC, AtRest
<1>4. \A s \in Actors : sagas'[s] = IF s \in Requests /\ sagas[s].pc \in RequestPC
                                   THEN [sagas[s] EXCEPT !.pc = "died"] ELSE sagas[s]
  BY DEF ServerDies
<1>5. sagas' \in [Actors -> Saga]
  <2>1. \A s \in Actors : sagas'[s] \in Saga
    BY <1>1, <1>4 DEF Sound, TypeOK
  <2>2. sagas' = [s \in Actors |-> sagas'[s]]
    BY <1>4 DEF ServerDies
  <2> QED BY <2>1, <2>2
<1> QED BY <1>1, <1>2, <1>3, <1>4, <1>5 DEF ServerDies

\* Every step is one of the five kinds.
LEMMA Kinds ==
    ASSUME Sound, [Next]_vars
    PROVE  \/ \E s \in Actors : Shape(s) /\ Tracks(s) /\ Meets(s)
           \/ \E s \in Actors, r \in Saga : Begins(s, r)
           \/ LateConnect \/ AutoRemoved \/ ServerDies \/ UNCHANGED vars
BY TabSteps, RequestSteps DEF Next, Actors

\* What every step does to the containers that the daemon removes at their stop.
Tags == Tagged' /\ doomed \subseteq doomed'

\* A call that does not create a container.
Falls == /\ doomed' = doomed \cup (autoRemove \cap Exits(containers, containers'))
         /\ autoRemove' = autoRemove

\* What was stopped stays so, and nothing is stopped that is not there.
LEMMA FallsTags ==
    ASSUME Sound, Falls \/ UNCHANGED <<autoRemove, doomed>>
    PROVE  Tags
BY DEF Falls, Tags, Tagged, Sound, TypeOK

\* A call that creates a container.
LEMMA CreateTags ==
    ASSUME Sound, NEW s \in Actors, sagas[s].pc = "create",
           NEW name, NEW nets, NEW auto, NEW good, NEW bad,
           CreateCall(s, name, nets, auto, good, bad)
    PROVE  Tags
<1>1. nextId \in Ids
  BY IdLeft DEF PendingPC
<1>2. doomed' = doomed \cup (autoRemove \cap Exits(containers, containers'))
  BY DEF CreateCall, Call
<1>3. /\ autoRemove \subseteq autoRemove'
      /\ autoRemove' \subseteq autoRemove \cup {nextId}
  BY DEF CreateCall
<1> QED BY <1>1, <1>2, <1>3 DEF Tags, Tagged, Sound, TypeOK

\* The steps of a tab.
LEMMA TabTags ==
    ASSUME Sound, NEW t \in Tabs, TabStep(t)
    PROVE  Tags
<1>1. ASSUME NEW from, NEW name, OpenForm(t, from, name) PROVE UNCHANGED <<autoRemove, doomed>>
  BY <1>1 DEF OpenForm, Begin
<1>2. ASSUME NEW name, Submit(t, name) PROVE UNCHANGED <<autoRemove, doomed>>
  BY <1>2 DEF Submit
<1>3. ASSUME NEW net, ConnectOne(t, net) PROVE UNCHANGED <<autoRemove, doomed>>
  BY <1>3 DEF ConnectOne
<1>4. CloseTab(t) => UNCHANGED <<autoRemove, doomed>>
  BY DEF CloseTab
<1>5. StopOld(t) \/ RenameOld(t) => Falls
  BY DEF StopOld, RenameOld, Call, Falls
<1>6. StartNew(t) \/ DropNew(t) \/ RenameBack(t) => Falls
  BY DEF StartNew, DropNew, RenameBack, Call, Falls
<1>7. ApplySettings(t) \/ RemoveOld(t) => Falls
  BY DEF ApplySettings, RemoveOld, Call, Falls
<1>8. CreateNew(t) => Tags
  BY CreateTags DEF CreateNew, Actors
<1> QED BY <1>1, <1>2, <1>3, <1>4, <1>5, <1>6, <1>7, <1>8, FallsTags DEF TabStep

\* The steps of a request.
LEMMA RequestTags ==
    ASSUME Sound, NEW q \in Requests, RequestStep(q)
    PROVE  Tags
<1>1. ASSUME NEW c, Inspect(q, c) PROVE UNCHANGED <<autoRemove, doomed>>
  BY <1>1 DEF Inspect, Begin
<1>2. ASSUME NEW net, DisconnectOne(q, net) \/ ConnectNext(q, net) \/ UndoConnect(q, net)
      PROVE  Falls
  BY <1>2 DEF DisconnectOne, ConnectNext, UndoConnect, Call, Falls
<1>3. StopCurrent(q) \/ RenameCurrent(q) \/ StartAgain(q) => Falls
  BY DEF StopCurrent, RenameCurrent, StartAgain, Call, Falls
<1>4. RemoveCurrent(q) \/ Inherit(q) => Falls
  BY DEF RemoveCurrent, Inherit, Call, Falls
<1>5. UndoStop(q) \/ UndoRemove(q) => Falls
  BY DEF UndoStop, UndoRemove, Call, Falls
<1>6. UndoRename(q) \/ UndoStart(q) => Falls
  BY DEF UndoRename, UndoStart, Call, Falls
<1>7. CreateAgain(q) => Tags
  BY CreateTags DEF CreateAgain, Actors
<1> QED BY <1>1, <1>2, <1>3, <1>4, <1>5, <1>6, <1>7, FallsTags DEF RequestStep

\* Every step keeps them, and what was stopped stays so.
LEMMA NextTags ==
    ASSUME Sound, [Next]_vars
    PROVE  Tags
<1>1. LateConnect \/ AutoRemoved \/ ServerDies \/ UNCHANGED vars =>
        UNCHANGED <<autoRemove, doomed>>
  BY DEF LateConnect, AutoRemoved, ServerDies, vars
<1> QED BY <1>1, TabTags, RequestTags, FallsTags DEF Next

\* The daemon takes away one container that was stopped.
LEMMA AutoKeeps ==
    ASSUME Sound, AutoRemoved
    PROVE  /\ doomed # {}
           /\ DOMAIN containers' \subseteq DOMAIN containers
           /\ \A c \in DOMAIN containers' : containers'[c] = containers[c]
           /\ UNCHANGED <<nextId, sagas, late, begun, faults, doomed>>
BY DEF AutoRemoved, Removed

\* At the start there is one container and no replacement.
LEMMA SoundInit ==
    ASSUME Init
    PROVE  Sound
<1>1. PICK b \in Bases :
        /\ containers = [c \in {1} |->
               [name |-> <<b, 0>>, running |-> TRUE, nets |-> Networks,
                access |-> TRUE, ran |-> TRUE]]
        /\ sagas = [s \in Actors |->
               [pc |-> "idle", old |-> None, was |-> <<b, 0>>, stop |-> FALSE,
                nets |-> {}, name |-> <<b, 0>>, new |-> None, todo |-> {},
                alone |-> TRUE, clean |-> TRUE]]
        /\ nextId = 2 /\ late = {} /\ begun = 0 /\ faults = 0
        /\ autoRemove \in {{}, {1}} /\ doomed = {}
  BY DEF Init
<1>2. TypeOK
  <2>1. <<b, 0>> \in Name /\ 1 \in Ids
    BY BoundsAssumption DEF Name, Ids
  <2>2. sagas \in [Actors -> Saga]
    BY <1>1, <2>1 DEF Saga, AtRest
  <2>3. DOMAIN containers \subseteq Ids /\ \A c \in DOMAIN containers : containers[c] \in Container
    BY <1>1, <2>1 DEF Container
  <2>4. nextId \in Nat /\ begun \in 0..MaxSagas /\ faults \in 0..MaxFaults
    BY <1>1, BoundsAssumption
  <2>5. late \subseteq Ids \X Networks
    BY <1>1
  <2>6. autoRemove \subseteq Ids /\ doomed \subseteq autoRemove
    BY <1>1, <2>1
  <2> QED BY <2>2, <2>3, <2>4, <2>5, <2>6 DEF TypeOK
<1>3. FreshInv
  <2>1. Pending = {} /\ IsFiniteSet(Pending) /\ Cardinality(Pending) = 0
    BY <1>1, FS_EmptySet DEF Pending, PendingPC
  <2> QED BY <1>1, <2>1 DEF FreshInv, PendingPC, NewPC, None
<1> QED BY <1>2, <1>3 DEF Sound

\* A step of a replacement draws an identifier or leaves the count alone.
LEMMA SoundShape ==
    ASSUME Sound, NEW s \in Actors, Shape(s), Tags
    PROVE  Sound'
<1>1. sagas' \in [Actors -> Saga] /\ \A t \in Actors \ {s} : sagas'[t] = sagas[t]
  BY DEF Sound, TypeOK, Shape, SagaShape
<1>2. nextId \in Nat /\ nextId' \in {nextId, nextId + 1}
  BY DEF Sound, TypeOK, Shape, SagaShape
<1>3. TypeOK'
  <2>1. Tagged'
    BY DEF Tags
  <2> QED BY <1>1, <1>2, <2>1 DEF Sound, TypeOK, Tagged, Shape, SagaShape, TableShape, Table
<1>4. IsFiniteSet(Pending') /\ nextId' + Cardinality(Pending') <= begun' + 2
  <2>1. IsFiniteSet(Pending) /\ Cardinality(Pending) \in Nat
    BY FS_CardinalityType DEF Sound, FreshInv
  <2>2. CASE nextId' = nextId
    <3>1. Pending' \subseteq Pending
      BY <1>1 DEF Pending, Shape, SagaShape
    <3>2. IsFiniteSet(Pending') /\ Cardinality(Pending') <= Cardinality(Pending)
      BY <2>1, <3>1, FS_Subset
    <3>3. Cardinality(Pending') \in Nat
      BY <3>2, FS_CardinalityType
    <3> QED BY <1>2, <2>1, <2>2, <3>2, <3>3 DEF Sound, FreshInv, TypeOK, Shape, SagaShape
  <2>3. CASE nextId' = nextId + 1
    <3>1. s \in Pending /\ Pending' \subseteq Pending \ {s}
      BY <1>1, <1>2, <2>3 DEF Pending, PendingPC, Shape, SagaShape
    <3>2. IsFiniteSet(Pending \ {s}) /\ Cardinality(Pending \ {s}) = Cardinality(Pending) - 1
      BY <2>1, <3>1, FS_RemoveElement
    <3>3. IsFiniteSet(Pending') /\ Cardinality(Pending') <= Cardinality(Pending \ {s})
      BY <3>1, <3>2, FS_Subset
    <3>4. Cardinality(Pending') \in Nat
      BY <3>3, FS_CardinalityType
    <3> QED BY <1>2, <2>1, <2>3, <3>2, <3>3, <3>4 DEF Sound, FreshInv, TypeOK, Shape, SagaShape
  <2> QED BY <1>2, <2>2, <2>3
<1>5. \A c \in DOMAIN containers' : c < nextId'
  BY <1>2, <1>3 DEF Sound, FreshInv, TypeOK, Shape, TableShape, Ids
<1> DEFINE r0 == sagas[s]  r == sagas'[s]
<1>6. /\ r0 \in Saga /\ r \in Saga /\ r.old = r0.old
      /\ (nextId' = nextId /\ r.new = r0.new) \/ (nextId' = nextId + 1 /\ r.new \in {None, nextId})
      /\ r.pc \in PendingPC => r0.pc \in PendingPC /\ r.new = r0.new
      /\ r.pc \in NewPC => r0.pc \in NewPC \/ r.new = nextId
      /\ nextId' # nextId => r0.pc = "create"
  BY <1>2 DEF Sound, TypeOK, Shape, SagaShape, Same
<1>7. \A t \in Actors : sagas[t].new \in Nat /\ sagas[t].old \in Nat
  BY DEF Sound, TypeOK, Saga, Ids, None
<1>8. \A t \in Actors : sagas'[t].old < nextId' /\ sagas'[t].new < nextId'
  <2> HIDE DEF r, r0
  <2>1. r.old < nextId' /\ r.new < nextId'
    BY <1>2, <1>6, <1>7 DEF Sound, FreshInv, r0, None
  <2>2. \A t \in Actors \ {s} : sagas'[t].old < nextId' /\ sagas'[t].new < nextId'
    BY <1>1, <1>2, <1>7 DEF Sound, FreshInv
  <2> QED BY <2>1, <2>2 DEF r
<1>9. \A t \in Actors : sagas'[t].pc \in PendingPC => sagas'[t].new = None
  BY <1>1, <1>6 DEF Sound, FreshInv
<1>10. \A t \in Actors : sagas'[t].pc \in NewPC => sagas'[t].new # None
  <2>1. r.pc \in NewPC => r.new # None
    BY <1>2, <1>6 DEF Sound, FreshInv, None, NewPC
  <2> QED BY <1>1, <2>1 DEF Sound, FreshInv
<1>11. \A t \in Actors : sagas'[t].new # None => sagas'[t].old < sagas'[t].new
  <2>1. r.new # None => r.old < r.new
    BY <1>2, <1>6 DEF Sound, FreshInv
  <2> QED BY <1>1, <2>1 DEF Sound, FreshInv
<1>12. \A t, u \in Actors : t # u /\ sagas'[t].new = sagas'[u].new => sagas'[t].new = None
  <2>1. \A t \in Actors \ {s} : sagas'[t].new = r.new => r.new = None
    BY <1>1, <1>2, <1>6, <1>7 DEF Sound, FreshInv
  <2> QED BY <1>1, <2>1 DEF Sound, FreshInv
<1>13. nextId' >= 2
  BY <1>2 DEF Sound, FreshInv
<1> QED BY <1>3, <1>4, <1>5, <1>8, <1>9, <1>10, <1>11, <1>12, <1>13 DEF Sound, FreshInv

\* A replacement that begins will draw one identifier.
LEMMA SoundBegin ==
    ASSUME Sound, NEW s \in Actors, NEW r \in Saga, Begins(s, r), Tags
    PROVE  Sound'
<1>1. \A t \in Actors \ {s} : /\ [sagas[t] EXCEPT !.alone = FALSE] \in Saga
                              /\ [sagas[t] EXCEPT !.alone = FALSE].pc = sagas[t].pc
                              /\ [sagas[t] EXCEPT !.alone = FALSE].old = sagas[t].old
                              /\ [sagas[t] EXCEPT !.alone = FALSE].new = sagas[t].new
  BY DEF Sound, TypeOK, Saga
<1>2. /\ sagas' \in [Actors -> Saga] /\ sagas'[s] = r
      /\ \A t \in Actors \ {s} : /\ sagas'[t].pc = sagas[t].pc /\ sagas'[t].old = sagas[t].old
                                 /\ sagas'[t].new = sagas[t].new
  BY <1>1 DEF Begins
<1>3. TypeOK'
  <2>1. Tagged'
    BY DEF Tags
  <2> QED BY <1>2, <2>1, BoundsAssumption DEF Sound, TypeOK, Tagged, Begins
<1>4. IsFiniteSet(Pending') /\ nextId' + Cardinality(Pending') <= begun' + 2
  <2>1. IsFiniteSet(Pending) /\ Cardinality(Pending) \in Nat
    BY FS_CardinalityType DEF Sound, FreshInv
  <2>2. s \notin Pending /\ Pending' = Pending \cup {s}
    BY <1>2 DEF Begins, Pending, PendingPC, AtRest
  <2>3. IsFiniteSet(Pending') /\ Cardinality(Pending') = Cardinality(Pending) + 1
    BY <2>1, <2>2, FS_AddElement
  <2> QED BY <2>1, <2>3 DEF Sound, FreshInv, TypeOK, Begins
<1>5. \A t \in Actors : sagas[t].new \in Nat /\ sagas[t].old \in Nat
  BY DEF Sound, TypeOK, Saga, Ids, None
<1>6. r.new = None /\ r.old < nextId /\ r.new < nextId /\ r.pc \notin NewPC
  BY DEF Sound, FreshInv, Begins, None, NewPC, TypeOK
<1>7. UNCHANGED <<containers, nextId>>
  BY DEF Begins
<1> QED BY <1>2, <1>3, <1>4, <1>5, <1>6, <1>7 DEF Sound, FreshInv

\* A late call draws none.
LEMMA SoundLate ==
    ASSUME Sound, LateConnect, Tags
    PROVE  Sound'
<1>1. Pending' = Pending
  BY LateKeeps DEF Pending
<1>2. Tagged'
  BY DEF Tags
<1> QED BY <1>1, <1>2, LateKeeps DEF Sound, TypeOK, Tagged, FreshInv, Kept, Table

\* Nor does the daemon.
LEMMA SoundAuto ==
    ASSUME Sound, AutoRemoved, Tags
    PROVE  Sound'
<1>1. Pending' = Pending
  BY AutoKeeps DEF Pending
<1>2. Tagged'
  BY DEF Tags
<1> QED BY <1>1, <1>2, AutoKeeps DEF Sound, TypeOK, Tagged, FreshInv

\* Replacements that die draw none any more.
LEMMA SoundDies ==
    ASSUME Sound, ServerDies, Tags
    PROVE  Sound'
<1>1. \A s \in Actors : /\ sagas'[s].old = sagas[s].old /\ sagas'[s].new = sagas[s].new
                        /\ sagas'[s].pc \in {sagas[s].pc, "died"}
  BY DiesKeeps
<1>2. Pending' \subseteq Pending
  BY <1>1 DEF Pending, PendingPC
<1>3. /\ IsFiniteSet(Pending) /\ Cardinality(Pending) \in Nat
      /\ IsFiniteSet(Pending') /\ Cardinality(Pending') <= Cardinality(Pending)
      /\ Cardinality(Pending') \in Nat
  BY <1>2, FS_Subset, FS_CardinalityType DEF Sound, FreshInv
<1>4. TypeOK'
  <2>1. Tagged'
    BY DEF Tags
  <2> QED BY <2>1, DiesKeeps DEF Sound, TypeOK, Tagged
<1>5. UNCHANGED <<containers, nextId, begun>>
  BY DiesKeeps
<1>6. nextId' + Cardinality(Pending') <= begun' + 2
  BY <1>3, <1>5 DEF Sound, FreshInv, TypeOK
<1> QED BY <1>1, <1>3, <1>4, <1>5, <1>6 DEF Sound, FreshInv, PendingPC, NewPC

\* Every step keeps types and identifiers.
LEMMA SoundNext ==
    ASSUME Sound, [Next]_vars
    PROVE  Sound'
<1>1. CASE UNCHANGED vars
  <2>1. Pending' = Pending
    BY <1>1 DEF vars, Pending
  <2> QED BY <1>1, <2>1 DEF vars, Sound, TypeOK, FreshInv
<1> QED BY <1>1, Kinds, NextTags, SoundShape, SoundBegin, SoundLate, SoundAuto, SoundDies

\* The engine's table, the replacements and the counters keep their types, and
\* the identifiers that replacements draw are fresh.
THEOREM ReplacementTyped == Spec => []TypeOK
<1>1. Spec => []Sound
  BY SoundInit, SoundNext, PTL DEF Spec
<1>2. Sound => TypeOK
  BY DEF Sound
<1> QED BY <1>1, <1>2, PTL

-----------------------------------------------------------------------------
(* What stays.                                                             *)

\* Only the server has been at work, without a fault.
Calm == faults = 0 /\ \A t \in Tabs : sagas[t].pc = "idle"

\* A container that nobody removes: it has run, nobody may undo it, and it is
\* no older than any that a replacement has put in the place of another.
Safe(c) ==
    /\ c \in DOMAIN containers /\ containers[c].ran
    /\ \A s \in Actors : Fragile(s) => sagas[s].new # c
    /\ \A s \in Actors : Passed(s) => sagas[s].new <= c

\* It runs, or somebody owes it a start.
Served(c) ==
    \/ containers[c].running
    \/ \E q \in Requests : sagas[q].old = c /\ sagas[q].pc \in Owing

Stands(c) == Safe(c) /\ (Calm => Served(c))

\* The first container stands.
LEMMA StandsInit ==
    ASSUME Init
    PROVE  Stands(1)
BY DEF Init, Stands, Safe, Served, Fragile, Passed, Actors

\* A replacement gets past the start of its new container, which takes over
\* from an older one.
LEMMA TakesOver ==
    ASSUME Sound, NEW s \in Actors, Shape(s), NEW c \in Nat, Safe(c),
           Passed(s)', ~Passed(s), NEW n, n = sagas[s].new, n > c
    PROVE  Stands(n)'
<1>1. n \in DOMAIN containers /\ containers' = Started(containers, n) /\ n # None
  BY DEF Shape, ServeShape, Sound, TypeOK, Ids, None
<1>2. n \in DOMAIN containers' /\ containers'[n].running /\ containers'[n].ran
  BY <1>1, StartedRuns DEF Sound, TypeOK, Table
<1>3. /\ \A t \in Actors \ {s} : sagas'[t] = sagas[t]
      /\ sagas'[s].new = n
  <2>1. \A t \in Actors \ {s} : sagas'[t] = sagas[t]
    BY DEF Shape, SagaShape, Sound, TypeOK
  <2>2. sagas'[s].pc \in NewPC /\ sagas[s].pc = "start"
    BY DEF Passed, NewPC, Shape, ServeShape
  <2> QED BY <2>1, <2>2 DEF Shape, SagaShape
<1>4. ~Fragile(s)'
  BY ActorsAssumption DEF Passed, Fragile
<1>5. \A t \in Actors \ {s} : sagas[t].new # n /\ sagas[t].new \in Nat
  BY <1>1 DEF Sound, FreshInv, TypeOK, Saga, Ids, None
<1>6. \A t \in Actors \ {s} : (Passed(t)' <=> Passed(t)) /\ (Fragile(t)' <=> Fragile(t))
  BY <1>3 DEF Passed, Fragile
<1>7. \A t \in Actors : Fragile(t)' => sagas'[t].new # n
  BY <1>3, <1>4, <1>5
<1>8. \A t \in Actors : Passed(t)' => sagas'[t].new <= n
  <2>1. n \in Nat
    BY DEF Sound, TypeOK, Saga, Ids, None
  <2> QED BY <1>3, <1>5, <1>6, <2>1 DEF Safe
<1> QED BY <1>2, <1>7, <1>8 DEF Stands, Safe, Served

\* After a step of a replacement the same container stands, or its successor.
LEMMA StandsShape ==
    ASSUME Sound, NEW s \in Actors, Shape(s), NEW c \in Ids, Stands(c)
    PROVE  \E d \in Ids : Stands(d)'
<1>1. CASE Passed(s)' /\ ~Passed(s) /\ sagas[s].new > c
  <2>1. PICK n \in Ids : n = sagas[s].new
    BY <1>1 DEF Shape, ServeShape, Sound, TypeOK
  <2>2. Stands(n)'
    BY <1>1, <2>1, TakesOver DEF Ids, Stands
  <2> QED BY <2>2
<1>2. CASE ~(Passed(s)' /\ ~Passed(s) /\ sagas[s].new > c)
  <2>1. \A t \in Actors \ {s} : sagas'[t] = sagas[t]
    BY DEF Shape, SagaShape, Sound, TypeOK
  <2>2. /\ sagas[s].new \in Nat /\ sagas[s].old \in Nat /\ nextId \in Nat /\ c \in Nat
        /\ c < nextId
        /\ sagas[s].new # None => sagas[s].old < sagas[s].new
        /\ sagas[s].pc \in NewPC => sagas[s].new # None
    BY DEF Sound, TypeOK, Saga, Ids, None, FreshInv, Stands, Safe
  <2>3. Passed(s) => sagas[s].new <= c /\ sagas[s].old < sagas[s].new
    BY <2>2 DEF Stands, Safe, Passed, NewPC
  <2>4. c \in DOMAIN containers' /\ containers'[c].ran
    BY <2>2, <2>3 DEF Stands, Safe, Shape, TableShape
  <2>5. sagas'[s].new \in {None, nextId, sagas[s].new}
    BY DEF Shape, SagaShape
  <2>6. Passed(s)' => sagas'[s].new <= c
    <3>1. CASE Passed(s)
      <4>1. sagas'[s].new = sagas[s].new
        BY <3>1 DEF Shape, SagaShape, Passed
      <4> QED BY <2>3, <3>1, <4>1
    <3>2. CASE ~Passed(s)
      <4>1. Passed(s)' => sagas'[s].new = sagas[s].new
        BY <3>2 DEF Shape, SagaShape, ServeShape
      <4> QED BY <1>2, <2>2, <3>2, <4>1
    <3> QED BY <3>1, <3>2
  <2>7. Fragile(s)' => sagas'[s].new # c
    <3>1. CASE sagas'[s].new = nextId
      BY <2>2, <3>1
    <3>2. CASE sagas'[s].new # nextId
      <4>1. Fragile(s)' => Fragile(s) /\ sagas'[s].new \in {None, sagas[s].new}
        BY <2>5, <3>2 DEF Shape, SagaShape
      <4> QED BY <4>1 DEF Stands, Safe, Ids, None
    <3> QED BY <3>1, <3>2
  <2>8. \A t \in Actors \ {s} : (Passed(t)' <=> Passed(t)) /\ (Fragile(t)' <=> Fragile(t))
    BY <2>1 DEF Passed, Fragile
  <2>9. Safe(c)'
    BY <2>1, <2>4, <2>6, <2>7, <2>8 DEF Stands, Safe
  <2>10. ASSUME Calm' PROVE Served(c)'
    <3>1. faults' = 0 /\ s \in Requests
      BY <2>10 DEF Calm, Shape, SagaShape, Actors
    <3>2. Calm
      <4>1. faults = 0
        BY <3>1 DEF Shape, SagaShape, Sound, TypeOK
      <4>2. \A t \in Tabs : t \in Actors \ {s}
        BY <3>1, ActorsAssumption DEF Actors
      <4> QED BY <2>1, <2>10, <4>1, <4>2 DEF Calm
    <3>3. Served(c) /\ c \in DOMAIN containers
      BY <3>2 DEF Stands, Safe
    <3>4. sagas'[s].old = sagas[s].old
      BY DEF Shape, SagaShape, Same
    <3>5. ASSUME NEW q \in Requests, sagas[q].old = c, sagas[q].pc \in Owing, q # s
          PROVE  Served(c)'
      BY <2>1, <3>5 DEF Served, Actors
    <3>6. CASE sagas[s].old = c /\ sagas[s].pc \in Owing
      <4>1. CASE sagas'[s].pc \in Owing
        BY <3>1, <3>4, <3>6, <4>1 DEF Served
      <4>2. CASE sagas[s].pc = "start" /\ Passed(s)'
        <5>1. ~Passed(s)
          BY <4>2, <3>1, ActorsAssumption DEF Passed
        <5>2. sagas[s].new > c
          BY <2>2, <3>6, <4>2 DEF NewPC
        <5> QED BY <1>2, <4>2, <5>1, <5>2
      <4>3. CASE sagas'[s].pc \notin Owing /\ ~(sagas[s].pc = "start" /\ Passed(s)')
        <5>1. containers'[c].running
          BY <3>1, <3>3, <3>6, <4>3 DEF Shape, ServeShape
        <5> QED BY <5>1 DEF Served
      <4> QED BY <4>1, <4>2, <4>3
    <3>7. CASE containers[c].running
      <4>1. ~(c = sagas[s].new /\ Fragile(s))
        BY DEF Stands, Safe
      <4>2. \/ containers'[c].running
            \/ c = sagas[s].old /\ sagas'[s].pc \in Owing
        BY <2>4, <3>1, <3>3, <3>7, <4>1 DEF Shape, ServeShape
      <4> QED BY <3>1, <3>4, <4>2 DEF Served
    <3> QED BY <3>3, <3>5, <3>6, <3>7 DEF Served
  <2> QED BY <2>9, <2>10 DEF Stands
<1> QED BY <1>1, <1>2

\* The sagas keep what matters to Stands, or die.
LEMMA StandsAside ==
    ASSUME NEW c, Stands(c), DOMAIN containers' = DOMAIN containers,
           containers[c].ran => containers'[c].ran,
           containers[c].running => containers'[c].running,
           \A s \in Actors : /\ (Passed(s)' => Passed(s)) /\ (Fragile(s)' => Fragile(s))
                             /\ sagas'[s].new = sagas[s].new \/ ~(Passed(s)' \/ Fragile(s)'),
           Calm' => Calm,
           Calm' => \A q \in Requests : sagas[q].pc \in Owing =>
                       sagas'[q].pc \in Owing /\ sagas'[q].old = sagas[q].old
    PROVE  Stands(c)'
<1>1. Safe(c)'
  BY DEF Stands, Safe
<1>2. Calm' => Served(c)'
  BY DEF Stands, Served
<1> QED BY <1>1, <1>2 DEF Stands

\* A replacement that begins stops nothing yet.
LEMMA StandsBegin ==
    ASSUME Sound, NEW s \in Actors, NEW r \in Saga, Begins(s, r), NEW c, Stands(c)
    PROVE  Stands(c)'
<1>1. /\ sagas'[s] = r /\ r.pc \in {"form", "stop"} /\ sagas[s].pc \in AtRest
      /\ \A t \in Actors \ {s} : /\ sagas'[t].pc = sagas[t].pc /\ sagas'[t].new = sagas[t].new
                                 /\ sagas'[t].old = sagas[t].old
      /\ UNCHANGED <<containers, faults>>
  BY DEF Begins, Sound, TypeOK, Saga
<1>2. ~Passed(s)' /\ ~Fragile(s)'
  BY <1>1 DEF Passed, Fragile
<1>3. \A t \in Actors \ {s} : (Passed(t)' <=> Passed(t)) /\ (Fragile(t)' <=> Fragile(t))
  BY <1>1 DEF Passed, Fragile
<1>4. Calm' => Calm
  BY <1>1 DEF Calm, Actors
<1>5. \A q \in Requests : sagas[q].pc \in Owing =>
                             sagas'[q].pc \in Owing /\ sagas'[q].old = sagas[q].old
  BY <1>1 DEF Owing, AtRest, Actors
<1> QED BY <1>1, <1>2, <1>3, <1>4, <1>5, StandsAside

\* A late call removes and stops nothing.
LEMMA StandsLate ==
    ASSUME Sound, LateConnect, NEW c \in Ids, Stands(c)
    PROVE  Stands(c)'
<1>1. UNCHANGED <<sagas, faults>> /\ Kept(containers, containers', None)
  BY LateKeeps
<1>2. \A s \in Actors : (Passed(s)' <=> Passed(s)) /\ (Fragile(s)' <=> Fragile(s))
  BY <1>1 DEF Passed, Fragile
<1>3. Calm' <=> Calm
  BY <1>1 DEF Calm
<1>4. c # None /\ c \in DOMAIN containers
  BY DEF Ids, None, Stands, Safe
<1> QED BY <1>1, <1>2, <1>3, <1>4, StandsAside DEF Kept

\* A server that dies is a fault.
LEMMA StandsDies ==
    ASSUME Sound, ServerDies, NEW c, Stands(c)
    PROVE  Stands(c)'
<1>1. ~Calm' /\ UNCHANGED containers
  BY DiesKeeps DEF Calm, Sound, TypeOK
<1>2. \A s \in Actors : /\ (Passed(s)' => Passed(s)) /\ (Fragile(s)' => Fragile(s))
                        /\ sagas'[s].new = sagas[s].new
  BY DiesKeeps DEF Passed, Fragile
<1> QED BY <1>1, <1>2, StandsAside

StandsInv == KeptAtStop => \E c \in Ids : Stands(c)

\* Every step leaves a container that stands, or stops one that the daemon
\* removes then.
LEMMA StandsNext ==
    ASSUME Sound, StandsInv, [Next]_vars
    PROVE  StandsInv'
<1> SUFFICES ASSUME KeptAtStop'
             PROVE  \E c \in Ids : Stands(c)'
  BY DEF StandsInv
<1>0. KeptAtStop /\ ~AutoRemoved
  BY NextTags, AutoKeeps DEF Tags, KeptAtStop
<1>1. PICK c \in Ids : Stands(c)
  BY <1>0 DEF StandsInv
<1>2. CASE UNCHANGED vars
  BY <1>1, <1>2 DEF vars, Stands, Safe, Served, Calm, Passed, Fragile
<1> QED BY <1>0, <1>1, <1>2, Kinds, StandsShape, StandsBegin, StandsLate, StandsDies

\* As long as no such container was stopped, some container stands.
LEMMA StandsAlways == Spec => [](Sound /\ StandsInv)
<1>1. Init => Sound /\ StandsInv
  <2>1. 1 \in Ids
    BY BoundsAssumption DEF Ids
  <2> QED BY <2>1, SoundInit, StandsInit DEF StandsInv
<1>2. Sound /\ StandsInv /\ [Next]_vars => (Sound /\ StandsInv)'
  BY SoundNext, StandsNext
<1> QED BY <1>1, <1>2, PTL DEF Spec

\* Whatever fails, and however many replacements of one container meet, by the
\* browser or by the server, a container that has run is left, as long as none
\* of them stopped a container that the daemon removes at its stop (AutoRemove).
THEOREM ContainerSurvives == Spec => []ServiceSurvives
<1>1. StandsInv => ServiceSurvives
  BY DEF StandsInv, Stands, Safe, ServiceSurvives
<1> QED BY <1>1, StandsAlways, PTL

\* When recreations by the server have ended, any number of them and however
\* they met, there was no fault and no container with AutoRemove was stopped,
\* something runs.
THEOREM RecreationServes == Spec => []SomeoneServes
<1>1. StandsInv => SomeoneServes
  <2> SUFFICES ASSUME NEW c \in Ids, Stands(c), Calm,
                      \A q \in Requests : sagas[q].pc \in AtRest
               PROVE  \E d \in DOMAIN containers : containers[d].running
    BY DEF StandsInv, SomeoneServes, Calm
  <2>1. \A q \in Requests : sagas[q].pc \notin Owing
    BY DEF AtRest, Owing
  <2> QED BY <2>1 DEF Stands, Safe, Served
<1> QED BY <1>1, StandsAlways, PTL

-----------------------------------------------------------------------------
(* A replacement that nobody disturbs.                                     *)

\* Nobody else is at work, and no call that nobody awaits is under way.
Undisturbed(s) ==
    /\ \A t \in Actors \ {s} : sagas[t].pc \in AtRest
    /\ sagas[s].pc \notin {"half", "died"} => late = {}

AloneInv ==
    \A s \in Actors : sagas[s].alone /\ sagas[s].pc # "idle" =>
        Undisturbed(s) /\ Placed(s, sagas[s], containers)

\* Names are unique, and alone means alone: not even the daemon takes anything
\* away.
TrackInv == Unique(containers) /\ (KeptAtStop => AloneInv)

\* At the start all are idle.
LEMMA TrackInit ==
    ASSUME Init
    PROVE  TrackInv
BY DEF Init, TrackInv, AloneInv, Unique

\* A replacement that is alone is the one that steps.
LEMMA TrackShape ==
    ASSUME Sound, Unique(containers), AloneInv, NEW s \in Actors, Shape(s), Tracks(s)
    PROVE  AloneInv'
<1>2. \A t \in Actors \ {s} : sagas'[t] = sagas[t]
  BY DEF Shape, SagaShape, Sound, TypeOK
<1>3. sagas[s].pc \notin AtRest
  BY DEF Shape, SagaShape
<1>4. \A t \in Actors \ {s} : ~(sagas[t].alone /\ sagas[t].pc # "idle")
  BY <1>3 DEF AloneInv, Undisturbed
<1>5. ASSUME sagas'[s].alone
      PROVE  Undisturbed(s)' /\ Placed(s, sagas'[s], containers')
  <2>1. sagas[s].alone /\ sagas[s].pc # "idle" /\ sagas[s].pc \notin {"half", "died"}
    BY <1>3, <1>5 DEF Shape, SagaShape, Same, AtRest
  <2>2. Undisturbed(s) /\ Placed(s, sagas[s], containers) /\ late = {}
    BY <2>1 DEF AloneInv, Undisturbed
  <2>3. Placed(s, sagas'[s], containers')
    BY <2>2 DEF Tracks
  <2>4. late' # {} => sagas'[s].pc \in {"half", "died"}
    BY <2>2 DEF Shape, SagaShape
  <2> QED BY <1>2, <2>2, <2>3, <2>4 DEF Undisturbed
<1>6. ASSUME NEW t \in Actors, sagas'[t].alone, sagas'[t].pc # "idle"
      PROVE  Undisturbed(t)' /\ Placed(t, sagas'[t], containers')
  <2>1. t = s
    BY <1>2, <1>4, <1>6
  <2> QED BY <1>5, <1>6, <2>1
<1> QED BY <1>6 DEF AloneInv

\* A replacement that begins disturbs all others.
LEMMA TrackBegin ==
    ASSUME Sound, AloneInv, NEW s \in Actors, NEW r \in Saga, Begins(s, r)
    PROVE  AloneInv'
<1>1. /\ sagas'[s] = r
      /\ \A t \in Actors \ {s} : sagas'[t].pc = sagas[t].pc /\ ~sagas'[t].alone
      /\ UNCHANGED <<containers, late>>
  BY DEF Begins, Sound, TypeOK, Saga
<1>2. r.alone => late = {} /\ \A t \in Actors \ {s} : sagas[t].pc \in AtRest
  BY DEF Begins
<1>3. Placed(s, r, containers)
  BY DEF Begins
<1>4. ASSUME NEW t \in Actors, sagas'[t].alone
      PROVE  Undisturbed(t)' /\ Placed(t, sagas'[t], containers')
  <2>1. t = s
    BY <1>1, <1>4
  <2> QED BY <1>1, <1>2, <1>3, <1>4, <2>1 DEF Undisturbed
<1> QED BY <1>1, <1>4 DEF AloneInv

\* A late call comes from a replacement that ended half-way.
LEMMA TrackLate ==
    ASSUME Sound, AloneInv, LateConnect
    PROVE  AloneInv'
<1>1. /\ UNCHANGED sagas /\ Kept(containers, containers', None) /\ late # {}
      /\ late' \subseteq late
  BY LateKeeps
<1>2. \A s \in Actors : sagas[s].alone /\ sagas[s].pc # "idle" =>
                           Undisturbed(s) /\ sagas[s].pc \in {"half", "died"}
  BY <1>1 DEF AloneInv, Undisturbed
<1>3. \A s \in Actors : sagas[s].pc \in {"half", "died"} =>
                           Placed(s, sagas[s], containers')
  BY DEF Placed, Where, Made
<1> QED BY <1>1, <1>2, <1>3 DEF AloneInv, Undisturbed

\* A replacement that died promises nothing.
LEMMA TrackDies ==
    ASSUME Sound, AloneInv, ServerDies
    PROVE  AloneInv'
<1>1. /\ UNCHANGED <<containers, late>>
      /\ \A s \in Actors : \/ sagas'[s] = sagas[s]
                           \/ /\ sagas'[s].pc = "died" /\ sagas[s].pc \notin AtRest
                              /\ sagas'[s].alone = sagas[s].alone
  BY DiesKeeps
<1>2. ASSUME NEW s \in Actors, sagas'[s].alone, sagas'[s].pc # "idle"
      PROVE  Undisturbed(s)' /\ Placed(s, sagas'[s], containers')
  <2>1. sagas[s].alone /\ sagas[s].pc # "idle"
    BY <1>1, <1>2 DEF AtRest
  <2>2. Undisturbed(s) /\ Placed(s, sagas[s], containers)
    BY <2>1 DEF AloneInv
  <2>3. sagas'[s].pc = "died" => Placed(s, sagas'[s], containers')
    BY DEF Placed, Where, Made
  <2>4. \A t \in Actors \ {s} : sagas'[t].pc \in AtRest
    BY <1>1, <2>2 DEF Undisturbed, AtRest
  <2>5. sagas'[s].pc \notin {"half", "died"} => late' = {}
    BY <1>1, <2>2 DEF Undisturbed
  <2> QED BY <1>1, <2>2, <2>3, <2>4, <2>5 DEF Undisturbed
<1> QED BY <1>1, <1>2 DEF AloneInv

\* Every step keeps names unique.
LEMMA UniqueNext ==
    ASSUME Sound, Unique(containers), [Next]_vars
    PROVE  Unique(containers')
<1>1. ASSUME NEW s \in Actors, Shape(s) PROVE Unique(containers')
  BY <1>1 DEF Shape, TableShape
<1>2. ASSUME NEW s \in Actors, NEW r \in Saga, Begins(s, r) PROVE Unique(containers')
  BY <1>2 DEF Begins
<1>3. LateConnect => Unique(containers')
  BY LateKeeps DEF Kept
<1>4. AutoRemoved => Unique(containers')
  BY AutoKeeps DEF Unique
<1>5. ServerDies \/ UNCHANGED vars => Unique(containers')
  BY DiesKeeps DEF vars
<1> QED BY <1>1, <1>2, <1>3, <1>4, <1>5, Kinds

\* Every step keeps a lone replacement on its track.
LEMMA TrackNext ==
    ASSUME Sound, TrackInv, [Next]_vars
    PROVE  TrackInv'
<1>1. Unique(containers) /\ Unique(containers')
  BY UniqueNext DEF TrackInv
<1>2. ASSUME KeptAtStop' PROVE AloneInv'
  <2>1. KeptAtStop /\ ~AutoRemoved
    BY <1>2, NextTags, AutoKeeps DEF Tags, KeptAtStop
  <2>2. AloneInv
    BY <2>1 DEF TrackInv
  <2>3. CASE UNCHANGED vars
    BY <2>2, <2>3 DEF vars, AloneInv, Undisturbed
  <2> QED BY <1>1, <2>1, <2>2, <2>3, Kinds, TrackShape, TrackBegin, TrackLate, TrackDies
<1> QED BY <1>1, <1>2 DEF TrackInv

\* At any moment a lone replacement is on its track.
LEMMA TrackAlways == Spec => [](Sound /\ TrackInv)
BY SoundInit, SoundNext, TrackInit, TrackNext, PTL DEF Spec

\* A replacement that fails, alone and with every answer known, has put the old
\* container back under its name and left no new one; the server's also has it
\* running, on its networks.  Unless it was told to be removed at its stop.
THEOREM FailureRestores == Spec => []RollbackRestores
<1>1. TrackInv => RollbackRestores
  <2> SUFFICES ASSUME TrackInv, KeptAtStop, NEW s \in Actors,
                      sagas[s].pc = "failed", sagas[s].alone, sagas[s].clean,
                      sagas[s].old # None, sagas[s].name = sagas[s].was
               PROVE  Restored(s)
    BY DEF RollbackRestores
  <2>1. Placed(s, sagas[s], containers)
    BY DEF TrackInv, AloneInv
  <2>2. Back(s, sagas[s], containers)
    BY <2>1 DEF Placed, Where
  <2> QED BY <2>2 DEF Back, Is, Restored
<1> QED BY <1>1, TrackAlways, PTL

-----------------------------------------------------------------------------
(* Two replacements that meet.                                             *)

\* The first replacement is alone, and of the first two at most two are not
\* idle.
FewInv ==
    /\ begun = 0 => late = {} /\ \A s \in Actors : sagas[s].pc = "idle"
    /\ begun = 1 => \A s \in Actors : sagas[s].pc # "idle" =>
          sagas[s].alone /\ \A t \in Actors \ {s} : sagas[t].pc = "idle"
    /\ begun = 2 => \A s, t, u \in Actors :
          s # t /\ s # u /\ t # u => "idle" \in {sagas[s].pc, sagas[t].pc, sagas[u].pc}

\* Another replacement that is at work on the new container of s, r being s,
\* cannot have renamed it, for the old container of s still has the name that
\* it would need.
Waits(r, q, cs) ==
    q.old = r.new /\ q.pc \notin AtRest =>
        /\ q.pc \in Idling /\ q.new = None /\ q.was = r.was
        /\ cs[r.old].name = Old(r.was)

\* As long as the old container is there, the new one has its name and its
\* networks.
GiveInv ==
    begun <= 2 /\ KeptAtStop => \A s \in Actors : sagas[s].old \in DOMAIN containers =>
        /\ Gave(s, sagas[s], containers)
        /\ Replacing(s, sagas[s]) /\ sagas[s].name = sagas[s].was =>
              \A t \in Actors \ {s} : Waits(sagas[s], sagas[t], containers)

\* At the start nothing has begun.
LEMMA GiveInit ==
    ASSUME Init
    PROVE  FewInv /\ GiveInv
BY DEF Init, FewInv, GiveInv, Gave, Replacing, Made

\* No step but the beginning of a replacement wakes an idle one.
LEMMA FewNext ==
    ASSUME Sound, FewInv, [Next]_vars
    PROVE  FewInv'
<1>1. CASE UNCHANGED vars
  BY <1>1 DEF vars, FewInv
<1>2. ASSUME NEW s \in Actors, Shape(s) PROVE FewInv'
  <2>1. /\ begun' = begun /\ sagas[s].pc # "idle"
        /\ \A t \in Actors \ {s} : sagas'[t] = sagas[t]
        /\ sagas'[s].alone = sagas[s].alone
    BY <1>2 DEF Shape, SagaShape, Same, Sound, TypeOK, AtRest
  <2>2. begun # 0
    BY <2>1 DEF FewInv
  <2> QED BY <2>1, <2>2 DEF FewInv
<1>3. ASSUME NEW s \in Actors, NEW r \in Saga, Begins(s, r) PROVE FewInv'
  <2>1. /\ begun' = begun + 1 /\ begun \in Nat /\ sagas'[s] = r
        /\ \A t \in Actors \ {s} : sagas'[t].pc = sagas[t].pc
    BY <1>3 DEF Begins, Sound, TypeOK, Saga
  <2>2. begun = 0 => r.alone
    BY <1>3 DEF Begins, FewInv, AtRest
  <2>3. CASE begun = 0
    BY <2>1, <2>2, <2>3 DEF FewInv
  <2>4. CASE begun = 1
    BY <2>1, <2>4 DEF FewInv
  <2>5. CASE begun > 1
    BY <2>1, <2>5 DEF FewInv
  <2> QED BY <2>1, <2>3, <2>4, <2>5
<1>4. ASSUME LateConnect PROVE FewInv'
  BY <1>4, LateKeeps DEF FewInv
<1>5. ASSUME ServerDies PROVE FewInv'
  <2>1. /\ UNCHANGED <<late, begun>>
        /\ \A s \in Actors :
              \/ sagas'[s] = sagas[s]
              \/ /\ sagas[s].pc \notin AtRest
                 /\ sagas'[s].alone = sagas[s].alone
    BY <1>5, DiesKeeps
  <2>2. \A s \in Actors : sagas[s].pc = "idle" => sagas'[s] = sagas[s]
    BY <2>1 DEF AtRest
  <2>3. \A s \in Actors : sagas'[s].alone = sagas[s].alone
    BY <2>1
  <2> QED BY <2>1, <2>2, <2>3 DEF FewInv
<1>6. ASSUME AutoRemoved PROVE FewInv'
  BY <1>6, AutoKeeps DEF FewInv
<1> QED BY <1>1, <1>2, <1>3, <1>4, <1>5, <1>6, Kinds

\* Replacements that are not idle, as long as only two have begun, are no more
\* than two.
LEMMA NoThird ==
    ASSUME Sound, FewInv, begun <= 2, NEW s \in Actors, NEW t \in Actors \ {s},
           sagas[s].pc # "idle", sagas[t].pc # "idle"
    PROVE  \A u \in Actors \ {s, t} : sagas[u].pc = "idle"
BY DEF Sound, TypeOK, FewInv

\* A step of s that works on the new container of u.
LEMMA MeetsSuccessor ==
    ASSUME Sound, GiveInv, KeptAtStop, begun <= 2, NEW u \in Actors, NEW s \in Actors \ {u},
           Shape(s), Meets(s), NEW r, r = sagas[u], Replacing(u, r), r.name = r.was,
           r.old \in DOMAIN containers, sagas[s].old = r.new
    PROVE  Gently(containers, containers') /\ Waits(r, sagas'[s], containers')
<1> DEFINE q == sagas[s]
<1>1. r.old # None /\ r.new # None /\ r.new \in Nat
  <2>1. r \in Saga /\ r.pc \in NewPC
    BY DEF Sound, TypeOK, Replacing, Made, NewPC
  <2> QED BY <2>1 DEF Sound, FreshInv, TypeOK, Saga, Ids, None
<1>2. Gave(u, r, containers) /\ Waits(r, q, containers)
  BY DEF GiveInv
<1>3. New(r, containers)
  BY <1>1, <1>2 DEF Gave, Successor
<1>4. /\ q.pc \in Idling /\ q.new = None /\ q.was = r.was
      /\ containers[r.old].name = Old(r.was)
  BY <1>2 DEF Waits, Shape, SagaShape
<1>5. NameTaken(containers, Old(q.was)) /\ NameTaken(containers, q.was)
  BY <1>3, <1>4 DEF NameTaken, New
<1>6. sagas'[s].pc \in Idling \cup AtRest /\ Gently(containers, containers')
  BY <1>1, <1>4, <1>5 DEF Meets, Gentle
<1>7. Same(sagas'[s], q) /\ sagas'[s].new = None
  BY <1>4 DEF Shape, SagaShape, Idling
<1>8. containers'[r.old].name = Old(r.was)
  BY <1>4, <1>6 DEF Gently
<1> QED BY <1>4, <1>6, <1>7, <1>8 DEF Waits, Same

\* A successor stays one while others do not touch it, or touch it gently.
LEMMA SuccessorStays ==
    ASSUME NEW u, NEW r, Successor(u, r, containers),
           \/ Gently(containers, containers')
           \/ r.new \in DOMAIN containers' /\ containers'[r.new] = containers[r.new]
    PROVE  Successor(u, r, containers')
BY DEF Successor, New, Gently

\* A successor is kept by the steps of its own replacement and of the other.
LEMMA GiveShape ==
    ASSUME Sound, FewInv, GiveInv, KeptAtStop, NEW s \in Actors, Shape(s), Meets(s)
    PROVE  GiveInv'
<1> SUFFICES ASSUME begun' <= 2, NEW u \in Actors, sagas'[u].old \in DOMAIN containers'
             PROVE  /\ Gave(u, sagas'[u], containers')
                    /\ Replacing(u, sagas'[u]) /\ sagas'[u].name = sagas'[u].was =>
                          \A t \in Actors \ {u} : Waits(sagas'[u], sagas'[t], containers')
  BY DEF GiveInv
<1>1. /\ begun' = begun /\ begun <= 2 /\ sagas[s].pc \notin AtRest
      /\ Same(sagas'[s], sagas[s])
      /\ \A t \in Actors \ {s} : sagas'[t] = sagas[t]
  BY DEF Shape, SagaShape, Sound, TypeOK
<1>2. sagas'[u].old = sagas[u].old /\ sagas[u].old \in DOMAIN containers
  <2>1. sagas'[u].old = sagas[u].old
    BY <1>1 DEF Same
  <2>2. sagas[u].old # nextId
    BY DEF Sound, FreshInv, TypeOK
  <2> QED BY <2>1, <2>2 DEF Shape, TableShape
<1>3. Gave(u, sagas[u], containers)
  BY <1>1, <1>2 DEF GiveInv
<1>4. \A t \in Actors : sagas[t].old < nextId /\ sagas[t].old \in Nat
  BY DEF Sound, FreshInv, TypeOK, Saga, Ids, None
<1>5. \A t \in Actors : sagas[t].pc \in Made => sagas[t].new # None /\ sagas[t].pc # "idle"
  BY DEF Sound, FreshInv, Made, NewPC
<1>6. CASE u = s
  <2>1. Gave(s, sagas'[s], containers')
    BY <1>3, <1>6 DEF Meets, Gives
  <2>2. ASSUME Replacing(s, sagas'[s]), sagas'[s].name = sagas'[s].was, NEW t \in Actors \ {s}
        PROVE  Waits(sagas'[s], sagas'[t], containers')
    <3> SUFFICES ASSUME sagas[t].old = sagas'[s].new, sagas[t].pc \notin AtRest
                 PROVE  Waits(sagas'[s], sagas'[t], containers')
      BY <1>1 DEF Waits
    <3>1. sagas'[s].new # nextId
      BY <1>4 DEF Sound, TypeOK
    <3>2. sagas[s].pc \in NewPC
      BY <2>2, <3>1 DEF Replacing, Made, NewPC, Shape, SagaShape
    <3>3. sagas[s].pc \notin {"create", "form"} /\ sagas'[s].new = sagas[s].new
          /\ sagas'[s].name = sagas[s].name
      BY <3>2 DEF NewPC, Shape, SagaShape
    <3>4. /\ Replacing(s, sagas[s])
          /\ \A c \in DOMAIN containers : c # sagas[s].new =>
                c \in DOMAIN containers' /\ containers'[c] = containers[c]
      BY <2>2, <3>3 DEF Meets, Gives
    <3>5. Waits(sagas[s], sagas[t], containers)
      BY <1>1, <1>2, <1>6, <2>2, <3>3, <3>4 DEF GiveInv, Same
    <3>6. sagas[s].old # sagas[s].new
      BY <1>5, <3>4 DEF Replacing, Sound, FreshInv, TypeOK, Saga, Ids, None
    <3>7. containers'[sagas[s].old] = containers[sagas[s].old]
      BY <1>2, <1>6, <3>4, <3>6
    <3> QED BY <1>1, <3>3, <3>5, <3>7 DEF Waits, Same
  <2> QED BY <1>6, <2>1, <2>2
<1>7. CASE u # s
  <2> DEFINE r == sagas[u]
  <2>1. sagas'[u] = r
    BY <1>1, <1>7
  <2>2. ASSUME Replacing(u, r), r.name = r.was
        PROVE  \/ Gently(containers, containers') /\ sagas[s].old = r.new
                    /\ Waits(r, sagas'[s], containers')
               \/ r.new \in DOMAIN containers' /\ containers'[r.new] = containers[r.new]
                    /\ sagas[s].old # r.new
    <3>1. r.new # None /\ sagas[s].new # r.new
      BY <1>5, <1>7, <2>2 DEF Replacing, Sound, FreshInv
    <3>2. CASE sagas[s].old = r.new
      BY <1>1, <1>2, <1>7, <2>2, <3>2, MeetsSuccessor
    <3>3. CASE sagas[s].old # r.new
      <4>1. r.new \in DOMAIN containers
        BY <1>2, <1>3, <2>2 DEF Gave, Successor, New, Sound, TypeOK, Ids, None
      <4> QED BY <3>1, <3>3, <4>1 DEF Meets, Frame
    <3> QED BY <3>2, <3>3
  <2>3. Gave(u, r, containers')
    BY <1>3, <2>2, SuccessorStays DEF Gave
  <2>4. ASSUME Replacing(u, r), r.name = r.was, NEW t \in Actors \ {u}
        PROVE  Waits(r, sagas'[t], containers')
    <3>1. CASE t = s
      <4>1. sagas'[s].old = sagas[s].old
        BY <1>1 DEF Same
      <4> QED BY <2>2, <2>4, <3>1, <4>1 DEF Waits
    <3>2. CASE t # s
      <4>1. r.pc # "idle" /\ sagas[s].pc # "idle"
        BY <1>1, <1>5, <2>4 DEF Replacing, AtRest
      <4>2. sagas[t].pc = "idle"
        BY <1>1, <1>7, <2>4, <3>2, <4>1, NoThird
      <4> QED BY <1>1, <3>2, <4>2 DEF Waits, AtRest
    <3> QED BY <3>1, <3>2
  <2> QED BY <2>1, <2>3, <2>4
<1> QED BY <1>6, <1>7

\* The second replacement may begin on the new container of the first.
LEMMA GiveBegin ==
    ASSUME Sound, TrackInv, FewInv, GiveInv, KeptAtStop, NEW s \in Actors, NEW q \in Saga, Begins(s, q)
    PROVE  GiveInv'
<1> SUFFICES ASSUME begun' <= 2, NEW u \in Actors, sagas'[u].old \in DOMAIN containers'
             PROVE  /\ Gave(u, sagas'[u], containers')
                    /\ Replacing(u, sagas'[u]) /\ sagas'[u].name = sagas'[u].was =>
                          \A t \in Actors \ {u} : Waits(sagas'[u], sagas'[t], containers')
  BY DEF GiveInv
<1>1. /\ containers' = containers /\ sagas'[s] = q
      /\ begun \in Nat /\ begun <= 1 /\ begun <= 2
      /\ q.pc \in {"form", "stop"} /\ q.new = None /\ (q.old # None => Is(q, containers, q.was))
  BY DEF Begins, Sound, TypeOK
<1>2. \A t \in Actors \ {s} :
         /\ sagas'[t].pc = sagas[t].pc /\ sagas'[t].old = sagas[t].old
         /\ sagas'[t].new = sagas[t].new /\ sagas'[t].name = sagas[t].name
         /\ sagas'[t].was = sagas[t].was /\ sagas'[t].nets = sagas[t].nets
         /\ sagas'[t].todo = sagas[t].todo
  BY DEF Begins, Sound, TypeOK, Saga
<1>3. CASE u = s
  BY <1>1, <1>3 DEF Gave, Replacing, Made
<1>4. CASE u # s
  <2> DEFINE r == sagas[u]
  <2>1. Gave(u, r, containers)
    <3>1. sagas[u].old \in DOMAIN containers
      BY <1>1, <1>2, <1>4
    <3> QED BY <1>1, <3>1, Zenon DEF GiveInv
  <2>2. Gave(u, sagas'[u], containers')
    BY <1>1, <1>2, <1>4, <2>1 DEF Gave, Replacing, Successor, New
  <2>3. ASSUME Replacing(u, r), r.name = r.was, NEW t \in Actors \ {u}
        PROVE  Waits(sagas'[u], sagas'[t], containers')
    <3>1. r.pc \in Made /\ r.pc # "idle" /\ r.pc \notin Undoing \cup {"failed"}
      BY <2>3 DEF Replacing, Made, Undoing
    <3>2. r.alone /\ \A v \in Actors \ {u} : sagas[v].pc = "idle"
      BY <1>1, <3>1 DEF FewInv
    <3>3. r.old # None /\ r.new # None
      BY <1>2, <1>4, <3>1 DEF Sound, FreshInv, TypeOK, Made, NewPC, Begins, Ids, None
    <3>4. Is(r, containers, Old(r.was)) /\ New(r, containers)
      BY <2>3, <3>1, <3>2, <3>3 DEF TrackInv, AloneInv, Placed, Where, Replacing
    <3>5. CASE t # s
      BY <1>2, <3>2, <3>5 DEF Waits, AtRest
    <3>6. CASE t = s
      <4> SUFFICES ASSUME q.old = r.new
                   PROVE  q.was = r.was /\ containers[r.old].name = Old(r.was)
        BY <1>1, <1>2, <1>4, <3>6 DEF Waits, Idling
      <4> QED BY <1>1, <3>3, <3>4 DEF Is, New
    <3> QED BY <3>5, <3>6
  <2> QED BY <1>2, <1>4, <2>2, <2>3 DEF Replacing
<1> QED BY <1>3, <1>4

\* A late call takes neither name nor network.
LEMMA GiveLate ==
    ASSUME Sound, GiveInv, KeptAtStop, LateConnect
    PROVE  GiveInv'
<1>1. /\ Gently(containers, containers') /\ DOMAIN containers' = DOMAIN containers
      /\ UNCHANGED <<sagas, begun>>
  BY LateKeeps DEF Kept
<1>2. \A u \in Actors : Gave(u, sagas[u], containers) => Gave(u, sagas[u], containers')
  BY <1>1, SuccessorStays DEF Gave
<1>3. \A u, t \in Actors :
         sagas[u].old \in DOMAIN containers /\ Waits(sagas[u], sagas[t], containers)
         => Waits(sagas[u], sagas[t], containers')
  BY <1>1 DEF Waits, Gently
<1> QED BY <1>1, <1>2, <1>3 DEF GiveInv

\* A replacement that died removes nothing.
LEMMA GiveDies ==
    ASSUME Sound, GiveInv, KeptAtStop, ServerDies
    PROVE  GiveInv'
<1>1. /\ UNCHANGED <<containers, begun>>
      /\ \A s \in Actors : \/ sagas'[s] = sagas[s]
                           \/ sagas'[s].pc = "died" /\ sagas'[s].old = sagas[s].old
  BY DiesKeeps
<1>2. \A s \in Actors : sagas'[s].pc = "died" =>
         /\ ~Replacing(s, sagas'[s]) /\ Gave(s, sagas'[s], containers)
         /\ \A u \in Actors : Waits(sagas'[u], sagas'[s], containers)
  BY DEF Gave, Replacing, Made, Waits, AtRest
<1> QED BY <1>1, <1>2 DEF GiveInv

\* Every step keeps the successors.
LEMMA GiveNext ==
    ASSUME Sound, TrackInv, FewInv, GiveInv, [Next]_vars
    PROVE  GiveInv'
<1>1. CASE UNCHANGED vars
  BY <1>1 DEF vars, GiveInv, KeptAtStop
<1>2. CASE KeptAtStop'
  <2>1. KeptAtStop /\ ~AutoRemoved
    BY <1>2, NextTags, AutoKeeps DEF Tags, KeptAtStop
  <2> QED BY <1>1, <2>1, Kinds, GiveShape, GiveBegin, GiveLate, GiveDies
<1>3. CASE ~KeptAtStop'
  BY <1>3 DEF GiveInv
<1> QED BY <1>2, <1>3

\* A step that removes the old container of s leaves it a successor.
LEMMA GivesWay ==
    ASSUME Sound, TrackInv, FewInv, GiveInv, [Next]_vars, NEW s \in Actors,
           sagas[s].pc = "removeOld", begun <= 2, KeptAtStop,
           sagas[s].name = sagas[s].was,
           sagas[s].old \in DOMAIN containers \ DOMAIN containers'
    PROVE  /\ sagas[s].new \in DOMAIN containers'
           /\ containers'[sagas[s].new].ran
           /\ sagas[s].nets \subseteq containers'[sagas[s].new].nets
           /\ sagas[s].alone => /\ containers'[sagas[s].new].running
                                /\ containers'[sagas[s].new].name = sagas[s].name
<1> DEFINE r == sagas[s]
<1>1. PICK t \in Actors : Shape(t) /\ Meets(t)
  <2>1. ~ \E t \in Actors, q \in Saga : Begins(t, q)
    BY DEF Begins
  <2>2. ~LateConnect /\ ~ServerDies /\ ~AutoRemoved
    BY LateKeeps, DiesKeeps, AutoKeeps DEF Kept, KeptAtStop
  <2>3. ~UNCHANGED vars
    BY DEF vars
  <2> QED BY <2>1, <2>2, <2>3, Kinds
<1>2. /\ Replacing(s, r) /\ r.old # None /\ r.new # None /\ r.old # r.new
  BY DEF Replacing, Made, Sound, TypeOK, FreshInv, NewPC, Ids, None, Saga
<1>3. Successor(s, r, containers) /\ r.todo = {}
  BY <1>2 DEF GiveInv, Gave, Successor
<1>4. /\ r.new \in DOMAIN containers /\ containers[r.new].ran
      /\ r.nets \subseteq containers[r.new].nets
  BY <1>3 DEF Successor, New
<1>5. r.new \in DOMAIN containers' /\ containers'[r.new] = containers[r.new]
  <2>1. CASE t = s
    <3>1. r.new \in DOMAIN containers'
      BY <1>1, <1>2, <1>4, <2>1 DEF Shape, TableShape, Fragile
    <3> QED BY <1>1, <2>1, <3>1 DEF Meets, Gives
  <2>2. CASE t # s
    <3>1. r.new # sagas[t].new
      BY <1>2, <2>2 DEF Sound, FreshInv
    <3>2. r.new # sagas[t].old
      <4> SUFFICES ASSUME sagas[t].old = r.new PROVE FALSE
        OBVIOUS
      <4>1. Gently(containers, containers')
        BY <1>1, <1>2, <2>2, MeetsSuccessor
      <4> QED BY <4>1 DEF Gently
    <3> QED BY <1>1, <1>4, <3>1, <3>2 DEF Meets, Frame
  <2> QED BY <2>1, <2>2
<1>6. ASSUME r.alone PROVE containers[r.new].running /\ containers[r.new].name = r.name
  <2>1. Placed(s, r, containers)
    BY <1>6 DEF TrackInv, AloneInv
  <2> QED BY <1>2, <2>1 DEF Placed, Where, New, Made, Undoing
<1> QED BY <1>4, <1>5, <1>6

\* Of two replacements that meet, at any of their steps: what is removed as the
\* old container has a successor that has run and has all its networks; and one
\* that runs under the name, if nobody else was at work.  This is said as long
\* as no container that the daemon removes at its stop was stopped.
THEOREM OldIsReplaced == Spec => OldGivesWay
<1>1. Sound /\ TrackInv /\ FewInv /\ GiveInv /\ [Next]_vars =>
        [\A s \in Actors :
          (/\ sagas[s].pc = "removeOld"
           /\ begun <= 2 /\ KeptAtStop
           /\ sagas[s].name = sagas[s].was
           /\ sagas[s].old \in DOMAIN containers \ DOMAIN containers') =>
          /\ sagas[s].new \in DOMAIN containers'
          /\ containers'[sagas[s].new].ran
          /\ sagas[s].nets \subseteq containers'[sagas[s].new].nets
          /\ sagas[s].alone => /\ containers'[sagas[s].new].running
                               /\ containers'[sagas[s].new].name = sagas[s].name]_vars
  BY GivesWay
<1> QED BY <1>1, SoundInit, SoundNext, TrackInit, TrackNext, GiveInit, FewNext, GiveNext,
           PTL DEF Spec, OldGivesWay

=============================================================================
