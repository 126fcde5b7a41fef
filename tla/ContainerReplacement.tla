------------------------ MODULE ContainerReplacement ------------------------
(***************************************************************************)
(* Two ways to replace a container by a new one: the browser's, a chain of *)
(* requests of useCreateMutation.tsx, and the server's, Recreate of        *)
(* api/docker/container.go.  Both stop the old container, append "-old" to *)
(* its name, create and start the new one and remove the old one, and both *)
(* undo what they did when a call fails.  Nothing keeps them, or two       *)
(* browser tabs, off the same container.                                   *)
(*                                                                         *)
(* Each call is a step.  The engine may reject it, it may be refused on    *)
(* the way without an effect, and its answer may be lost after the effect; *)
(* the last two are faults, and so is the death of a tab or of the server. *)
(***************************************************************************)
EXTENDS DockerEngine, FiniteSets

CONSTANTS Tabs,         \* browser tabs with the creation form
          Requests,     \* recreation requests that the server handles
          Hasty,        \* whether a name is edited just before submitting
          MaxSagas,     \* replacements begun
          MaxFaults     \* faults

ASSUME BoundsAssumption == MaxSagas \in Nat /\ MaxFaults \in Nat
ASSUME ActorsAssumption == Tabs \cap Requests = {}

VARIABLES containers,   \* the engine
          nextId,       \* identifier of the next container
          sagas,        \* by tab or request, how far it is
          late,         \* calls of a tab whose answers nobody awaits
          autoRemove,   \* containers created with HostConfig.AutoRemove
          doomed,       \* those that a call stopped: the daemon removes them
          begun, faults \* counted for the bounds

vars == <<containers, nextId, sagas, late, autoRemove, doomed, begun, faults>>

None == 0
Ids == 1..(MaxSagas + 1)
Actors == Tabs \cup Requests

TabPC == {"form", "stop", "rename", "create", "start", "dropNew", "renameBack",
          "settings", "connect", "removeOld"}
RequestPC == {"stop", "rename", "disconnect", "create", "connect", "start",
              "removeOld", "settings", "undoStop", "undoRemove", "undoRename",
              "undoConnect", "undoStart"}
\* "half": an error after the new container had been started.
AtRest == {"idle", "succeeded", "failed", "half", "died"}
Undoing == {"dropNew", "renameBack", "undoStop", "undoRemove", "undoRename",
            "undoConnect", "undoStart"}

\* old, was, stop, nets: the old container as it was read, and whether it ran;
\* name: of the new one; todo: networks still to handle.  For the properties:
\* alone (nobody else was at work meanwhile) and clean (no answer was lost and
\* no call failed while undoing).
Saga == [pc: AtRest \cup TabPC \cup RequestPC, old: Ids \cup {None}, was: Name,
         stop: BOOLEAN, nets: SUBSET Networks, name: Name, new: Ids \cup {None},
         todo: SUBSET Networks, alone: BOOLEAN, clean: BOOLEAN]

TypeOK ==
    /\ DOMAIN containers \subseteq Ids
    /\ \A c \in DOMAIN containers : containers[c] \in Container
    /\ nextId \in Nat
    /\ sagas \in [Actors -> Saga]
    /\ late \subseteq Ids \X Networks
    /\ autoRemove \subseteq Ids /\ doomed \subseteq autoRemove
    /\ begun \in 0..MaxSagas
    /\ faults \in 0..MaxFaults

\* One container, set up as its owner wants it.
Init ==
    \E b \in Bases :
        /\ containers = [c \in {1} |->
               [name |-> <<b, 0>>, running |-> TRUE, nets |-> Networks,
                access |-> TRUE, ran |-> TRUE]]
        /\ nextId = 2
        /\ sagas = [s \in Actors |->
               [pc |-> "idle", old |-> None, was |-> <<b, 0>>, stop |-> FALSE,
                nets |-> {}, name |-> <<b, 0>>, new |-> None, todo |-> {},
                alone |-> TRUE, clean |-> TRUE]]
        /\ late = {} /\ begun = 0 /\ faults = 0
        /\ autoRemove \in {{}, {1}} /\ doomed = {}

-----------------------------------------------------------------------------
(* One awaited call.                                                       *)

Goto(s, pc) == [sagas[s] EXCEPT !.pc = pc]

Hurt(s, r, lost) ==
    [r EXCEPT !.clean = @ /\ ~lost /\ sagas[s].pc \notin Undoing]

\* The call of s, accepted or not, leaves the engine as in "after" and s as in
\* "good"; when it fails s goes on as in "bad".
Call(s, accepted, after, good, bad) ==
    /\ \/ /\ IF accepted
             THEN containers' = after /\ sagas' = [sagas EXCEPT ![s] = good]
             ELSE UNCHANGED containers /\ sagas' = [sagas EXCEPT ![s] = bad]
          /\ UNCHANGED faults
       \/ /\ faults < MaxFaults
          /\ faults' = faults + 1
          /\ \/ UNCHANGED containers /\ sagas' = [sagas EXCEPT ![s] = Hurt(s, bad, FALSE)]
             \/ accepted /\ containers' = after
                /\ sagas' = [sagas EXCEPT ![s] = Hurt(s, bad, TRUE)]
    /\ doomed' = doomed \cup (autoRemove \cap Exits(containers, containers'))
    /\ UNCHANGED <<late, begun>>

\* The name is given, the identifier comes from the engine.
CreateCall(s, name, nets, auto, good, bad) ==
    /\ Call(s, ~NameTaken(containers, name),
            Created(containers, nextId, name, nets), good, bad)
    /\ nextId' = nextId + 1
    /\ autoRemove' = autoRemove \cup (IF auto THEN {nextId} \cap DOMAIN containers' ELSE {})

Begin(s, r) ==
    LET others == {t \in Actors \ {s} : sagas[t].pc \notin AtRest} IN
    /\ sagas' = [t \in Actors |->
           IF t = s THEN [r EXCEPT !.alone = others = {} /\ late = {}]
           ELSE [sagas[t] EXCEPT !.alone = FALSE]]
    /\ UNCHANGED <<containers, nextId, late, autoRemove, doomed, faults>>

-----------------------------------------------------------------------------
(* A browser tab.                                                          *)

\* The form is filled from a container, and the container with the name in
\* the form is looked up.
OpenForm(t, from, name) ==
    LET named == {c \in DOMAIN containers : containers[c].name = name} IN
    /\ sagas[t].pc \in AtRest
    /\ begun < MaxSagas
    /\ from \in DOMAIN containers
    /\ \E old \in IF named = {} THEN {None} ELSE named :
           Begin(t, [pc |-> "form", old |-> old, was |-> name,
                     stop |-> old # None /\ containers[old].running,
                     nets |-> containers[from].nets, name |-> name,
                     new |-> None, todo |-> {}, alone |-> TRUE, clean |-> TRUE])
    /\ begun' = begun + 1

\* The lookup follows the name in the form with a delay of a second.
Submit(t, name) ==
    LET r == sagas[t] IN
    /\ r.pc = "form"
    /\ Hasty \/ name = r.name
    /\ sagas' = [sagas EXCEPT ![t].name = name,
                              ![t].pc = CASE r.old = None -> "create"
                                          [] r.old # None /\ r.stop -> "stop"
                                          [] OTHER -> "rename"]
    /\ UNCHANGED <<containers, nextId, late, autoRemove, doomed, begun, faults>>

\* A container that does not run any more answers with 304, an error here.
StopOld(t) ==
    LET old == sagas[t].old IN
    /\ sagas[t].pc = "stop"
    /\ Call(t, old \in DOMAIN containers /\ containers[old].running,
            Stopped(containers, old), Goto(t, "rename"), Goto(t, "failed"))
    /\ UNCHANGED <<nextId, autoRemove>>

RenameOld(t) ==
    LET r == sagas[t] IN
    /\ r.pc = "rename"
    /\ Call(t, MayRename(containers, r.old, Old(r.was)),
            Renamed(containers, r.old, Old(r.was)),
            Goto(t, "create"), Goto(t, "failed"))
    /\ UNCHANGED <<nextId, autoRemove>>

\* Where a failure of createAndStart is caught.
Caught(t) == Goto(t, IF sagas[t].old = None THEN "failed" ELSE "renameBack")

\* The container is created on one of the networks in the form, which also says
\* whether it is removed when it stops.
CreateNew(t) ==
    LET r == sagas[t] IN
    /\ r.pc = "create"
    /\ \E auto \in BOOLEAN,
          first \in {N \in SUBSET r.nets : Cardinality(N) = 1} \cup
                    (IF r.nets = {} THEN {{}} ELSE {}) :
           CreateCall(t, r.name, first, auto,
                      [r EXCEPT !.pc = "start", !.new = nextId,
                                !.todo = IF r.old = None THEN {} ELSE r.nets \ first],
                      Caught(t))

StartNew(t) ==
    LET new == sagas[t].new IN
    /\ sagas[t].pc = "start"
    /\ Call(t, new \in DOMAIN containers /\ ~containers[new].running,
            Started(containers, new), Goto(t, "settings"), Goto(t, "dropNew"))
    /\ UNCHANGED <<nextId, autoRemove>>

\* Removal is forced; its own failure is caught in the same place.
DropNew(t) ==
    LET new == sagas[t].new IN
    /\ sagas[t].pc = "dropNew"
    /\ Call(t, new \in DOMAIN containers, Removed(containers, new),
            Caught(t), Caught(t))
    /\ UNCHANGED <<nextId, autoRemove>>

RenameBack(t) ==
    LET r == sagas[t] IN
    /\ r.pc = "renameBack"
    /\ Call(t, MayRename(containers, r.old, r.name),
            Renamed(containers, r.old, r.name), Goto(t, "failed"), Goto(t, "failed"))
    /\ UNCHANGED <<nextId, autoRemove>>

\* Webhook and resource control; extra networks only for a replacement.
ApplySettings(t) ==
    LET r == sagas[t]
        next == CASE r.old = None -> "succeeded"
                  [] r.old # None /\ r.todo = {} -> "removeOld"
                  [] OTHER -> "connect"
    IN
    /\ r.pc = "settings"
    /\ Call(t, TRUE,
            IF r.new \in DOMAIN containers
            THEN [containers EXCEPT ![r.new].access = TRUE] ELSE containers,
            Goto(t, next), Goto(t, "half"))
    /\ UNCHANGED <<nextId, autoRemove>>

\* All calls are under way at once; the first that fails ends the wait for all.
ConnectOne(t, net) ==
    LET r == sagas[t]
        rest == r.todo \ {net}
        accepted == MayConnect(containers, r.new, net)
    IN
    /\ r.pc = "connect" /\ net \in r.todo
    /\ \/ /\ accepted
          /\ containers' = Connected(containers, r.new, net)
          /\ sagas' = [sagas EXCEPT ![t].todo = rest,
                  ![t].pc = IF rest = {} THEN "removeOld" ELSE "connect"]
          /\ UNCHANGED <<late, faults>>
       \/ /\ \/ ~accepted /\ UNCHANGED <<containers, faults>>
             \/ /\ faults < MaxFaults /\ faults' = faults + 1
                /\ \/ UNCHANGED containers
                   \/ accepted /\ containers' = Connected(containers, r.new, net)
          /\ sagas' = [sagas EXCEPT ![t].todo = {}, ![t].pc = "half"]
          /\ late' = late \cup ({r.new} \X rest)
    /\ UNCHANGED <<nextId, autoRemove, doomed, begun>>

\* A call that nobody awaits takes effect or does not.
LateConnect ==
    \E call \in late :
        /\ late' = late \ {call}
        /\ \/ UNCHANGED containers
           \/ /\ MayConnect(containers, call[1], call[2])
              /\ containers' = Connected(containers, call[1], call[2])
        /\ UNCHANGED <<nextId, sagas, autoRemove, doomed, begun, faults>>

RemoveOld(t) ==
    LET old == sagas[t].old IN
    /\ sagas[t].pc = "removeOld"
    /\ Call(t, old \in DOMAIN containers, Removed(containers, old),
            Goto(t, "succeeded"), Goto(t, "half"))
    /\ UNCHANGED <<nextId, autoRemove>>

\* The tab is closed; requests on the way may still arrive.
CloseTab(t) ==
    LET r == sagas[t] IN
    /\ r.pc \in TabPC
    /\ faults < MaxFaults /\ faults' = faults + 1
    /\ sagas' = [sagas EXCEPT ![t].pc = "died", ![t].todo = {}]
    /\ late' = late \cup IF r.pc = "connect" THEN {r.new} \X r.todo ELSE {}
    /\ UNCHANGED <<containers, nextId, autoRemove, doomed, begun>>

-----------------------------------------------------------------------------
(* A request that the server handles.  Its client takes 304 for success.   *)

Inspect(q, c) ==
    /\ sagas[q].pc \in AtRest
    /\ begun < MaxSagas
    /\ c \in DOMAIN containers
    /\ Begin(q, [pc |-> "stop", old |-> c, was |-> containers[c].name,
                 stop |-> containers[c].running, nets |-> containers[c].nets,
                 name |-> containers[c].name, new |-> None,
                 todo |-> containers[c].nets, alone |-> TRUE, clean |-> TRUE])
    /\ begun' = begun + 1

StopCurrent(q) ==
    LET old == sagas[q].old IN
    /\ sagas[q].pc = "stop"
    /\ Call(q, old \in DOMAIN containers, Stopped(containers, old),
            Goto(q, "rename"), Goto(q, "failed"))
    /\ UNCHANGED <<nextId, autoRemove>>

\* Mutant: the new container is left in place.
Restore_KeepsNew(q) == Goto(q, "undoRename")

\* The deferred functions that run when a step fails, the last one first.
Restore(q) == Goto(q, IF sagas[q].new = None THEN "undoRename" ELSE "undoStop")

RenameCurrent(q) ==
    LET r == sagas[q] IN
    /\ r.pc = "rename"
    /\ Call(q, MayRename(containers, r.old, Old(r.was)),
            Renamed(containers, r.old, Old(r.was)),
            Goto(q, IF r.todo = {} THEN "create" ELSE "disconnect"), Restore(q))
    /\ UNCHANGED <<nextId, autoRemove>>

DisconnectOne(q, net) ==
    LET r == sagas[q]
        rest == r.todo \ {net}
    IN
    /\ r.pc = "disconnect" /\ net \in r.todo
    /\ Call(q, MayDisconnect(containers, r.old, net),
            Disconnected(containers, r.old, net),
            [r EXCEPT !.todo = rest,
                      !.pc = IF rest = {} THEN "create" ELSE "disconnect"],
            Restore(q))
    /\ UNCHANGED <<nextId, autoRemove>>

\* Mutant: the new container stays on one network.
CreateAgain_OneNetwork(q) ==
    LET r == sagas[q] IN
    /\ r.pc = "create"
    /\ \E first \in {N \in SUBSET r.nets : Cardinality(N) = 1} \cup
                    (IF r.nets = {} THEN {{}} ELSE {}) :
           CreateCall(q, r.name, first, r.old \in autoRemove,
                      [r EXCEPT !.pc = "start",
                                !.new = nextId, !.todo = r.nets \ first],
                      Restore(q))

\* The configuration is that of the old container.
CreateAgain(q) ==
    LET r == sagas[q] IN
    /\ r.pc = "create"
    /\ \E first \in {N \in SUBSET r.nets : Cardinality(N) = 1} \cup
                    (IF r.nets = {} THEN {{}} ELSE {}) :
           CreateCall(q, r.name, first, r.old \in autoRemove,
                      [r EXCEPT !.pc = IF r.nets \subseteq first THEN "start" ELSE "connect",
                                !.new = nextId, !.todo = r.nets \ first],
                      Restore(q))

ConnectNext(q, net) ==
    LET r == sagas[q]
        rest == r.todo \ {net}
    IN
    /\ r.pc = "connect" /\ net \in r.todo
    /\ Call(q, MayConnect(containers, r.new, net), Connected(containers, r.new, net),
            [r EXCEPT !.todo = rest, !.pc = IF rest = {} THEN "start" ELSE "connect"],
            Restore(q))
    /\ UNCHANGED <<nextId, autoRemove>>

\* Mutant: a failure to start the new container goes unnoticed.
StartAgain_IgnoresError(q) ==
    LET new == sagas[q].new IN
    /\ sagas[q].pc = "start"
    /\ Call(q, new \in DOMAIN containers, Started(containers, new),
            Goto(q, "removeOld"), Goto(q, "removeOld"))
    /\ UNCHANGED <<nextId, autoRemove>>

StartAgain(q) ==
    LET new == sagas[q].new IN
    /\ sagas[q].pc = "start"
    /\ Call(q, new \in DOMAIN containers, Started(containers, new),
            Goto(q, "removeOld"), Restore(q))
    /\ UNCHANGED <<nextId, autoRemove>>

\* Not forced, and its failure is ignored.
RemoveCurrent(q) ==
    LET old == sagas[q].old IN
    /\ sagas[q].pc = "removeOld"
    /\ Call(q, old \in DOMAIN containers /\ ~containers[old].running,
            Removed(containers, old), Goto(q, "settings"), Goto(q, "settings"))
    /\ UNCHANGED <<nextId, autoRemove>>

\* The new container is read and inherits webhook and resource control.
Inherit(q) ==
    LET new == sagas[q].new IN
    /\ sagas[q].pc = "settings"
    /\ Call(q, new \in DOMAIN containers, [containers EXCEPT ![new].access = TRUE],
            Goto(q, "succeeded"), Goto(q, "half"))
    /\ UNCHANGED <<nextId, autoRemove>>

UndoStop(q) ==
    LET new == sagas[q].new
        next == Goto(q, "undoRemove")
    IN
    /\ sagas[q].pc = "undoStop"
    /\ Call(q, new \in DOMAIN containers, Stopped(containers, new), next, next)
    /\ UNCHANGED <<nextId, autoRemove>>

UndoRemove(q) ==
    LET new == sagas[q].new
        next == Goto(q, "undoRename")
    IN
    /\ sagas[q].pc = "undoRemove"
    /\ Call(q, new \in DOMAIN containers /\ ~containers[new].running,
            Removed(containers, new), next, next)
    /\ UNCHANGED <<nextId, autoRemove>>

UndoRename(q) ==
    LET r == sagas[q]
        next == [r EXCEPT !.pc = IF r.nets = {} THEN "undoStart" ELSE "undoConnect",
                          !.todo = r.nets]
    IN
    /\ r.pc = "undoRename"
    /\ Call(q, MayRename(containers, r.old, r.was),
            Renamed(containers, r.old, r.was), next, next)
    /\ UNCHANGED <<nextId, autoRemove>>

UndoConnect(q, net) ==
    LET r == sagas[q]
        rest == r.todo \ {net}
        next == [r EXCEPT !.todo = rest,
                          !.pc = IF rest = {} THEN "undoStart" ELSE "undoConnect"]
    IN
    /\ r.pc = "undoConnect" /\ net \in r.todo
    /\ Call(q, MayConnect(containers, r.old, net), Connected(containers, r.old, net),
            next, next)
    /\ UNCHANGED <<nextId, autoRemove>>

\* Mutant: the old container is not started again.
UndoStart_Skipped(q) ==
    LET old == sagas[q].old IN
    /\ sagas[q].pc = "undoStart"
    /\ Call(q, old \in DOMAIN containers, containers,
            Goto(q, "failed"), Goto(q, "failed"))
    /\ UNCHANGED <<nextId, autoRemove>>

UndoStart(q) ==
    LET old == sagas[q].old IN
    /\ sagas[q].pc = "undoStart"
    /\ Call(q, old \in DOMAIN containers, Started(containers, old),
            Goto(q, "failed"), Goto(q, "failed"))
    /\ UNCHANGED <<nextId, autoRemove>>

\* The daemon removes a container it was told to remove at its end.
AutoRemoved ==
    /\ \E c \in doomed \cap DOMAIN containers : containers' = Removed(containers, c)
    /\ UNCHANGED <<nextId, sagas, late, autoRemove, doomed, begun, faults>>

\* Nothing recovers a recreation that the server did not finish.
ServerDies ==
    /\ faults < MaxFaults /\ faults' = faults + 1
    /\ \E q \in Requests : sagas[q].pc \in RequestPC
    /\ sagas' = [s \in Actors |->
           IF s \in Requests /\ sagas[s].pc \in RequestPC
           THEN [sagas[s] EXCEPT !.pc = "died"] ELSE sagas[s]]
    /\ UNCHANGED <<containers, nextId, late, autoRemove, doomed, begun>>

-----------------------------------------------------------------------------

TabStep(t) ==
    \/ \E from \in Ids, b \in Bases, k \in 0..1 : OpenForm(t, from, <<b, k>>)
    \/ \E name \in {<<b, 0>> : b \in Bases} \cup {sagas[t].name} : Submit(t, name)
    \/ StopOld(t) \/ RenameOld(t) \/ CreateNew(t) \/ StartNew(t)
    \/ DropNew(t) \/ RenameBack(t) \/ ApplySettings(t)
    \/ \E net \in Networks : ConnectOne(t, net)
    \/ RemoveOld(t) \/ CloseTab(t)

RequestStep(q) ==
    \/ \E c \in Ids : Inspect(q, c)
    \/ StopCurrent(q) \/ RenameCurrent(q)
    \/ \E net \in Networks : DisconnectOne(q, net)
    \/ CreateAgain(q)
    \/ \E net \in Networks : ConnectNext(q, net)
    \/ StartAgain(q) \/ RemoveCurrent(q) \/ Inherit(q)
    \/ UndoStop(q) \/ UndoRemove(q) \/ UndoRename(q)
    \/ \E net \in Networks : UndoConnect(q, net)
    \/ UndoStart(q)

Next == (\E t \in Tabs : TabStep(t)) \/ (\E q \in Requests : RequestStep(q))
        \/ LateConnect \/ AutoRemoved \/ ServerDies

Spec == Init /\ [][Next]_vars

-----------------------------------------------------------------------------

\* Neither replacement asks whether the old container is one that the daemon
\* removes at its stop (HostConfig.AutoRemove): then it is gone with the first
\* call, the next ones fail and there is nothing to put back.  What follows is
\* promised as long as no such container was stopped.
KeptAtStop == doomed = {}

\* Whatever fails and whoever else is at work, a container that has run is
\* left: the old one goes only after its successor has been started.
ServiceSurvives == KeptAtStop => \E c \in DOMAIN containers : containers[c].ran

\* Of two replacements that meet: what is removed as the old container has a
\* successor that has run and has the networks of the old one.  The other may
\* be at work on the successor, but cannot rename it as long as the old
\* container has the name with "-old".  If nobody else was at work, the
\* successor runs and has the name.
OldGivesWay ==
    [][\A s \in Actors :
          (/\ sagas[s].pc = "removeOld"
           /\ begun <= 2 /\ KeptAtStop
           /\ sagas[s].name = sagas[s].was
           /\ sagas[s].old \in DOMAIN containers \ DOMAIN containers') =>
          /\ sagas[s].new \in DOMAIN containers'
          /\ containers'[sagas[s].new].ran
          /\ sagas[s].nets \subseteq containers'[sagas[s].new].nets
          /\ sagas[s].alone => /\ containers'[sagas[s].new].running
                               /\ containers'[sagas[s].new].name = sagas[s].name]_vars

Restored(s) ==
    LET r == sagas[s] IN
    /\ r.old \in DOMAIN containers
    /\ containers[r.old].name = r.was
    /\ s \in Requests => /\ r.stop => containers[r.old].running
                         /\ r.nets \subseteq containers[r.old].nets
    /\ r.new = None \/ r.new \notin DOMAIN containers

\* A replacement that failed at any of its calls, alone and without a lost
\* answer or a failure of the undoing, has put the old container back.
RollbackRestores ==
    KeptAtStop => \A s \in Actors :
        (/\ sagas[s].pc = "failed" /\ sagas[s].alone /\ sagas[s].clean
         /\ sagas[s].old # None /\ sagas[s].name = sagas[s].was)
        => Restored(s)

\* When recreations by the server alone have ended, without a fault, something
\* runs: what the engine rejected because of the others is no excuse.
SomeoneServes ==
    (/\ faults = 0 /\ KeptAtStop
     /\ \A t \in Tabs : sagas[t].pc = "idle"
     /\ \A q \in Requests : sagas[q].pc \in AtRest)
    => \E c \in DOMAIN containers : containers[c].running

=============================================================================
