---------------------------- MODULE DockerEngine ----------------------------
(***************************************************************************)
(* What the callers in src/ rely on of a Docker engine: a table of         *)
(* containers with unique names.  Each call has a condition under which    *)
(* the engine accepts it and the table that it leaves.  External code.     *)
(***************************************************************************)
EXTENDS Naturals

CONSTANTS Bases,      \* names that users give to containers
          Networks    \* user-defined networks

\* A name and the number of "-old" appended to it.
Name == Bases \X Nat

\* Mutant: the suffix is cut off instead of appended.
Old_Strips(n) == <<n[1], n[2] - 1>>

Old(n) == <<n[1], n[2] + 1>>

\* "access": the resource control asked for has been applied.  "ran" is kept
\* for the properties: the container has been started at least once.
Container == [name: Name, running: BOOLEAN, nets: SUBSET Networks,
              access: BOOLEAN, ran: BOOLEAN]

NameTaken(cs, n) == \E c \in DOMAIN cs : cs[c].name = n

\* A container is created unstarted, on one network at most.
Created(cs, c, n, nets) ==
    [d \in DOMAIN cs \cup {c} |->
        IF d = c THEN [name |-> n, running |-> FALSE, nets |-> nets,
                       access |-> FALSE, ran |-> FALSE]
        ELSE cs[d]]

Removed(cs, c) == [d \in DOMAIN cs \ {c} |-> cs[d]]

\* The containers that a call stopped.  The daemon removes those that were
\* created with HostConfig.AutoRemove, sooner or later after their stop.
Exits(cs, ds) ==
    {c \in DOMAIN cs \cap DOMAIN ds : cs[c].running /\ ~ds[c].running}

\* Renaming a container to the name it has is refused too.
MayRename(cs, c, n) == c \in DOMAIN cs /\ ~NameTaken(cs, n)

MayConnect(cs, c, net)    == c \in DOMAIN cs /\ net \notin cs[c].nets
MayDisconnect(cs, c, net) == c \in DOMAIN cs /\ net \in cs[c].nets

Renamed(cs, c, n)        == [cs EXCEPT ![c].name = n]
Started(cs, c)           == [cs EXCEPT ![c].running = TRUE, ![c].ran = TRUE]
Stopped(cs, c)           == [cs EXCEPT ![c].running = FALSE]
Connected(cs, c, net)    == [cs EXCEPT ![c].nets = @ \cup {net}]
Disconnected(cs, c, net) == [cs EXCEPT ![c].nets = @ \ {net}]
=============================================================================
