------------------------ MODULE MCServiceOperations ------------------------
(* Values of the constants of ServiceOperations for TLC.                   *)
EXTENDS ServiceOperations, TLC

NoForeign == << >>

\* A stack named like instance 1 was created by hand on environment 2.
ForeignOnTwo == << <<1, 2>> >>

\* The whole group; every environment listed by hand.
GroupTarget == [group |-> TRUE, envs |-> {}]
ListTarget  == [group |-> FALSE, envs |-> Environments]
GroupOnly   == {GroupTarget}
ListOnly    == {ListTarget}

\* Clients are interchangeable.
ClientSymmetry == Permutations(Clients)

\* Environments that stay; are deleted; or leave the group, join it and are deleted.
Fixed   == {}
Leaving == {<<"in", "gone">>, <<"out", "gone">>}
Moving  == {<<"in", "out">>, <<"out", "in">>, <<"in", "gone">>, <<"out", "gone">>}
=============================================================================
