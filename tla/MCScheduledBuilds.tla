-------------------------- MODULE MCScheduledBuilds --------------------------
(***************************************************************************)
(* Values of the constants of ScheduledBuilds for TLC.                     *)
(***************************************************************************)
EXTENDS ScheduledBuilds, TLC

\* The whole group; every environment listed by hand; one of them.
GroupTarget == [group |-> TRUE, envs |-> {}]
ListTarget  == [group |-> FALSE, envs |-> Environments]
OneTarget   == [group |-> FALSE, envs |-> {1}]
GroupOnly   == {GroupTarget}
ListOnly    == {ListTarget}
ListOrOne   == {ListTarget, OneTarget}

\* Environments that stay, or join the group, or leave it.
Fixed   == {}
Moving  == {<<"in", "out">>, <<"out", "in">>}

ClientSymmetry == Permutations(Clients)
=============================================================================
