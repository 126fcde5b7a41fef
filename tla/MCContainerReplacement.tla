----------------------- MODULE MCContainerReplacement -----------------------
(* Values of the constants of ContainerReplacement for TLC.                *)
EXTENDS ContainerReplacement, TLC

\* Tabs are interchangeable, and so are requests, names and networks.
Symmetry ==
    {t @@ q @@ b @@ n : t \in Permutations(Tabs), q \in Permutations(Requests),
                        b \in Permutations(Bases), n \in Permutations(Networks)}
=============================================================================
