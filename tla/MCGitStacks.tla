----------------------------- MODULE MCGitStacks ----------------------------
(* Values of the constants of GitStacks for TLC.                           *)
EXTENDS GitStacks, TLC

\* Polls are interchangeable, where no liveness property is checked.
PollSymmetry == Permutations(Polls)
=============================================================================
