-------------------------- MODULE MCReviewClient --------------------------
(* Model-checking instance of ReviewClient: two runs, of which those in     *)
(* Short end in the configuration of the analyser, and overlapping polls.   *)
EXTENDS ReviewClient, TLC

CONSTANT Short  \* bound: the runs whose analysis stops before run.started

Symmetry == Permutations(Poll)

PacedNext ==
  /\ ClientNext
  /\ \A r \in Short : worker'[r] # "analysing"

PacedSpec == ClientInit /\ [][PacedNext]_allVars
===========================================================================
