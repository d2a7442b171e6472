--------------------------- MODULE MCBrowseSync ---------------------------
(* Model-checking instances of BrowseSync.                                 *)
EXTENDS BrowseSync, TLC

CONSTANTS s1, s2, d1, d2

OneLogDir == s1 :> d1
TwoLogDirs == s1 :> d1 @@ s2 :> d2

Symmetry == Permutations(Process) \cup Permutations(FlightLog)
===========================================================================
