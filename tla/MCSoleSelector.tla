-------------------------- MODULE MCSoleSelector --------------------------
(* Model-checking instances of SoleSelector, and of DirectionConsult, which *)
(* takes its place in voluntary mode.                                       *)
EXTENDS SoleSelector, DirectionConsult, TLC

\* resolve_jev_mode: which of the two tools the run offers.
VARIABLE mode

Symmetry == Permutations(Call) \cup Permutations(Check) \cup Permutations(Command)

ModeInit ==
  \/ mode = "sole" /\ Init /\ ConsultInit /\ ~keyed
  \/ mode = "voluntary" /\ Init /\ ~key /\ ConsultInit

ModeNext ==
  /\ UNCHANGED mode
  /\ \/ mode = "sole" /\ Next /\ UNCHANGED consultVars
     \/ mode = "voluntary" /\ ConsultNext /\ UNCHANGED vars

ModeSpec == ModeInit /\ [][ModeNext]_<<mode, vars, consultVars>>
===========================================================================
