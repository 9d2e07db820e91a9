---------------------------- MODULE MCGuardians ----------------------------
(***************************************************************************)
(* Guardians for TLC.                                                      *)
(***************************************************************************)
EXTENDS Guardians, TLC

Symmetry == Permutations(Guardian) \cup Permutations(Message)

=============================================================================
