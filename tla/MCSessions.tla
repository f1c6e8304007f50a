------------------------------ MODULE MCSessions ------------------------------
(***************************************************************************)
(* A small instance of SessionsAlone.                                      *)
(***************************************************************************)
EXTENDS SessionsAlone, TLC

Symmetry == Permutations(Frames)

=============================================================================
