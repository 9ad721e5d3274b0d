----------------------------- MODULE MCVampires -----------------------------
(***************************************************************************)
(* Instance of VampiresRefinement for TLC.                                 *)
(***************************************************************************)
EXTENDS VampiresRefinement, TLC

(* Walls are told apart only by their identity. *)
WallSymmetry == Permutations(Walls)

=============================================================================
