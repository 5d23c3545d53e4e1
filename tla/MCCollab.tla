------------------------------- MODULE MCCollab -------------------------------
(***************************************************************************)
(* The pages of a room are interchangeable: they are only compared.        *)
(***************************************************************************)
EXTENDS Collab, TLC

Symmetry == Permutations(Page)

=============================================================================
