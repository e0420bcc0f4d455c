-------------------------- MODULE MCWorkspaceSave --------------------------
(* Instances of WorkspaceSave for TLC. *)
EXTENDS WorkspaceSave, TLC

Symmetry == Permutations(Tab) \cup Permutations(Mark)

=============================================================================
