----------------------------- MODULE MCPageTree -----------------------------
(* Model checking of PageTree: symmetric sets of model values.             *)
EXTENDS PageTree, TLC

Symmetry == Permutations(Spaces) \cup Permutations(Pages)

=============================================================================
