----------------------------- MODULE MCPageMoves ----------------------------
(* Model checking of PageMoves: symmetric sets of model values.            *)
EXTENDS PageMoves, TLC

Symmetry == Permutations(Spaces) \cup Permutations(Pages) \cup Permutations(Clients)

=============================================================================
