--------------------------- MODULE MCDraftDiscard ---------------------------
(* Model checking of DraftDiscard: symmetric sets of model values.         *)
EXTENDS DraftDiscard, TLC

Symmetry == Permutations(Users) \cup Permutations(Pages) \cup Permutations(Reqs)

=============================================================================
