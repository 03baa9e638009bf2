--------------------------- MODULE MCDraftPublish ---------------------------
(* Model checking of DraftPublish: symmetric sets of model values.         *)
EXTENDS DraftPublish, TLC

Symmetry == Permutations(Users) \cup Permutations(Pages) \cup Permutations(Reqs)

=============================================================================
