--------------------------- MODULE MC_HHProcessor ---------------------------
(* Model values for the processors' remote nodes. *)
EXTENDS HHProcessor, TLC

CONSTANTS n1, n2, n3

OneNode == {n1}
ThreeNodes == {n1, n2, n3}
NodeSymmetry == Permutations(ThreeNodes)

\* Point slices of one WriteShard call: points are their texts p.String().
OnePoint == {<<<<99>>>>}
TwoPoints == {<<<<99, 112>>, <<99>>>>}
=============================================================================
