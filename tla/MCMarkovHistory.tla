--------------------------- MODULE MCMarkovHistory ---------------------------
(***************************************************************************)
(* Instances of MarkovHistory.  The templates are interchangeable; only    *)
(* safety is checked under the symmetry.                                   *)
(***************************************************************************)
EXTENDS MarkovHistory, TLC

PatternSymmetry == Permutations(Patterns)
=============================================================================
