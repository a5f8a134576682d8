---------------------------- MODULE MCBestCosts ----------------------------
(***************************************************************************)
(* Instance of BestCosts with MaxLearned = 4: features 0 to 3 times        *)
(* 10^4 with the threshold at 10^4, so that rows tie and lie on either     *)
(* side of the threshold and on it.                                        *)
(***************************************************************************)
EXTENDS BestCosts

MCFeatures == {0, 10000, 20000, 30000}
=============================================================================
