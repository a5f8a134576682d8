--------------------------- MODULE MCQueryContext ---------------------------
(***************************************************************************)
(* Instances of QueryContext: two statements of known templates, one of    *)
(* neither a known template nor skipped.                                   *)
(***************************************************************************)
EXTENDS QueryContext, TLC

TemplateSymmetry == Permutations(Templates)

LearnRow   == {[learn |-> TRUE, use |-> TRUE, auto |-> TRUE, nf |-> 1]}
TunedRows  == {[learn |-> TRUE, use |-> TRUE, auto |-> TRUE, nf |-> 1],
               [learn |-> FALSE, use |-> FALSE, auto |-> FALSE, nf |-> 1]}
=============================================================================
