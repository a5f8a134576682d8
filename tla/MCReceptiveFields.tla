------------------------- MODULE MCReceptiveFields -------------------------
(***************************************************************************)
(* Instances of ReceptiveFields: points on a short line and a kernel whose *)
(* levels lie between all thresholds of the code.                          *)
(***************************************************************************)
EXTENDS ReceptiveFields

\* By scaled distance: at the centre, overlapping, covering, copied from,
\* updated, in sight (3 levels), out of sight.
Levels == <<1000000, 950000, 500000, 50000, 5000, 900, 500, 100, 0>>

MCKernel(d) == IF d < Len(Levels) THEN Levels[d + 1] ELSE 0
=============================================================================
