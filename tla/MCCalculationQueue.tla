------------------------- MODULE MCCalculationQueue -------------------------
(***************************************************************************)
(* Instances of CalculationQueue for TLC.                                  *)
(***************************************************************************)
EXTENDS CalculationQueue

CONSTANTS c1, c2

\* c1 converges, any other calculation does not.
MCVerdict == [c \in Calcs |-> IF c = c1 THEN "SIM_CONVERGED" ELSE "SIM_NOT_CONVERGED"]
=============================================================================
