------------------------------- MODULE MCMeasurementDb -------------------------------
(* MeasurementDb on small sets, for TLC. *)
EXTENDS MeasurementDb, TLC

CONSTANTS m1, m2, m3

ThreeMeas == {m1, m2, m3}

\* Measurements are interchangeable.
Symmetric == Permutations(ThreeMeas)
===================================================================================
