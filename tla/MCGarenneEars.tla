---------------------------- MODULE MCGarenneEars ----------------------------
(* An instance of an ear for TLC: the code's times, a gap of its tests.     *)
EXTENDS GarenneEars

\* The wide gap takes less than the stall, and a narrow one enough periods, as the
\* theorems assume.
ASSUME MCGapsInTime == GapsInTime
ASSUME MCGapsTell == GapsTell
==============================================================================
