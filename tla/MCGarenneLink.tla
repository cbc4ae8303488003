---------------------------- MODULE MCGarenneLink ----------------------------
(* Instances of the link watchdog for TLC. The unit is ten seconds in the   *)
(* configuration of the ladder.                                             *)
EXTENDS GarenneLink
==============================================================================
