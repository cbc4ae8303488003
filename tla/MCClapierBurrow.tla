---------------------------- MODULE MCClapierBurrow ----------------------------
(* Instances of the burrow for TLC. No request is special.                  *)
EXTENDS ClapierBurrow, TLC

Requests == Permutations(Handlers)
================================================================================
