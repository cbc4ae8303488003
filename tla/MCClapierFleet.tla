---------------------------- MODULE MCClapierFleet ----------------------------
(* Instances of the fleet register for TLC. No address is special.          *)
EXTENDS ClapierFleet

Addresses == Permutations(Ips)
================================================================================
