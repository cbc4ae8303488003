---------------------------- MODULE MCClapierPilot ----------------------------
(* Instances of the pilot page for TLC: a button that asks what it may, one  *)
(* with two spaces, one below the floor, one the gate does not know.         *)
EXTENDS ClapierPilot

Press(verb, level, spaced) == [verb |-> verb, level |-> level, spaced |-> spaced]
MCPresses == {Press("chor", 0, FALSE), Press("color", 0, TRUE), Press("vol", 40, FALSE),
              Press("vol", 39, FALSE), Press("other", 0, FALSE)}
================================================================================
