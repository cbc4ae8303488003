---------------------------- MODULE MCClapierServe ----------------------------
(* Instances of clapier's life for TLC, on each command line worth a branch. *)
(* Two scenes, each from states that Spec reaches: a clapier that serves any *)
(* tree while its files change, and one that takes the place of another.     *)
(* They are kept apart, for what one is about does not touch the other.      *)
EXTENDS ClapierServe, TLC

VARIABLE scene

Line(root, overlay) == [root |-> root, overlay |-> overlay]
MCLines == {Line("there", "there"), Line("there", "unset"), Line("unset", "there"),
            Line("unset", "unset"), Line("there", "missing"), Line("missing", "there")}

Get(m, slash) == [method |-> "GET", m |-> m, slash |-> slash, path |-> {}]
MCAsks == {Get("6 pairs", FALSE), Get("malformed", TRUE),
           [Get("12 digits", TRUE) EXCEPT !.method = "HEAD", !.path = {"current"}],
           [Get("6 pairs", FALSE) EXCEPT !.method = "POST"],
           [Get("6 pairs", FALSE) EXCEPT !.path = {"parent"}]}

\* One question for the handover, which goes through every layer an overlay has.
MCAsk == Get("6 pairs", FALSE)

Idle ==
    /\ ear = [i \in Instances |-> "off"] /\ tries = [i \in Instances |-> 0]
    /\ port = {} /\ deaf = {}
    /\ haunted = [i \in Instances |-> 0] /\ unlucky = {}
    /\ by = [r \in Requests |-> Nobody]

\* One request, of one process that has been serving for long.
Reader == CHOOSE r \in Requests : TRUE
Server == CHOOSE i \in Instances : TRUE

\* A layer that is not on the command line is looked at by nobody.
Outside == (IF "overlay" \in roots THEN {} ELSE {"own", "common"})
           \cup (IF "base" \in roots THEN {} ELSE {"base"})

Files ==
    /\ scene = "files"
    /\ ContentInit /\ line \in Lines /\ roots = Named(line) /\ roots # {}
    /\ \A l \in Outside : tree[l] = "none"
    /\ life = [i \in Instances |-> IF i = Server THEN "serving" ELSE "off"]
    /\ Idle

Handover ==
    /\ scene = "handover"
    /\ line \in {l \in Lines : l.root # "there"} /\ roots = Named(line)
    /\ tree = [l \in Layers |-> IF l = "own" THEN "none" ELSE "file"] /\ changes = MaxChanges
    /\ ask = [r \in Requests |-> Nothing] /\ at = [r \in Requests |-> "off"]
    /\ answer = [r \in Requests |-> "404"] /\ since = [r \in Requests |-> Unseen]
    /\ life = [i \in Instances |-> "off"]
    /\ Idle

InScene ==
    /\ UNCHANGED scene
    /\ \/ /\ scene = "files" /\ UNCHANGED <<life, hearing>>
          /\ \A r \in Requests \ {Reader} : at'[r] = "off"
          /\ \A l \in Outside : tree'[l] = "none"
       \/ scene = "handover" /\ \A r \in Requests : ask'[r] \in {Nothing, MCAsk}

MCNext == Next /\ InScene

MCSpec == (Files \/ Handover) /\ [][MCNext]_<<vars, scene>> /\ Fairness
================================================================================
