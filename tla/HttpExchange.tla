---------------------------- MODULE HttpExchange ----------------------------
(***************************************************************************)
(* What the rabbit's HTTP server promises a peer, without TCP: at most one *)
(* response, of which the peer reads a prefix, unit by unit and in order,  *)
(* and whose end it sees only once it has read all of it.  An end without  *)
(* a response is possible; a response after the end is not.                *)
(***************************************************************************)
EXTENDS Naturals, Sequences

CONSTANTS Peers, Texts

VARIABLES said, got, eof
vars == <<said, got, eof>>

Init == /\ said = [p \in Peers |-> <<>>]
        /\ got = [p \in Peers |-> <<>>]
        /\ eof = [p \in Peers |-> FALSE]

Answer(p) == /\ said[p] = <<>> /\ ~eof[p]
             /\ \E text \in Texts : said' = [said EXCEPT ![p] = text]
             /\ UNCHANGED <<got, eof>>

Read(p) == /\ ~eof[p] /\ Len(got[p]) < Len(said[p])
           /\ got' = [got EXCEPT ![p] = Append(@, said[p][Len(@) + 1])]
           /\ UNCHANGED <<said, eof>>

End(p) == /\ ~eof[p] /\ got[p] = said[p]
          /\ eof' = [eof EXCEPT ![p] = TRUE]
          /\ UNCHANGED <<said, got>>

Next == \E p \in Peers : Answer(p) \/ Read(p) \/ End(p)

Spec == Init /\ [][Next]_vars
=============================================================================
