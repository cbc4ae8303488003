--------------------------- MODULE MCGarenneServer --------------------------
(***************************************************************************)
(* GarenneServer on small instances.                                       *)
(***************************************************************************)
EXTENDS GarenneServer, TLC

CONSTANTS MCIssBase, MCIssStride

MCRequests == {<<"status", "blank">>, <<"blank", "header">>}
\* One that is too long before its blank line comes.
MCMoreRequests == MCRequests \cup {<<"other", "header", "blank">>}
MCRespLen == (200 :> 2) @@ (404 :> 1) @@ (400 :> 1)
MCIss(p, n) == (MCIssBase + n * MCIssStride) % SeqMod

\* The instances keep two connections of a peer apart, as the theorems assume.
ASSUME MCStreamsApart == StreamsApart
=============================================================================
