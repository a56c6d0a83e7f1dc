-------------------------- MODULE MCEmbeddingRuns --------------------------
(* EmbeddingRuns with two runs of one world and two clients; a batch spans *)
(* both runs, and two batches claim one document.                          *)
EXTENDS EmbeddingRuns, TLC

CONSTANTS c1, c2, w1, d1, d2

MCClients == {c1, c2}
OneWorld == <<w1, w1>>
MCBatches ==
    {{[doc |-> d1, run |-> 1]}, {[doc |-> d1, run |-> 2]},
     {[doc |-> d1, run |-> 1], [doc |-> d2, run |-> 2]}}
=============================================================================
