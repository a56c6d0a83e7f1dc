---------------------------- MODULE MCWorldGraph ----------------------------
(* WorldGraph with two clients and two worlds that share a profile: one    *)
(* world moves its head often enough to republish after a rollback, the    *)
(* other once.                                                             *)
EXTENDS WorldGraph, TLC

CONSTANTS c1, c2, w1, w2

MCClients == {c1, c2}
MCWorlds == {w1, w2}
MCHeadEvents == (w1 :> 4) @@ (w2 :> 1)
MCSymmetry == Permutations(MCClients)
=============================================================================
