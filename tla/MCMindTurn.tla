----------------------------- MODULE MCMindTurn -----------------------------
(* MindTurn with two workers, in one process or in two; one request id is  *)
(* used in two threads and with two bodies.                                *)
EXTENDS MindTurn, TLC

CONSTANTS v1, v2, p1, p2, t1, t2

MCPlacements == {(v1 :> p1) @@ (v2 :> p1), (v1 :> p1) @@ (v2 :> p2)}

Ask(id, t, body) == [id |-> id, thread |-> t, body |-> body]

MCRequests == {Ask(1, t1, "ask"), Ask(1, t1, "other"), Ask(1, t2, "ask")}
=============================================================================
