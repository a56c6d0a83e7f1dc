--------------------------- MODULE MCWorldAdoption ---------------------------
(* Two worlds; the first may stand adopted already when a behaviour starts. *)
EXTENDS WorldAdoption, TLC
CONSTANTS c1, c2, w1, w2, a1, a2, o1, o2, n1, n2

Rel(id, from, to, e) == [id |-> id, from |-> from, to |-> to, evidence |-> {e}]

Ledger(id, s) == [id |-> id, source |-> s, corrects |-> {}]

Bundle(id, version) ==
    [id |-> id, version |-> version, sources |-> {a1}, contributions |-> {Ledger("k1", a1)},
     decisions |-> {}, graph |-> Graph({o1, o2}, {o1, o2}, {Rel("r1", o1, o2, a1)})]

B == Bundle("b1", 2)
OtherBundle == Bundle("b1", 1)

Node(id, o) == [id |-> id, kind |-> "node", accepted |-> TRUE, identity |-> "new",
                subject |-> o, object |-> o, evidence |-> {a2}]

Edge(id, o, p) == [id |-> id, kind |-> "edge", accepted |-> TRUE, identity |-> "none",
                   subject |-> o, object |-> p, evidence |-> {a2}]

MCStanding == {[world |-> w1, form |-> f, bundle |-> B] : f \in {"v2", "v3"}}

MCRequests ==
    {[kind |-> "adopt", world |-> w1, bundle |-> B],
     [kind |-> "adopt", world |-> w1, bundle |-> OtherBundle],
     [kind |-> "adopt", world |-> w2, bundle |-> B],
     [kind |-> "init", world |-> w1, id |-> "i1", sources |-> {a2},
      assertions |-> {Node("n1", o1), Edge("e1", o1, o1)}],
     [kind |-> "init", world |-> w1, id |-> "i1", sources |-> {a2},
      assertions |-> {Node("n1", o1), Edge("e1", o1, o2)}],
     [kind |-> "promote", world |-> w1, bundle |-> B],
     [kind |-> "repair", world |-> w1, bundle |-> B, targets |-> {a1}, dryRun |-> FALSE],
     [kind |-> "repair", world |-> w1, bundle |-> B, targets |-> {a1}, dryRun |-> TRUE],
     [kind |-> "check", world |-> w1, bundle |-> B],
     [kind |-> "check", world |-> w1, bundle |-> OtherBundle],
     [kind |-> "withdraw", world |-> w1, id |-> "d1", rel |-> "r1"],
     [kind |-> "reconcile", world |-> w1, id |-> "p1", map |-> (o1 :> n1)],
     [kind |-> "reconcile", world |-> w1, id |-> "p1", map |-> (o2 :> n2)],
     [kind |-> "rollback", world |-> w1],
     [kind |-> "append", world |-> w1, contribution |-> Ledger("k2", a1)],
     [kind |-> "append", world |-> w1, contribution |-> Ledger("k1", a2)],
     [kind |-> "source", world |-> w1, id |-> a2]}

(* Two clients rebind under one operation id while the head is rolled back. *)
RebindRequests == {q \in MCRequests : q.kind \in {"reconcile", "rollback"}}
=============================================================================
