----------------------------- MODULE GraphEdits -----------------------------
(***************************************************************************)
(* The graph payloads a world begins with and the edits that derive a      *)
(* child payload from its parent outside review: the closure of an         *)
(* existing world's bundle (application/existing_world_adoption.py), the   *)
(* first graph of a reviewed world (reviewed_world_initialization.py), the *)
(* one-to-one rebind of object identities                                  *)
(* (world_identity_reconciliation.py) and the withdrawal of one adopted    *)
(* relationship (adopted_assertion_withdrawal.py).                         *)
(*                                                                         *)
(* Simplifications:                                                        *)
(*  - A source artifact comes with one revision, and an evidence reference *)
(*    is the source it cites.                                              *)
(*  - Labels, aliases, visibility, time and sessions are copied, never     *)
(*    decided on, and are left out.                                        *)
(***************************************************************************)
EXTENDS Naturals, Sequences, FiniteSets, FiniteSetsExt, Functions

(* A payload: its objects, the canonical ones among them, its              *)
(* relationships, and the sources its evidence cites.                      *)
Graph(objects, canonical, rels) == [objects |-> objects, canonical |-> canonical, rels |-> rels]

IsPayload(g) ==
    /\ g = Graph(g.objects, g.canonical, g.rels)
    /\ IsFiniteSet(g.rels)
    /\ \A r \in g.rels : r = [id |-> r.id, from |-> r.from, to |-> r.to, evidence |-> r.evidence]

Evidence(g) == UNION {r.evidence : r \in g.rels}

Relationships(g, id) == {r \in g.rels : r.id = id}

(* Every relationship ends in objects of the payload, and ids are unique.  *)
WellFormed(g) ==
    /\ g.canonical \subseteq g.objects
    /\ \A r \in g.rels : {r.from, r.to} \subseteq g.objects
    /\ \A r \in g.rels, s \in g.rels : r.id = s.id => r = s

-----------------------------------------------------------------------------
(* The bundle of an existing world is closed: what its contributions and   *)
(* its graph cite is among the sources it brings, and each correction is   *)
(* of a contribution of the bundle.                                        *)
BundleClosed(b) ==
    /\ WellFormed(b.graph)
    /\ Evidence(b.graph) \subseteq b.sources
    /\ \A k \in b.contributions :
          /\ k.source \in b.sources
          /\ k.corrects # {} => \E t \in b.contributions : k.corrects = {t.id}
    /\ \A k \in b.contributions, l \in b.contributions : k.id = l.id => k = l

-----------------------------------------------------------------------------
(* The first graph of a reviewed world.                                    *)

Accepted(assertions, kind) == {a \in assertions : a.accepted /\ a.kind = kind}

Created(assertions) == {a.subject : a \in Accepted(assertions, "node")}

(* An accepted node creates its object, an accepted edge joins created     *)
(* objects, both with evidence from the sources of the command, each of    *)
(* which some assertion cites.                                             *)
InitializationAllowed(sources, assertions) ==
    LET nodes == Accepted(assertions, "node")
        edges == Accepted(assertions, "edge")
    IN  /\ nodes \cup edges # {}
        /\ \A a \in nodes : a.identity = "new"
        /\ \A a \in edges : a.identity \in {"new", "none"}
        /\ \A a \in nodes, b \in nodes : a.subject = b.subject => a = b
        /\ \A a \in edges : {a.subject, a.object} \subseteq Created(assertions)
        /\ \A a \in edges, b \in edges : a.id = b.id => a = b
        /\ \A a \in nodes \cup edges : a.evidence # {}
        /\ UNION {a.evidence : a \in assertions} = sources

FirstGraph(assertions) ==
    Graph(Created(assertions), Created(assertions),
          {[id |-> a.id, from |-> a.subject, to |-> a.object, evidence |-> a.evidence] :
              a \in Accepted(assertions, "edge")})

-----------------------------------------------------------------------------
(* A rebind: a map from current canonical objects to fresh ids.            *)

RebindAllowed(g, map) ==
    LET sources == DOMAIN map
        targets == {map[s] : s \in sources}
    IN  /\ sources # {}
        /\ IsInjective(map)
        /\ sources \cap targets = {}
        /\ sources \subseteq g.canonical
        /\ targets \cap g.objects = {}

Rebound(map, o) == IF o \in DOMAIN map THEN map[o] ELSE o

(* Mutant: only the source end of a relationship is rebound.               *)
RebindSourcesOnly(g, map) ==
    Graph({Rebound(map, o) : o \in g.objects},
          {Rebound(map, o) : o \in g.canonical},
          {[r EXCEPT !.from = Rebound(map, @)] : r \in g.rels})

Rebind(g, map) ==
    Graph({Rebound(map, o) : o \in g.objects},
          {Rebound(map, o) : o \in g.canonical},
          {[id |-> r.id, from |-> Rebound(map, r.from), to |-> Rebound(map, r.to),
            evidence |-> r.evidence] : r \in g.rels})

-----------------------------------------------------------------------------
(* A withdrawal: a relationship that stands in the parent exactly as it    *)
(* was adopted, on the evidence of one adopted source.                     *)
WithdrawalAllowed(adopted, members, parent, id) ==
    /\ Cardinality(Relationships(adopted, id)) = 1
    /\ Relationships(adopted, id) = Relationships(parent, id)
    /\ \A r \in Relationships(adopted, id) :
          Cardinality(r.evidence) = 1 /\ r.evidence \subseteq members

Withdraw(g, id) == [g EXCEPT !.rels = @ \ Relationships(g, id)]
=============================================================================
