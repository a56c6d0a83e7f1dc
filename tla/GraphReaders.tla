---------------------------- MODULE GraphReaders ----------------------------
(***************************************************************************)
(* What a snapshot reader accepts of a stored graph payload                *)
(* (application/graph_snapshot.py, graph_snapshot_v6.py), for the schemas  *)
(* that reviews are materialized in.                                       *)
(*                                                                         *)
(* A payload is [schema, objects, links, evidence]: objects by their id,   *)
(* relationships by theirs, evidence records by theirs.                    *)
(*   object   [kind, label, id, evidence, aliases, summary, properties,    *)
(*             aspects]: id is its existence assertion, or NoId in schema  *)
(*             3; a summary is a set of at most one.                       *)
(*   alias, summary  [id, text, evidence]                                  *)
(*   property        [id, term, literal, evidence]                         *)
(*   aspect          [id, kind, evidence]                                  *)
(*   link     [id, subject, object, predicate, evidence, ends]: ends are   *)
(*             the aspects of its endpoints, or NoId.                      *)
(*                                                                         *)
(* Simplifications: one world and one profile, whose terms are Terms; two  *)
(* rows of one id are excluded by the shape of a payload; the schema and   *)
(* the JSON shape of the rows are left out.                                *)
(***************************************************************************)
EXTENDS ReviewContracts, TLC

CONSTANT Terms          \* the kinds, predicates and property terms of the profile

Facets(o) == o.aliases \cup o.summary \cup o.properties \cup o.aspects

(* The assertions of a graph: each with the place that claims it.          *)
Claimed(g) ==
    {[at |-> <<x>>, id |-> g.objects[x].id] : x \in DOMAIN g.objects}
    \cup UNION {{[at |-> <<x, "alias", a.text>>, id |-> a.id] : a \in g.objects[x].aliases}
                : x \in DOMAIN g.objects}
    \cup UNION {{[at |-> <<x, "summary">>, id |-> a.id] : a \in g.objects[x].summary}
                : x \in DOMAIN g.objects}
    \cup UNION {{[at |-> <<x, "property", p.term, p.literal>>, id |-> p.id]
                 : p \in g.objects[x].properties} : x \in DOMAIN g.objects}
    \cup UNION {{[at |-> <<x, "aspect", p.kind, 0>>, id |-> p.id]
                 : p \in g.objects[x].aspects} : x \in DOMAIN g.objects}
    \cup {[at |-> <<"link", k>>, id |-> g.links[k].id] : k \in DOMAIN g.links}

ClaimedIds(g) == {p.id : p \in Claimed(g)} \ {NoId}

(* An assertion id claims one thing in the whole graph.                    *)
ClaimedOnce(g) == \A p, q \in Claimed(g) : p.id = q.id /\ p.id # NoId => p = q

EndpointsExist(g) ==
    \A k \in DOMAIN g.links : {g.links[k].subject, g.links[k].object} \subseteq DOMAIN g.objects

(* The evidence an object keeps, by itself or by what is said of it.       *)
Retained(o) == o.evidence \cup UNION {f.evidence : f \in Facets(o)}

EvidenceResolves(g) ==
    /\ \A x \in DOMAIN g.objects : Retained(g.objects[x]) \subseteq DOMAIN g.evidence
    /\ \A k \in DOMAIN g.links : g.links[k].evidence \subseteq DOMAIN g.evidence

AliasesDiffer(o) == \A a, b \in o.aliases : a.text.fold = b.text.fold => a = b

ReadableV3(g) ==
    /\ g.schema = 3
    /\ ClaimedOnce(g)
    /\ \A x \in DOMAIN g.objects : g.objects[x].kind \in Terms /\ AliasesDiffer(g.objects[x])
    /\ \A k \in DOMAIN g.links : g.links[k].predicate \in Terms
    /\ EndpointsExist(g)
    /\ EvidenceResolves(g)

(* An aspect at the end of a relationship belongs to the object there.     *)
AspectOwned(g, end, x) == end = NoId \/ \E f \in g.objects[x].aspects : f.id = end

ReadableV6(g) ==
    /\ g.schema = 6
    /\ ClaimedOnce(g)
    /\ \A x \in DOMAIN g.objects :
         /\ g.objects[x].kind \in Terms
         /\ \A p \in g.objects[x].properties : p.term \in Terms
         /\ \A f \in g.objects[x].aspects : f.kind \in Terms
    /\ \A k \in DOMAIN g.links : g.links[k].predicate \in Terms
    /\ EndpointsExist(g)
    /\ \A k \in DOMAIN g.links :
         /\ AspectOwned(g, g.links[k].ends[1], g.links[k].subject)
         /\ AspectOwned(g, g.links[k].ends[2], g.links[k].object)
    /\ EvidenceResolves(g)
=============================================================================
