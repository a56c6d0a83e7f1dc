----------------------------- MODULE LegacyCodec -----------------------------
(***************************************************************************)
(* How a stored graph becomes a parsed revision of the native model, and   *)
(* the witnesses that tell whether the revision still says all that the    *)
(* graph did (application/vnext/legacy_compat.py), for the payloads of     *)
(* GraphReaders.                                                           *)
(*                                                                         *)
(* A parsed revision is [entities, assertions, aliases, evidence].         *)
(*   assertion  [id, subject, predicate, value, metadata]: a value is      *)
(*              tagged with what it is, <<"entity", id>> for a reference.  *)
(*   metadata   what the translator makes of an assertion; ends are the    *)
(*              aspects, and link the id, of a relationship.               *)
(*                                                                         *)
(* Schema 6 states of every assertion its campaign, visibility, canon,     *)
(* epistemic kind, temporal scope and sessions, MetadataOf its id; schema  *)
(* 3 states none.                                                          *)
(*                                                                         *)
(* Simplifications: the envelope, the identity and the cache key of a      *)
(* revision, its indexes and its profile are left out; of schema 3 and     *)
(* later, every alias and summary is an admitted assertion.                *)
(***************************************************************************)
EXTENDS GraphReaders

CONSTANT MetadataOf(_)

Unspecified == "legacy_unspecified"

(* The id of an assertion that the payload implies without stating it.     *)
Synthetic(x, role) == <<"asrt", "compat", x, role>>

Standing(canon) ==
    CASE canon = "canonical" -> "established"
      [] canon = "provisional" -> "provisional"
      [] canon = "retracted" -> "retracted"

(* Nothing is guessed of what schema 3 leaves unspecified.                 *)
TranslateAssertionMetadata(g, id, evidence) ==
    LET m == MetadataOf(id)
    IN  IF g.schema = 3
        THEN [scope |-> {}, visibility |-> "legacy_coarse_visibility", basis |-> Unspecified,
              standing |-> "established", temporal |-> "unknown", evidence |-> evidence,
              epistemic |-> {}, canon |-> {}, sessions |-> {}, link |-> Absent,
              ends |-> <<NoId, NoId>>]
        ELSE [scope |-> {m.campaign} \ {Absent}, visibility |-> "audience:" \o m.visibility,
              basis |-> m.epistemic, standing |-> Standing(m.canon), temporal |-> m.temporal,
              evidence |-> evidence, epistemic |-> {m.epistemic}, canon |-> {m.canon},
              sessions |-> m.sessions, link |-> Absent, ends |-> <<NoId, NoId>>]

Asserts(x, id, predicate, value, metadata) ==
    [id |-> id, subject |-> x, predicate |-> predicate, value |-> <<predicate, value>>,
     metadata |-> metadata]

ExistenceId(g, x) == IF g.schema = 3 THEN Synthetic(x, "existence") ELSE g.objects[x].id

(* The kind and the label of an object carry what is said of its existence.*)
ObjectAssertions(g, x) ==
    LET o == g.objects[x]
        existence == TranslateAssertionMetadata(g, o.id, o.evidence)
    IN  {Asserts(x, ExistenceId(g, x), "compat:existence", TRUE, existence),
         Asserts(x, Synthetic(x, "kind"), "compat:kind", o.kind, existence),
         Asserts(x, Synthetic(x, "label"), "compat:label", o.label, existence)}

FacetAssertion(g, x, f, predicate, value) ==
    Asserts(x, f.id, predicate, value, TranslateAssertionMetadata(g, f.id, f.evidence))

SummariesAndAliases(g, x) ==
    {FacetAssertion(g, x, f, "compat:summary", f.text) : f \in g.objects[x].summary}
    \cup {FacetAssertion(g, x, f, "compat:alias", f.text) : f \in g.objects[x].aliases}

PropertiesAndAspects(g, x) ==
    {FacetAssertion(g, x, f, f.term, f.literal) : f \in g.objects[x].properties}
    \cup {FacetAssertion(g, x, f, "compat:aspect", f.kind) : f \in g.objects[x].aspects}

RelationshipAssertionId(g, k) == IF g.schema = 3 THEN Synthetic("rel", k) ELSE g.links[k].id

RelationshipAssertion(g, k) ==
    LET l == g.links[k]
        base == TranslateAssertionMetadata(g, l.id, l.evidence)
    IN  [id |-> RelationshipAssertionId(g, k), subject |-> l.subject, predicate |-> l.predicate,
         value |-> <<"entity", l.object>>, metadata |-> [base EXCEPT !.link = k, !.ends = l.ends]]

(* Only what every reader may see is an identity alias.                    *)
EntersIdentity(g, f) ==
    LET m == MetadataOf(f.id)
    IN  \/ g.schema = 3
        \/ m.campaign = Absent /\ m.visibility = "player" /\ m.canon = "canonical"

IdentityAliases(g) ==
    UNION {{[id |-> f.id, entity |-> x, text |-> f.text, evidence |-> f.evidence]
            : f \in {a \in g.objects[x].aliases : EntersIdentity(g, a)}} : x \in DOMAIN g.objects}

ParsedEvidence(e) ==
    [id |-> e.id, artifact |-> e.artifact, revision |-> e.revision, role |-> e.role,
     span |-> e.span, extra |-> [key |-> e.key, domain |-> e.domain]]

DecodeLegacyGraph(g) ==
    [entities |-> DOMAIN g.objects,
     assertions |->
        UNION {ObjectAssertions(g, x) \cup SummariesAndAliases(g, x) \cup PropertiesAndAspects(g, x)
               : x \in DOMAIN g.objects}
        \cup {RelationshipAssertion(g, k) : k \in DOMAIN g.links},
     aliases |-> IdentityAliases(g),
     evidence |-> {ParsedEvidence(g.evidence[k]) : k \in DOMAIN g.evidence}]

(* What the decoder refuses: a graph its reader refuses, an id that two    *)
(* assertions have, given or made up, and what does not resolve.           *)
Decodable(g) ==
    LET p == DecodeLegacyGraph(g)
    IN  /\ ReadableV3(g) \/ ReadableV6(g)
        /\ \A a, b \in p.assertions : a.id = b.id => a = b
        /\ \A a \in p.assertions :
             /\ a.subject \in p.entities
             /\ a.value[1] = "entity" => a.value[2] \in p.entities
             /\ a.metadata.evidence \subseteq {e.id : e \in p.evidence}
        /\ \A k \in DOMAIN g.links :
             /\ AspectOwned(g, g.links[k].ends[1], g.links[k].subject)
             /\ AspectOwned(g, g.links[k].ends[2], g.links[k].object)

-----------------------------------------------------------------------------
(* The witness of the graph itself.  The metadata of a witness is a set of *)
(* at most one.                                                            *)

SerializeMetadata(g, id, evidence) ==
    LET m == MetadataOf(id)
    IN  IF g.schema = 3 THEN {}
        ELSE {[campaign |-> m.campaign, canon |-> m.canon, epistemic |-> m.epistemic,
               evidence |-> evidence, sessions |-> m.sessions, temporal |-> m.temporal,
               visibility |-> m.visibility]}

EffectiveKind(o, end) ==
    IF end = NoId THEN o.kind ELSE (CHOOSE f \in o.aspects : f.id = end).kind

WitnessOfObject(g, x) ==
    LET o == g.objects[x]
        facet(f, value) == [id |-> f.id, value |-> value, evidence |-> f.evidence,
                            metadata |-> SerializeMetadata(g, f.id, f.evidence)]
    IN  [existence |-> {[id |-> ExistenceId(g, x),
                         metadata |-> SerializeMetadata(g, o.id, o.evidence)]},
         kind |-> {o.kind}, label |-> {o.label},
         summary |-> {facet(f, f.text) : f \in o.summary},
         aliases |-> {facet(f, f.text) : f \in o.aliases},
         properties |-> {facet(f, <<f.term, f.literal>>) : f \in o.properties},
         aspects |-> {facet(f, f.kind) : f \in o.aspects}]

WitnessOfRelationship(g, k) ==
    LET l == g.links[k]
    IN  [link |-> k, id |-> RelationshipAssertionId(g, k), subject |-> l.subject, object |-> l.object,
         predicate |-> l.predicate, evidence |-> l.evidence, ends |-> l.ends,
         kinds |-> <<EffectiveKind(g.objects[l.subject], l.ends[1]),
                     EffectiveKind(g.objects[l.object], l.ends[2])>>,
         metadata |-> SerializeMetadata(g, l.id, l.evidence)]

WitnessOfEvidence(e) ==
    [id |-> e.id, artifact |-> e.artifact, revision |-> e.revision, role |-> e.role,
     span |-> e.span, domain |-> e.domain]

HistoricalWitness(g) ==
    [objects |-> [x \in DOMAIN g.objects |-> WitnessOfObject(g, x)],
     relationships |-> {WitnessOfRelationship(g, k) : k \in DOMAIN g.links},
     evidence |-> {WitnessOfEvidence(g.evidence[k]) : k \in DOMAIN g.evidence}]

-----------------------------------------------------------------------------
(* The same witness made again of the parsed revision.                     *)

OneOr(S, otherwise) == IF S = {} THEN otherwise ELSE CHOOSE v \in S : TRUE

CanonOf(standing) == IF standing = "established" THEN "canonical" ELSE standing

ReconstructMetadata(m) ==
    IF m.basis = Unspecified THEN {}
    ELSE {[campaign |-> OneOr(m.scope, Absent),
           canon |-> OneOr(m.canon, CanonOf(m.standing)),
           epistemic |-> OneOr(m.epistemic, m.basis),
           evidence |-> m.evidence, sessions |-> m.sessions, temporal |-> m.temporal,
           visibility |-> IF m.visibility = "audience:gm" THEN "gm" ELSE "player"]}

CompatPredicates ==
    {"compat:existence", "compat:kind", "compat:label", "compat:summary", "compat:alias",
     "compat:aspect"}

IsReference(a) == a.value[1] = "entity"

ReconstructedObject(p, x) ==
    LET about == {a \in p.assertions : a.subject = x /\ ~IsReference(a)}
        by(predicate) == {a \in about : a.predicate = predicate}
        facet(a, value) == [id |-> a.id, value |-> value, evidence |-> a.metadata.evidence,
                            metadata |-> ReconstructMetadata(a.metadata)]
    IN  [existence |-> {[id |-> a.id, metadata |-> ReconstructMetadata(a.metadata)]
                        : a \in by("compat:existence")},
         kind |-> {a.value[2] : a \in by("compat:kind")},
         label |-> {a.value[2] : a \in by("compat:label")},
         summary |-> {facet(a, a.value[2]) : a \in by("compat:summary")},
         aliases |-> {facet(a, a.value[2]) : a \in by("compat:alias")},
         properties |-> {facet(a, a.value) : a \in {b \in about : b.predicate \notin CompatPredicates}},
         aspects |-> {facet(a, a.value[2]) : a \in by("compat:aspect")}]

ReconstructedRelationship(p, a) ==
    LET kindAt(x, end) ==
            LET o == ReconstructedObject(p, x)
            IN  OneOr({f.value : f \in {h \in o.aspects : h.id = end}}, OneOr(o.kind, Absent))
        ends == a.metadata.ends
    IN  [link |-> a.metadata.link, id |-> a.id, subject |-> a.subject, object |-> a.value[2],
         predicate |-> a.predicate, evidence |-> a.metadata.evidence, ends |-> ends,
         kinds |-> <<kindAt(a.subject, ends[1]), kindAt(a.value[2], ends[2])>>,
         metadata |-> ReconstructMetadata(a.metadata)]

ReconstructedEvidence(e) ==
    [id |-> e.id, artifact |-> e.artifact, revision |-> e.revision, role |-> e.role,
     span |-> e.span, domain |-> e.extra.domain]

ParsedWitness(p) ==
    [objects |-> [x \in p.entities |-> ReconstructedObject(p, x)],
     relationships |-> {ReconstructedRelationship(p, a) : a \in {b \in p.assertions : IsReference(b)}},
     evidence |-> {ReconstructedEvidence(e) : e \in p.evidence}]

(* verify_historical_semantic_parity: the two witnesses are one.           *)
SemanticParity(g) ==
    Decodable(g) /\ ParsedWitness(DecodeLegacyGraph(g)) = HistoricalWitness(g)
=============================================================================
