---------------------------- MODULE NativeReads ----------------------------
(***************************************************************************)
(* The reads of one native knowledge revision by one reader: the indexes   *)
(* a revision is parsed into (application/vnext/builder.py, model.py), the *)
(* source authority a read is pinned to (provenance.py), the admission of  *)
(* assertions (admission.py, read_context.py), and the reads above it:     *)
(* entities (entity_reads.py), neighborhoods (neighborhood.py), search     *)
(* (search.py), evidence and anchors (evidence_reads.py,                   *)
(* source_anchors.py), and texts (native_source_access.py).                *)
(*                                                                         *)
(* A context is a record of the parsed revision, the request, the policy   *)
(* and the view of the sources it was opened with.                         *)
(*                                                                         *)
(* Simplifications:                                                        *)
(*  - Results are sets where the code sorts by id; digests, work counts    *)
(*    and traces are left out, except the digest of an anchor, which is    *)
(*    the record of what it covers.                                        *)
(*  - The memo of evidence is cleared by every evaluation and keeps what a *)
(*    pure function answers: it is that function.                          *)
(*  - A text is the set of its tokens; a query is a set of tokens with the *)
(*    predicate, the term and the raw id it spells.                        *)
(***************************************************************************)
EXTENDS NativeGraph

-----------------------------------------------------------------------------
(* Source authority: for every artifact and every revision, the values it  *)
(* had, each with the generation that wrote it; Failed is its removal.     *)

(* Mutant: a view reads the latest value of every source.                  *)
AtLatest(history, epoch) == IF history = <<>> THEN Failed ELSE Last(history).value

(* The last value written before the first that is later than an epoch.    *)
At(history, epoch) ==
    LET seen == {n \in DOMAIN history : \A m \in 1..n : history[m].generation <= epoch} IN
    IF seen = {} THEN Failed ELSE history[CHOOSE n \in seen : \A m \in seen : m <= n].value

Pinned(histories, epoch) ==
    [i \in {j \in DOMAIN histories : At(histories[j], epoch) # Failed} |->
        At(histories[i], epoch)]

(* What one snapshot of a view holds of the requested ids.                 *)
Snapshot(view, sources, texts) ==
    LET held == Pinned(view.artifacts, view.epoch)
        read == Pinned(view.revisions, view.epoch)
    IN [artifacts |-> [i \in sources \cap DOMAIN held |-> held[i]],
        revisions |-> [i \in texts \cap DOMAIN read |-> read[i]]]

-----------------------------------------------------------------------------
(* Indexes.                                                                *)

BySubject(g, e) == {i \in DOMAIN g.assertions : g.assertions[i].subject = e}

Outgoing(g, e) == {i \in BySubject(g, e) : g.assertions[i].value.kind = "entity"}

Incoming(g, e) == {i \in DOMAIN g.assertions : Target(g.assertions[i]) = {e}}

Supporters(g, v) == {i \in DOMAIN g.assertions : v \in g.assertions[i].evidence}

AliasesOf(g, e) == {i \in DOMAIN g.aliases : g.aliases[i].entity = e}

ByPredicate(g, p) == {i \in DOMAIN g.assertions : g.assertions[i].predicate = p}

IsTerm(a, t) == a.value.kind = "term" /\ a.value.of = t

ByTerm(g, t) == {i \in DOMAIN g.assertions : IsTerm(g.assertions[i], t)}

Tokens(a) == IF a.value.kind = "literal" THEN a.value.of ELSE {}

ByToken(g, t) == {i \in DOMAIN g.assertions : t \in Tokens(g.assertions[i])}

-----------------------------------------------------------------------------
(* Admission: the gates, each of which passes or names its reason.         *)

Visible(v, audience, declared) ==
    \/ v.mode = "public"
    \/ v.mode = "any" /\ v.labels \subseteq declared /\ v.labels \cap audience # {}
    \/ v.mode = "all" /\ v.labels \subseteq declared /\ v.labels \subseteq audience

StandingReason(a, request) == IF a.standing \in request.standing THEN "" ELSE "standing"

ScopeReason(a, request, axes) ==
    CASE a.scope = {} -> IF request.unscoped THEN "" ELSE "scope"
      [] a.scope # {} /\ \E b \in a.scope : b[1] \notin axes -> "domain_declaration"
      [] OTHER -> IF \A b \in a.scope : b \in request.bindings \/ b[1] \in request.wildcards
                  THEN "" ELSE "scope"

(* The reason one piece of evidence is refused for: its source must be in  *)
(* the snapshot, visible and active, its revision one of that source.      *)
EvidenceReason(v, ctx, snapshot) ==
    LET g == ctx.revision.graph
        domain == ctx.revision.domain
        e == g.evidence[v]
        held == e.artifact \in DOMAIN snapshot.artifacts
        artifact == snapshot.artifacts[e.artifact]
    IN CASE v \notin DOMAIN g.evidence -> "source_missing"
         [] v \in DOMAIN g.evidence /\ ~(e.schemas \subseteq domain.sources) ->
              "domain_declaration"
         [] v \in DOMAIN g.evidence /\ e.schemas \subseteq domain.sources /\ ~held ->
              "source_missing"
         [] OTHER ->
              IF ~Visible(artifact.visibility, ctx.request.audience, domain.labels)
              THEN "source_visibility"
              ELSE IF artifact.status # "active" THEN "source_inactive"
              ELSE IF ~(artifact.schemas \subseteq domain.sources) THEN "domain_declaration"
              ELSE IF \E r \in e.revision : \/ r \notin DOMAIN snapshot.revisions
                                           \/ snapshot.revisions[r].artifact # e.artifact
              THEN "source_revision_invalid"
              ELSE ""

(* One unacceptable piece of evidence is enough.                           *)
RefsReason(refs, ctx, snapshot) ==
    LET refused == {v \in refs : EvidenceReason(v, ctx, snapshot) # ""} IN
    IF refused = {} THEN "" ELSE EvidenceReason(CHOOSE v \in refused : TRUE, ctx, snapshot)

(* A domain's policy can only narrow.                                      *)
Narrow(policy, i, a) ==
    \/ policy.kind = "always"
    \/ policy.kind = "exclude" /\ i \notin policy.of
    \/ policy.kind = "modes" /\ a.mode \in policy.of

(* The first gate that does not pass, in the order of the evaluation.      *)
Reason(i, ctx, snapshot) ==
    LET a == ctx.revision.graph.assertions[i]
        domain == ctx.revision.domain
        gates == <<StandingReason(a, ctx.request),
                   ScopeReason(a, ctx.request, domain.axes),
                   IF DomainPasses(a, domain) THEN "" ELSE "domain_declaration",
                   IF Visible(a.visibility, ctx.request.audience, domain.labels) THEN ""
                   ELSE "visibility",
                   IF ProfilePasses(a, ctx.revision.profile) THEN "" ELSE "semantic_profile",
                   RefsReason(a.evidence, ctx, snapshot),
                   IF Narrow(ctx.policy, i, a) THEN "" ELSE "domain_policy">>
        failed == {n \in DOMAIN gates : gates[n] # ""}
    IN IF failed = {} THEN "" ELSE gates[CHOOSE n \in failed : \A m \in failed : n <= m]

ArtifactsOf(g, refs) == {g.evidence[v].artifact : v \in refs \cap DOMAIN g.evidence}

RevisionsOf(g, refs) == UNION {g.evidence[v].revision : v \in refs \cap DOMAIN g.evidence}

(* The sources some references depend on, read at once.                    *)
SourcesOf(refs, ctx) ==
    LET g == ctx.revision.graph IN
    Snapshot(ctx.view, ArtifactsOf(g, refs), RevisionsOf(g, refs))

EvidenceOf(g, assertions) == UNION {g.assertions[i].evidence : i \in assertions}

(* The candidates that pass every gate, against one snapshot of theirs.    *)
Admit(candidates, ctx) ==
    LET snapshot == SourcesOf(EvidenceOf(ctx.revision.graph, candidates), ctx) IN
    {i \in candidates : Reason(i, ctx, snapshot) = ""}

(* What a context can be opened for: the request names its revision, or    *)
(* none for the latest, and only what the domain declares, and the policy  *)
(* is the domain's.                                                        *)
Opens(request, policy, revision, domain, profile) ==
    /\ request.space = revision.space
    /\ request.revision \subseteq {revision.id}
    /\ DescriptorsPinned(revision, domain, profile)
    /\ policy.id = domain.policy
    /\ {b[1] : b \in request.bindings} \cup request.wildcards \subseteq domain.axes
    /\ request.audience \subseteq domain.labels

-----------------------------------------------------------------------------
(* Entities.                                                               *)

AdmittedAliases(ctx, e) ==
    LET g == ctx.revision.graph
        eligible == {i \in AliasesOf(g, e) : g.aliases[i].standing \in ctx.request.standing}
        snapshot == SourcesOf(UNION {g.aliases[i].evidence : i \in eligible}, ctx)
    IN {i \in eligible : RefsReason(g.aliases[i].evidence, ctx, snapshot) = ""}

Opposite(a, e) ==
    IF a.value.kind # "entity" THEN {} ELSE {a.subject, a.value.of} \ {e}

Touching(g, e) == BySubject(g, e) \cup Incoming(g, e)

(* An exact entity, with what it is the subject of.                        *)
GetEntity(ctx, e) ==
    IF e \notin ctx.revision.graph.entities
    THEN [found |-> FALSE, assertions |-> {}, evidence |-> {}]
    ELSE LET admitted == Admit(BySubject(ctx.revision.graph, e), ctx) IN
         [found |-> TRUE, assertions |-> admitted,
          evidence |-> EvidenceOf(ctx.revision.graph, admitted)]

(* An exact entity with everything that touches it, the opposite ends, its *)
(* aliases and their evidence.                                             *)
GetCompleteEntity(ctx, e) ==
    LET g == ctx.revision.graph
        admitted == Admit(Touching(g, e), ctx)
        aliases == AdmittedAliases(ctx, e)
    IN IF e \notin g.entities
       THEN [found |-> FALSE, assertions |-> {}, related |-> {}, aliases |-> {},
             evidence |-> {}]
       ELSE [found |-> TRUE, assertions |-> admitted,
             related |-> UNION {Opposite(g.assertions[i], e) : i \in admitted},
             aliases |-> aliases,
             evidence |-> EvidenceOf(g, admitted)
                          \cup UNION {g.aliases[i].evidence : i \in aliases}]

EndsOf(a) == {a.subject} \cup Target(a)

ListEntities(ctx) ==
    LET g == ctx.revision.graph IN
    UNION {EndsOf(g.assertions[i]) : i \in Admit(DOMAIN g.assertions, ctx)}

-----------------------------------------------------------------------------
(* Neighborhoods: one or two layers of entities over admitted references,  *)
(* each assertion being evaluated in the first layer that touches it.      *)

Edges(g, e) == Outgoing(g, e) \cup Incoming(g, e)

Layer(ctx, walk, n) ==
    LET g == ctx.revision.graph
        fresh == (UNION {Edges(g, e) : e \in walk.frontier}) \ walk.evaluated
        admitted == Admit(fresh, ctx)
        ends == UNION {EndsOf(g.assertions[i]) : i \in admitted}
    IN [depth |-> Joined(walk.depth, [e \in ends |-> n]),
        frontier |-> ends \ DOMAIN walk.depth,
        evaluated |-> walk.evaluated \cup fresh,
        assertions |-> walk.assertions \cup admitted]

GetNeighborhood(ctx, seeds, depth) ==
    LET found == seeds \cap ctx.revision.graph.entities
        start == [depth |-> [e \in found |-> 0], frontier |-> found, evaluated |-> {},
                  assertions |-> {}]
        first == Layer(ctx, start, 1)
    IN IF depth = 1 THEN first ELSE Layer(ctx, first, 2)

-----------------------------------------------------------------------------
(* Search.                                                                 *)

Witnesses(g, query) ==
    ByPredicate(g, query.predicate) \cup ByTerm(g, query.term)
    \cup UNION {ByToken(g, t) : t \in query.tokens}

MatchKinds(g, query, e, matched) ==
    (IF e = query.raw THEN {"exact_id"} ELSE {})
    \cup (IF matched \cap ByPredicate(g, query.predicate) # {} THEN {"predicate"} ELSE {})
    \cup (IF matched \cap ByTerm(g, query.term) # {} THEN {"term_ref"} ELSE {})
    \cup (IF \E i \in matched : Tokens(g.assertions[i]) \cap query.tokens # {} THEN {"lexical"}
          ELSE {})

(* Ten for every token that is witnessed and one for every assertion.      *)
Score(g, query, matched) ==
    10 * Cardinality(UNION {Tokens(g.assertions[i]) \cap query.tokens : i \in matched})
    + Cardinality(matched)

RankClass(kinds) ==
    CASE "exact_id" \in kinds -> 0
      [] "exact_id" \notin kinds /\ kinds \cap {"predicate", "term_ref"} # {} -> 1
      [] OTHER -> 2

Hit(g, query, e, admitted) ==
    LET matched == {i \in admitted : g.assertions[i].subject = e}
        kinds == MatchKinds(g, query, e, matched)
    IN [entity |-> e, assertions |-> matched, kinds |-> kinds,
        class |-> RankClass(kinds), score |-> Score(g, query, matched)]

Ahead(h, k) ==
    \/ h.class < k.class
    \/ h.class = k.class /\ h.score > k.score

Found(g, query, admitted) ==
    {g.assertions[i].subject : i \in admitted} \cup ({query.raw} \cap g.entities)

Hits(ctx, query) ==
    LET g == ctx.revision.graph
        admitted == Admit(Witnesses(g, query), ctx)
    IN {Hit(g, query, e, admitted) : e \in Found(g, query, admitted)}

(* The best hits up to a limit; which of two that rank alike comes first   *)
(* is decided by their ids.                                                *)
SearchEntities(ctx, query, limit) ==
    LET hits == Hits(ctx, query)
        length == IF limit < Cardinality(hits) THEN limit ELSE Cardinality(hits)
    IN CHOOSE best \in [1..length -> hits] :
         /\ \A m, n \in 1..length : m < n => best[m] # best[n] /\ ~Ahead(best[n], best[m])
         /\ \A h \in hits : \A n \in 1..length :
              Ahead(h, best[n]) => \E m \in 1..length : best[m] = h

-----------------------------------------------------------------------------
(* Evidence, and anchors to it.                                            *)

(* An anchor's token binds the context and the visible state of the source *)
(* it leads to, the visibility of its artifact included.                   *)
ContextBinding(ctx) ==
    [revision |-> ctx.revision.id, space |-> ctx.revision.space, request |-> ctx.request,
     domain |-> ctx.revision.domain, profile |-> ctx.revision.profile, policy |-> ctx.policy.id]

AnchorTo(ctx, v) ==
    [evidence |-> v,
     identity |-> [context |-> ContextBinding(ctx), at |-> ctx.revision.graph.evidence[v],
                   sources |-> SourcesOf({v}, ctx)]]

NoEvidence == [available |-> FALSE, supporters |-> {}, anchors |-> {}]

GetAssertionEvidence(ctx, i) ==
    LET g == ctx.revision.graph IN
    IF i \notin DOMAIN g.assertions \/ Admit({i}, ctx) = {} THEN NoEvidence
    ELSE [available |-> TRUE, supporters |-> {i},
          anchors |-> {AnchorTo(ctx, v) : v \in g.assertions[i].evidence}]

(* Evidence is shown to whoever is shown an assertion it supports.         *)
GetEvidence(ctx, v) ==
    LET g == ctx.revision.graph
        admitted == Admit(Supporters(g, v), ctx)
    IN IF v \notin DOMAIN g.evidence \/ admitted = {} THEN NoEvidence
       ELSE [available |-> TRUE, supporters |-> admitted, anchors |-> {AnchorTo(ctx, v)}]

(* Mutant: a token resolves as long as its evidence is available.          *)
ResolvesUnbound(ctx, anchor) == GetEvidence(ctx, anchor.evidence).available

(* A token resolves when it is the one the context would issue now.        *)
Resolves(ctx, anchor) == anchor \in GetEvidence(ctx, anchor.evidence).anchors

-----------------------------------------------------------------------------
(* Native texts: what a context of sources can open through its evidence.  *)

Eligible(ctx, v) ==
    LET e == ctx.revision.graph.evidence[v] IN
    e.opens /\ e.revision # {} /\ e.schemas \subseteq ctx.revision.domain.sources

Current(ctx, v, sources) ==
    LET e == ctx.revision.graph.evidence[v]
        artifact == sources.artifacts[e.artifact]
    IN artifact.status = "active" /\ {artifact.current} = e.revision

(* The stored revision is of another artifact, which raises.               *)
Misbound(ctx, v, sources) ==
    LET e == ctx.revision.graph.evidence[v] IN
    /\ Current(ctx, v, sources)
    /\ \E r \in e.revision : sources.revisions[r].artifact # e.artifact

(* A text is open while its artifact is active, at the revision that is    *)
(* cited, and visible.                                                     *)
TextAllowed(ctx, v, sources) ==
    LET e == ctx.revision.graph.evidence[v]
        artifact == sources.artifacts[e.artifact]
        domain == ctx.revision.domain
    IN /\ Current(ctx, v, sources) /\ ~Misbound(ctx, v, sources)
       /\ Visible(artifact.visibility, ctx.request.audience, domain.labels)
       /\ artifact.schemas \subseteq domain.sources

Loaded(ctx, v, sources) ==
    LET e == ctx.revision.graph.evidence[v] IN
    e.artifact \in DOMAIN sources.artifacts /\ e.revision \subseteq DOMAIN sources.revisions

(* The catalogue of texts: complete unless metadata is missing, and none   *)
(* when a stored revision is bound wrongly.                                *)
ListTexts(ctx) ==
    LET g == ctx.revision.graph
        eligible == {v \in DOMAIN g.evidence : Eligible(ctx, v)}
        sources == SourcesOf(eligible, ctx)
        loaded == {v \in eligible : Loaded(ctx, v, sources)}
        raises == \E v \in loaded : Misbound(ctx, v, sources)
    IN [raises |-> raises,
        complete |-> loaded = eligible,
        evidence |-> {v \in loaded : ~raises /\ TextAllowed(ctx, v, sources)}]

OpenText(ctx, v) ==
    /\ v \in DOMAIN ctx.revision.graph.evidence /\ Eligible(ctx, v)
    /\ Loaded(ctx, v, SourcesOf({v}, ctx))
    /\ TextAllowed(ctx, v, SourcesOf({v}, ctx))
=============================================================================
