---------------------------- MODULE NativeSpaces ----------------------------
(***************************************************************************)
(* Native knowledge spaces with the content of their revisions: the        *)
(* publications of KnowledgeSpaces carry the changes of NativeGraph, and   *)
(* each stored revision is read as in NativeReads.                         *)
(*                                                                         *)
(* A revision id of KnowledgeSpaces is the sequence of the operations      *)
(* since the genesis, so it determines a content.  A client can ask for a  *)
(* publication only if it could materialize it over the parent it read.    *)
(* What holds of a content is a property of the revision id, and is        *)
(* decided once for all of those of up to MaxCalls publications.           *)
(***************************************************************************)
EXTENDS KnowledgeSpaces, NativeReads

CONSTANTS
    Change,         \* operation -> what it does to its parent
    Readers,        \* requests
    Policies,       \* admission policies
    Queries,        \* search queries
    Sources,        \* the history of the source authority
    Epochs          \* generations at which a reader may have pinned it

(* A genesis has no parent.                                                *)
NoRevision == [space |-> None, id |-> <<>>, graph |-> EmptyGraph, domain |-> None,
               profile |-> None]

(* The graph a change makes of its parent, or Failed.                      *)
GraphAfter(parent, change) ==
    LET publication == [parent |-> parent.id, operations |-> <<change.op>>] IN
    CASE change.kind = "initialize" /\ parent.id = <<>> -> EmptyGraph
      [] change.kind = "migrate" /\ parent.id = <<>> ->
           IF WellFormed(change.graph) THEN change.graph ELSE Failed
      [] change.kind = "extend" /\ parent.id # <<>> ->
           ExtendEvidence(parent, change.evidence, change.domain, change.profile)
      [] change.kind = "transition" /\ parent.id # <<>> ->
           TransitionProfile(parent, change.domain, change.from, change.profile)
      [] change.kind = "contribution" /\ parent.id # <<>> ->
           MaterializeGoverned(parent, change.contribution, change.dispositions, publication,
                               change.domain, change.profile)
      [] change.kind = "prospective" /\ parent.id # <<>> ->
           MaterializeProspective(parent, change.contribution, change.dispositions, change.pid,
                                  publication, change.domain, change.profile)
      [] OTHER -> Failed

(* A child is in the space of its parent.                                  *)
ChildOf(parent, change) ==
    LET With(g) ==
            IF g = Failed THEN Failed
            ELSE [space |-> IF parent.id = <<>> THEN change.space ELSE parent.space,
                  id |-> Append(parent.id, change.op), graph |-> g,
                  domain |-> change.domain, profile |-> change.profile]
    IN With(GraphAfter(parent, change))

(* The histories that continue some others, whose contents are given, by   *)
(* one publication that can be materialized.                               *)
Longer(contents) ==
    {h \in UNION {{Append(past, o) : o \in Ops} : past \in DOMAIN contents} :
        ChildOf(contents[Front(h)], Change[Last(h)]) # Failed}

(* The contents of the histories of n publications.                        *)
Contents[n \in 0..MaxCalls] ==
    IF n = 0 THEN [h \in {<<>>} |-> NoRevision]
    ELSE LET contents == Contents[n - 1] IN
         [h \in Longer(contents) |-> ChildOf(contents[Front(h)], Change[Last(h)])]

Histories == UNION {DOMAIN Contents[n] : n \in 1..MaxCalls}

ContentOf(h) == Contents[Len(h)][h]

(* Whether an operation can be materialized over a parent: what Sealed of  *)
(* KnowledgeSpaces stands for.                                             *)
Materializes(parent, op) == Append(parent, op) \in Histories

-----------------------------------------------------------------------------
(* What the changes and the sources are like.                              *)

(* A graph is a record of finitely many claims.                            *)
IsGraph(g) ==
    g = [entities |-> g.entities, assertions |-> g.assertions, aliases |-> g.aliases,
         evidence |-> g.evidence]

IsClaim(a) == {"subject", "value"} \subseteq DOMAIN a

IsContent(g) ==
    /\ IsGraph(g) /\ IsFiniteSet(DOMAIN g.assertions)
    /\ \A i \in DOMAIN g.assertions : IsClaim(g.assertions[i])

IsContribution(c) ==
    /\ "items" \in DOMAIN c
    /\ Len(c.items) \in Nat /\ DOMAIN c.items = 1..Len(c.items)
    /\ \A n \in DOMAIN c.items :
         c.items[n].kind \in {"assertion", "supersede"} => IsClaim(c.items[n].assertion)

ASSUME ChangeAssumption ==
    /\ \A o \in Ops :
         /\ Change[o].op = o
         /\ Change[o].kind = "migrate" => IsContent(Change[o].graph)
         /\ Change[o].kind \in {"contribution", "prospective"} =>
              IsContribution(Change[o].contribution)
    /\ \A q \in Requests : Change[q.op].kind = "initialize" \/ Change[q.op].space = q.space
    /\ \A q \in Provisions : /\ Change[q.op].kind = "initialize"
                             /\ ChildOf(NoRevision, Change[q.op]) # Failed
    /\ \A h \in {<<>>} \cup Histories, o \in Ops : Sealed(h, o) => Materializes(h, o)

(* A counter numbers the writes of the source authority.                   *)
IsHistory(history) ==
    /\ Len(history) \in Nat /\ DOMAIN history = 1..Len(history)
    /\ \A n \in DOMAIN history : history[n].generation \in Nat
    /\ \A m, n \in DOMAIN history : m < n => history[m].generation < history[n].generation

ASSUME ReadAssumption ==
    /\ \A i \in DOMAIN Sources.artifacts : IsHistory(Sources.artifacts[i])
    /\ \A i \in DOMAIN Sources.revisions : IsHistory(Sources.revisions[i])
    /\ Epochs \subseteq Nat
    /\ \A p \in Policies : p.kind \in {"always", "exclude", "modes"}
    /\ \A q \in Queries : IsFiniteSet(q.tokens)

-----------------------------------------------------------------------------
(* What is expected of a content, said without the model's own functions.  *)

(* The value of the latest generation up to an epoch, if there is one.     *)
ValueAt(history, e) ==
    LET old == {n \in DOMAIN history : history[n].generation <= e} IN
    IF old = {} THEN Failed
    ELSE history[CHOOSE n \in old :
                   \A m \in old : history[m].generation <= history[n].generation].value

Known(histories, i, e) == IF i \in DOMAIN histories THEN ValueAt(histories[i], e) ELSE Failed

Shows(ctx, v) ==
    v.mode = "public"
    \/ (v.mode = "any" /\ \E l \in v.labels : l \in ctx.request.audience)
    \/ (v.mode = "all" /\ \A l \in v.labels : l \in ctx.request.audience)

(* A piece of evidence a reader may rely on: its artifact is active and    *)
(* shown at the pinned epoch, its revision one of that artifact, and both  *)
(* are described by what the domain declares.                              *)
Reliable(ctx, v) ==
    LET e == ctx.revision.graph.evidence[v]
        domain == ctx.revision.domain
        artifact == Known(Sources.artifacts, e.artifact, ctx.view.epoch)
    IN /\ v \in DOMAIN ctx.revision.graph.evidence
       /\ artifact # Failed
       /\ artifact.status = "active" /\ Shows(ctx, artifact.visibility)
       /\ DeclaredLabels(artifact.visibility, domain.labels)
       /\ e.schemas \cup artifact.schemas \subseteq domain.sources
       /\ \A r \in e.revision :
            LET text == Known(Sources.revisions, r, ctx.view.epoch) IN
            text # Failed /\ text.artifact = e.artifact

(* An assertion a reader is entitled to.                                   *)
Entitled(ctx) ==
    LET g == ctx.revision.graph IN
    {i \in DOMAIN g.assertions :
        LET a == g.assertions[i] IN
        /\ a.standing \in ctx.request.standing
        /\ IF a.scope = {} THEN ctx.request.unscoped
           ELSE \A b \in a.scope : b \in ctx.request.bindings \/ b[1] \in ctx.request.wildcards
        /\ Shows(ctx, a.visibility)
        /\ \A v \in a.evidence : Reliable(ctx, v)
        /\ ctx.policy.kind = "modes" => a.mode \in ctx.policy.of
        /\ ctx.policy.kind = "exclude" => i \notin ctx.policy.of
        /\ DomainPasses(a, ctx.revision.domain) /\ ProfilePasses(a, ctx.revision.profile)}

ContextsOf(revision) ==
    {ctx \in [revision : {revision}, request : Readers, policy : Policies,
              view : [artifacts : {Sources.artifacts}, revisions : {Sources.revisions},
                      epoch : Epochs]] :
        Opens(ctx.request, ctx.policy, revision, revision.domain, revision.profile)}

Contexts(h) == ContextsOf(ContentOf(h))

(* How far entitled references lead from some entities: within 0, 1 and 2. *)
Within(ctx, seeds, n) ==
    LET g == ctx.revision.graph
        edges == {EndsOf(g.assertions[i]) :
                    i \in {j \in Entitled(ctx) : g.assertions[j].value.kind = "entity"}}
        Around(s) == s \cup UNION {ends \in edges : ends \cap s # {}}
    IN CASE n = 0 -> seeds \cap g.entities
         [] n = 1 -> Around(seeds \cap g.entities)
         [] n = 2 -> Around(Around(seeds \cap g.entities))

EntitiesServed(ctx) ==
    LET g == ctx.revision.graph IN
    /\ \A e \in g.entities :
         LET about == {i \in Entitled(ctx) : g.assertions[i].subject = e}
             touch == {i \in Entitled(ctx) : e \in EndsOf(g.assertions[i])}
             whole == GetCompleteEntity(ctx, e)
         IN /\ GetEntity(ctx, e).assertions = about
            /\ whole.assertions = touch
            /\ whole.related = (UNION {EndsOf(g.assertions[i]) : i \in touch}) \ {e}
            /\ \A v \in whole.evidence : Reliable(ctx, v)
    /\ ListEntities(ctx) = UNION {EndsOf(g.assertions[i]) : i \in Entitled(ctx)}

NeighborsServed(ctx) ==
    \A e \in ctx.revision.graph.entities : \A d \in {1, 2} :
        LET walk == GetNeighborhood(ctx, {e}, d) IN
        /\ DOMAIN walk.depth = Within(ctx, {e}, d)
        /\ \A f \in DOMAIN walk.depth : \A n \in {0, 1, 2} :
             walk.depth[f] <= n <=> f \in Within(ctx, {e}, IF n < d THEN n ELSE d)

Matches(a, query) ==
    \/ a.predicate = query.predicate
    \/ IsTerm(a, query.term)
    \/ a.value.kind = "literal" /\ a.value.of \cap query.tokens # {}

HitsServed(ctx) ==
    LET g == ctx.revision.graph
        About(e, query) == {i \in Entitled(ctx) : g.assertions[i].subject = e
                                                  /\ Matches(g.assertions[i], query)}
        Exact(hits, query) ==
            /\ {h.entity : h \in hits} = {e \in g.entities : e = query.raw \/ About(e, query) # {}}
            /\ \A h \in hits : h.assertions = About(h.entity, query)
        First(hits, best) ==
            hits # {} => Len(best) = 1 /\ ~\E h \in hits : Ahead(h, best[1])
    IN \A query \in Queries :
         /\ Exact(Hits(ctx, query), query)
         /\ First(Hits(ctx, query), SearchEntities(ctx, query, 1))

ServedIn == {h \in Histories : \A ctx \in Contexts(h) :
                EntitiesServed(ctx) /\ NeighborsServed(ctx) /\ HitsServed(ctx)}

-----------------------------------------------------------------------------
(* Reads of a native revision.  Whatever sequence of publications made a   *)
(* revision, and at whatever epoch a reader pinned its sources, entity     *)
(* reads, listings, neighborhoods and searches answer from all of the      *)
(* assertions the reader is entitled to and from nothing else: indexes,    *)
(* layers, ranking and snapshots of sources lose and add none, and a       *)
(* neighbor's depth is the shortest way to it.                             *)
ReadsServeTheEntitled == \A s \in Spaces : revisions[s] \subseteq ServedIn

(* The contexts that can meet: an id of a policy stands for one policy.    *)
AnchorsBoundIn(contexts) ==
    \A ctx \in contexts : \A then \in {c \in contexts : c.policy = ctx.policy} :
    \A v \in DOMAIN ctx.revision.graph.evidence :
        LET supported == {i \in Entitled(ctx) : v \in ctx.revision.graph.assertions[i].evidence}
            artifact == ctx.revision.graph.evidence[v].artifact
        IN
        /\ GetEvidence(ctx, v).supporters = supported
        /\ \A anchor \in GetEvidence(ctx, v).anchors :
             Resolves(then, anchor) =>
                /\ then.request = ctx.request
                /\ \E i \in Entitled(then) : v \in then.revision.graph.assertions[i].evidence
                /\ Known(Sources.artifacts, artifact, then.view.epoch)
                   = Known(Sources.artifacts, artifact, ctx.view.epoch)
        /\ OpenText(ctx, v) => Reliable(ctx, v)
        /\ ~ListTexts(ctx).raises => (OpenText(ctx, v) <=> v \in ListTexts(ctx).evidence)

(* The evidence of an assertion is what each of its records shows.         *)
EvidenceShown(ctx) ==
    \A i \in DOMAIN ctx.revision.graph.assertions :
        LET shown == GetAssertionEvidence(ctx, i)
        IN  /\ shown.supporters = {i} \cap Entitled(ctx)
            /\ shown.anchors =
                 IF i \notin Entitled(ctx) THEN {}
                 ELSE UNION {GetEvidence(ctx, v).anchors :
                                v \in ctx.revision.graph.assertions[i].evidence}

AnchoredIn == {h \in Histories : LET contexts == Contexts(h) IN
                  AnchorsBoundIn(contexts) /\ \A ctx \in contexts : EvidenceShown(ctx)}

(* Evidence follows the claims it supports: it is shown to a reader only   *)
(* through an assertion the reader is entitled to.  An anchor that was     *)
(* issued earlier resolves only for the same request and while its source  *)
(* is what it was when the anchor was issued.  A text opens exactly when   *)
(* the catalogue of texts lists it.                                        *)
AnchorsHold == \A s \in Spaces : revisions[s] \subseteq AnchoredIn

-----------------------------------------------------------------------------
ItemsOf(change, verdict) ==
    {change.contribution.items[n] :
        n \in {m \in DOMAIN change.contribution.items :
            \E d \in change.dispositions :
                d.item = change.contribution.items[m].item /\ d.verdict = verdict}}

Merges(change) == {i.decision : i \in {j \in ItemsOf(change, "accepted") :
                                         j.kind = "identity" /\ j.decision.kind = "merge"}}

(* What a contribution may take away and bring, by its accepted items.     *)
Targeted(change) == {i.target : i \in {j \in ItemsOf(change, "accepted") :
                                         j.kind \in {"retract", "supersede"}}}

Brought(change) ==
    {i.id : i \in {j \in ItemsOf(change, "accepted") : j.kind \in {"assertion", "supersede"}}}
    \cup {AllocatedId(change.contribution.space, change.pid, i.op, "assertion") :
            i \in {j \in ItemsOf(change, "accepted") : j.kind = "create assertion"}}

(* What an entity of the parent may have become, by merge after merge.     *)
Becomes(change, e) ==
    LET reach == {e} \cup {d.target : d \in Merges(change)}
        Closed(s) == e \in s /\ \A d \in Merges(change) : d.subjects \cap s # {} => d.target \in s
    IN {f \in reach : \A s \in SUBSET reach : Closed(s) => f \in s}

Accounted(parent, child, change) ==
    LET before == parent.graph.assertions
        after == child.graph.assertions
    IN IF change.kind \in {"extend", "transition"}
       THEN after = before /\ child.graph.aliases = parent.graph.aliases
       ELSE /\ DOMAIN before \ Targeted(change) \subseteq DOMAIN after
            /\ DOMAIN after \subseteq DOMAIN before \cup Brought(change)
            /\ \A i \in (DOMAIN before \cap DOMAIN after) \ Brought(change) :
                 /\ after[i].subject \in Becomes(change, before[i].subject)
                 /\ DOMAIN after[i] = DOMAIN before[i]
                 /\ \A field \in DOMAIN before[i] \ {"subject", "value"} :
                      after[i][field] = before[i][field]
                 /\ after[i].value = before[i].value
                    \/ \E e \in Target(before[i]) : Target(after[i]) \subseteq Becomes(change, e)
            /\ \A e \in parent.graph.entities \ child.graph.entities :
                 \E d \in Merges(change) : e \in d.subjects /\ e # d.target

(* What the readers who read the latest revision are entitled to in one.   *)
Entitling(revision) ==
    UNION {{[reader |-> <<ctx.request, ctx.policy, ctx.view.epoch>>, assertion |-> i] :
                i \in Entitled(ctx)} :
             ctx \in {c \in ContextsOf(revision) : c.request.revision = {}}}

AccountedIn ==
    LET Kept(parent, child, change) ==
            /\ Accounted(parent, child, change)
            /\ DOMAIN parent.graph.evidence \subseteq DOMAIN child.graph.evidence
            /\ change.kind \in {"extend", "transition"} => Entitling(parent) \subseteq Entitling(child)
        From(past, op) == Kept(ContentOf(past), ContentOf(Append(past, op)), Change[op])
    IN {h \in Histories : Len(h) > 1 => From(Front(h), Last(h))}

(* Nothing disappears or changes unaccounted for: from a revision to its   *)
(* child, every claim is kept, its ends only renamed by accepted merges,   *)
(* unless an accepted item retracts or supersedes it; every new claim was  *)
(* brought by an accepted item; no evidence is lost; and evidence          *)
(* extensions and profile transitions leave claims and aliases alone, and  *)
(* hide none of them from any reader.                                      *)
ChangesAccountedFor == \A s \in Spaces : revisions[s] \subseteq AccountedIn
=============================================================================
