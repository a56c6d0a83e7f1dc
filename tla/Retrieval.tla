----------------------------- MODULE Retrieval -----------------------------
(***************************************************************************)
(* The answers of WorldGraphRetrievalService                               *)
(* (application/world_graph_retrieval.py) over one read context: search,   *)
(* neighborhood, object lookups, evidence, source anchors and the source   *)
(* indexes, and the observations that finalized reviews on the revision's  *)
(* parent chain made of a source.                                          *)
(*                                                                         *)
(* A read context is a record: what GraphScope projects from (read), the   *)
(* projection (scoped) and the evidence it has resolved (memo), the        *)
(* revision read, its publications, the newest first (history), and the    *)
(* reviewed observations in them (reviewed).                               *)
(*                                                                         *)
(* Simplifications:                                                        *)
(*  - Ids are numbers, which gives them the order that ties are broken by; *)
(*    an anchor's, a hash, has that of its evidence.                       *)
(*  - A phrase is a set of words, each of which is a token; scores of      *)
(*    object ids and kinds, match reasons and excerpts are left out, and   *)
(*    so are the focus and the locators, which belong to one evidence      *)
(*    record each.                                                         *)
(***************************************************************************)
EXTENDS GraphScope, FiniteSetsExt

LOCAL Largest(S) == Max({0} \cup S)

(* _cap: the first of a set in an order, and whether some are left out.    *)
Cap(S, before(_, _), limit) ==
    [first |-> {x \in S : Cardinality({y \in S : before(y, x)}) < limit},
     cut |-> Cardinality(S) > limit]

ById(a, b) == a.id < b.id

(* As the payload has the properties of one object.                        *)
ByPlace(a, b) == a.place < b.place

-----------------------------------------------------------------------------
(* What the projection tells of an object.                                 *)

Told(scoped, o, kinds) == {a \in scoped.assertions : a.kind \in kinds /\ a.of = o}

LabelOf(scoped, o) == UNION {a.text : a \in Told(scoped, o, {"existence"})}

(* _assertion_rows_for_object, and _selected_object_assertion_rows.        *)
PropertyRows(scoped, objects) == UNION {Told(scoped, o, {"property"}) : o \in objects}

OwnRows(scoped, o) ==
    Told(scoped, o, {"existence", "alias", "summary", "property", "aspect"})

(* _relationships_touching.                                                *)
Touching(scoped, objects) ==
    {a \in EdgesOf(scoped) : {a.ends[1], a.ends[2]} \cap objects # {}}

-----------------------------------------------------------------------------
(* Reviewed observations.                                                  *)

(* _observation_value: an assertion of another kind is passed over, one    *)
(* whose value cannot be read is a gap.                                    *)
Observes(contribution, a) ==
    /\ a.accepted
    /\ a.kind = "attribute" \/ (a.kind = "node" /\ contribution.extraction)

(* Evidence that the projection resolved is remembered with its verdict;   *)
(* other evidence is resolved without regard to genesis.                   *)
Remembered(read, scoped) ==
    UNION {a.evidence : a \in {b \in read.graph.assertions :
        /\ MetadataInScope(read.reader, b)
        /\ IF b.kind = "edge" THEN {b.ends[1], b.ends[2]} \subseteq scoped.objects
           ELSE b.kind = "existence" \/ b.of \in scoped.objects}}

ResolveAgain(view, e) ==
    IF e \in view.memo THEN ResolveEvidence(e, view.read)
    ELSE ResolveEvidence(e, [view.read EXCEPT !.genesis = {}])

(* What becomes of assertion a of the contribution of history[i].          *)
ObservationVerdict(view, i, a) ==
    LET contribution == view.history[i].contribution
        later == UNION {view.history[j].contribution.corrections :
                           j \in {k \in 1 .. i : view.history[k].contribution # None}}
        Corrected(description) == [contribution |-> contribution.id, assertion |-> a.id,
                                   description |-> description] \in later
        verdicts == {ResolveAgain(view, e) : e \in a.evidence}
        cited == {view.read.graph.evidence[e] :
                     e \in {d \in a.evidence : ResolveAgain(view, d) = Valid}}
    IN  CASE \/ ~Observes(contribution, a)
             \/ a.subject \notin view.scoped.objects
             \/ ~MetadataInScope(view.read.reader, a)
             \/ a.shape = "other" -> "passed over"
          [] OTHER ->
             CASE a.shape = "unsupported" -> "unsupported shape"
               [] a.kind = "node" /\ Corrected(TRUE) -> "passed over"
               [] Corrected(FALSE) -> "correction unresolved"
               [] a.evidence = {} -> "evidence invalid"
               [] Hidden \in verdicts -> "passed over"
               [] \E v \in verdicts : v # Valid -> "provenance gap"
               [] \E r \in cited : r.artifact # a.artifact \/ r.revision # a.revision ->
                    "evidence invalid"
               [] OTHER -> "eligible"

(* _reviewed_source_observations of some objects: an assertion id that two *)
(* publications claim is an observation of neither.                        *)
ReviewedObservations(view, subjects) ==
    LET contributed == {k \in 1 .. Len(view.history) : view.history[k].contribution # None}
        claims == UNION {{<<i, a>> : a \in {b \in view.history[i].contribution.assertions :
                                               b.subject \in subjects}} : i \in contributed}
        verdict == [c \in claims |-> ObservationVerdict(view, c[1], c[2])]
        eligible == {c \in claims : verdict[c] = "eligible"}
        Claimed(c) == \E d \in eligible \ {c} : d[2].id = c[2].id
    IN  [found |-> {c[2] : c \in {d \in eligible : ~Claimed(d)}},
         gaps |-> ({verdict[c] : c \in claims} \ {"passed over", "eligible"})
                  \cup {"identity conflict" : c \in {d \in eligible : Claimed(d)}}]

-----------------------------------------------------------------------------
(* Source anchors.                                                         *)

(* derive_source_anchor_id; the record that it hashes.                     *)
AnchorId(view, e) ==
    LET reader == view.read.reader IN
    [world |-> reader.world, campaign |-> reader.campaign, mode |-> reader.mode,
     admissibility |-> reader.admissibility, revision |-> view.revision, evidence |-> e]

(* _resolve_evidence_chains.                                               *)
Chains(view, ids) ==
    LET verdict == [e \in ids |-> ResolveAgain(view, e)] IN
    [valid |-> {e \in ids : verdict[e] = Valid},
     gaps |-> {verdict[e].gap : e \in {d \in ids : verdict[d].verdict = "broken"}}
              \cup {<<"stored provenance invalid", None>> :
                       e \in {d \in ids : verdict[d] \in {Hidden, Unknown}}}]

(* _anchors_from_chains; supports is a set of <<evidence, target>>.        *)
Anchors(view, supports) ==
    LET chains == Chains(view, {s[1] : s \in supports}) IN
    [anchors |-> {[id |-> e, token |-> AnchorId(view, e), source |-> view.read.graph.evidence[e],
                   supporting |-> {s[2] : s \in {t \in supports : t[1] = e}}] :
                     e \in chains.valid},
     gaps |-> chains.gaps]

(* _anchors_for: objects stand for all the evidence they retain.           *)
Supports(view, objects, assertions) ==
    UNION {a.evidence \X {<<"object", a.of>>} :
              a \in UNION {OwnRows(view.scoped, o) : o \in objects \cap view.scoped.objects}}
    \cup UNION {a.evidence \X {<<"assertion", a.id>>} : a \in assertions}

AllAnchors(view, observations) ==
    Anchors(view, Supports(view, view.scoped.objects, view.scoped.assertions \cup observations))

-----------------------------------------------------------------------------
(* Search.                                                                 *)

(* The weight of every token in a text.                                    *)
Tokens(query, text, weight) == weight * Cardinality(query \cap text)

Phrase(query, text, weight) == IF query \subseteq text THEN weight ELSE 0

(* _score_object.                                                          *)
ObjectScore(scoped, o, query) ==
    LET Texts(kind) == {a.text : a \in Told(scoped, o, {kind})}
        label == LabelOf(scoped, o)
        aliases == Texts("alias")
        summary == UNION Texts("summary")
        property == UNION Texts("property")
    IN  CASE query = {} -> 0
          [] query # {} /\ query = label -> 900
          [] query # {} /\ query # label /\ query \in aliases -> 850
          [] OTHER ->
               Largest({Phrase(query, label, 700), Phrase(query, summary, 300),
                        Phrase(query, property, 250),
                        Phrase(query, label \cup summary \cup property \cup UNION aliases, 200)}
                       \cup {Phrase(query, a, 650) : a \in aliases})
               + Tokens(query, label, 100) + Tokens(query, UNION aliases, 90)
               + Tokens(query, property, 60) + Tokens(query, summary, 50)

(* _extend_scores_with_relationships: by the text of a relationship or by  *)
(* the label of its other end.                                             *)
RelationshipScore(scoped, o, query) ==
    LET Score(text) == Phrase(query, text, 160) + Tokens(query, text, 45)
        Other(a, i) == a.text \cup LabelOf(scoped, a.ends[3 - i])
    IN  IF query = {} THEN 0
        ELSE Largest({Score(Other(p[1], p[2])) :
                         p \in {q \in Touching(scoped, {o}) \X {1, 2} : q[1].ends[q[2]] = o}})

(* _score_reviewed_observation.                                            *)
ObservationScore(a, query) ==
    IF query \cap a.text = {} THEN 0
    ELSE Largest({Phrase(query, a.text, 200), Min({250, Tokens(query, a.text, 40)})})

(* resolve_mentions_from_snapshot: a label or an alias that the question   *)
(* names resolves when it is the name of one object.                       *)
Mentions(scoped, query, seeds) ==
    LET Named(kind) == {a \in scoped.assertions :
                           a.kind = kind /\ a.text # {} /\ a.text \subseteq query}
        Outcome(a, kind) ==
            IF \E b \in Named(kind) : b.text = a.text /\ b.of # a.of
            THEN [mention |-> a.text, outcome |-> "ambiguous", object |-> None]
            ELSE [mention |-> a.text, outcome |-> "resolved", object |-> a.of]
    IN  UNION {{Outcome(a, kind) : a \in Named(kind)} : kind \in {"existence", "alias"}}
        \cup {[mention |-> {}, outcome |-> "resolved", object |-> o] :
                 o \in seeds \cap scoped.objects}
        \cup {[mention |-> {}, outcome |-> "rejected", object |-> None] :
                 o \in seeds \ scoped.objects}

(* What a bounded answer holds.                                            *)
Answer(objects, relationships, rows, observations, anchors, cut, gaps, missing) ==
    [found |-> TRUE, objects |-> objects, relationships |-> relationships, rows |-> rows,
     observations |-> observations, anchors |-> anchors, cut |-> cut, gaps |-> gaps,
     missing |-> missing]

Nothing == [Answer({}, {}, {}, {}, {}, {}, {}, {}) EXCEPT !.found = FALSE]

(* Mutant: an answer does not say that anchors are left out.               *)
CutsButAnchors(objects, relationships, rows, anchors) ==
    {f \in {"objects", "relationships", "assertions"} :
        CASE f = "objects" -> objects [] f = "relationships" -> relationships
          [] f = "assertions" -> rows}

(* What an answer reports of its bounds.                                   *)
Cuts(objects, relationships, rows, anchors) ==
    {f \in {"objects", "relationships", "assertions", "anchors"} :
        CASE f = "objects" -> objects [] f = "relationships" -> relationships
          [] f = "assertions" -> rows [] f = "anchors" -> anchors}

(* search: seeds that are in scope survive, the objects that a withheld or *)
(* ambiguous alias names are no candidates, and the rest is ranked.        *)
Search(view, query, seeds, bounds) ==
    LET scoped == view.scoped
        reviewed == IF query = {} THEN [found |-> {}, gaps |-> {}] ELSE view.reviewed
        present == seeds \cap scoped.objects
        score == [o \in scoped.objects |->
            Largest({ObjectScore(scoped, o, query), RelationshipScore(scoped, o, query)}
                    \cup {ObservationScore(a, query) :
                             a \in {b \in reviewed.found : b.subject = o}})]
        blocked == BlockedByOmitted(scoped, query) \cup BlockedByAmbiguous(scoped, query)
        resolved == {m.object : m \in Mentions(scoped, query, seeds)}
        others == {o \in scoped.objects \ present : score[o] > 0 /\ o \notin blocked}
        Before(o, p) ==
            \/ o \in resolved /\ p \notin resolved
            \/ (o \in resolved) = (p \in resolved) /\ score[o] > score[p]
            \/ (o \in resolved) = (p \in resolved) /\ score[o] = score[p] /\ o < p
        best == Cap(others, Before, Max({0, bounds.objects - Cardinality(present)}))
        selected == present \cup best.first
        relationships == Cap(Touching(scoped, selected), ById, bounds.relationships)
        Ranked(o, p) == IF present \cap {o, p} = {} THEN Before(o, p)
                        ELSE o \in present /\ (p \in present => o < p)
        MatchesBefore(a, b) ==
            \/ Ranked(a.subject, b.subject)
            \/ a.subject = b.subject /\ ObservationScore(a, query) > ObservationScore(b, query)
            \/ /\ a.subject = b.subject
               /\ ObservationScore(a, query) = ObservationScore(b, query)
               /\ a.id < b.id
        observations == Cap({a \in reviewed.found : /\ a.subject \in selected
                                                    /\ ObservationScore(a, query) > 0},
                            MatchesBefore, bounds.assertions)
        rows == Cap(PropertyRows(scoped, selected), ById,
                    Max({0, bounds.assertions - Cardinality(observations.first)}))
        all == Anchors(view, Supports(view, selected, relationships.first \cup rows.first
                                                      \cup observations.first))
        anchors == Cap(all.anchors, ById, bounds.anchors)
    IN  Answer(selected, relationships.first, rows.first, observations.first, anchors.first,
               Cuts(best.cut, relationships.cut, rows.cut, anchors.cut)
               \cup (IF observations.cut THEN {"observations"} ELSE {}),
               all.gaps \cup {<<g, None>> : g \in reviewed.gaps}, seeds \ scoped.objects)

-----------------------------------------------------------------------------
(* Neighborhood and lookups.                                               *)

Around(scoped, objects) ==
    objects \cup UNION {{a.ends[1], a.ends[2]} : a \in Touching(scoped, objects)}

(* get_neighborhood: breadth first, one or two steps from the seeds.       *)
Neighborhood(view, seeds, depth, bounds) ==
    LET scoped == view.scoped
        present == seeds \cap scoped.objects
        once == Around(scoped, present)
        reached == IF depth = 1 THEN once ELSE Around(scoped, once)
        crossed == Touching(scoped, IF depth = 1 THEN present ELSE once)
        Before(o, p) == \/ o \in once /\ p \notin once
                        \/ (o \in once) = (p \in once) /\ o < p
        best == Cap(reached \ present, Before, Max({0, bounds.objects - Cardinality(present)}))
        selected == present \cup best.first
        relationships == Cap({a \in crossed : {a.ends[1], a.ends[2]} \subseteq selected},
                             ById, bounds.relationships)
        rows == Cap(PropertyRows(scoped, selected), ById, bounds.assertions)
        all == Anchors(view, Supports(view, selected, relationships.first \cup rows.first))
        anchors == Cap(all.anchors, ById, bounds.anchors)
    IN  Answer(selected, relationships.first, rows.first, {}, anchors.first,
               Cuts(best.cut, relationships.cut, rows.cut, anchors.cut), all.gaps,
               seeds \ scoped.objects)

(* _evidence_miss: the gaps that a reader may be told of.                  *)
Miss(view, targets) ==
    [Nothing EXCEPT !.gaps = UNION {PublicGaps(x[2]) : x \in {y \in view.scoped.excluded :
                                                                 y[1] \in targets}}]

Existences(view, o) == {a \in view.read.graph.assertions : a.kind = "existence" /\ a.of = o}

(* get_object.                                                             *)
LookUp(view, o, bounds) ==
    LET scoped == view.scoped
        relationships == Cap(Touching(scoped, {o}), ById, bounds.relationships)
        rows == Cap(PropertyRows(scoped, {o}), ByPlace, bounds.assertions)
        all == Anchors(view, Supports(view, {o}, relationships.first \cup rows.first))
        anchors == Cap(all.anchors, ById, bounds.anchors)
    IN  IF o \notin scoped.objects THEN Miss(view, Existences(view, o))
        ELSE Answer({o}, relationships.first, rows.first, {}, anchors.first,
                    Cuts(FALSE, relationships.cut, rows.cut, anchors.cut), all.gaps, {})

(* get_complete_object: all there is, or an explicit miss.                 *)
LookUpComplete(view, o) ==
    LET scoped == view.scoped
        relationships == Touching(scoped, {o})
        related == Around(scoped, {o}) \cap scoped.objects
        reviewed == ReviewedObservations(view, {o})
        all == Anchors(view, Supports(view, related,
                                      relationships \cup OwnRows(scoped, o) \cup reviewed.found))
    IN  IF o \notin scoped.objects THEN Miss(view, Existences(view, o))
        ELSE Answer(related, relationships, OwnRows(scoped, o), reviewed.found, all.anchors,
                    IF Around(scoped, {o}) = related THEN {} ELSE {"related objects"},
                    all.gaps \cup {<<g, None>> : g \in reviewed.gaps}, {})

(* The assertions that a target stands for, of a set of them.              *)
OfTarget(target, assertions) ==
    {a \in assertions :
        CASE target[1] = "object" -> a.kind # "edge" /\ a.of = target[2]
          [] target[1] = "relationship" -> a.kind = "edge" /\ a.id = target[2]
          [] target[1] = "assertion" -> a.id = target[2]}

(* get_evidence.                                                           *)
EvidenceFor(view, target, limit) ==
    LET standing == OfTarget(target, view.scoped.assertions)
        all == Anchors(view, (UNION {a.evidence : a \in standing}) \X {target})
        anchors == Cap(all.anchors, ById, limit)
    IN  IF standing = {}
        THEN Miss(view, {a \in OfTarget(target, view.read.graph.assertions) :
                            target[1] = "object" => a.kind = "existence"})
        ELSE Answer({}, {}, {}, {}, anchors.first, Cuts(FALSE, FALSE, FALSE, anchors.cut),
                    all.gaps, {})

-----------------------------------------------------------------------------
(* Sources: anchors back to their context, and what a source supports.     *)

(* resolve_source_anchors: every anchor of the context is derived anew.    *)
ResolveAnchor(view, token) ==
    LET found == {a \in AllAnchors(view, view.reviewed.found).anchors :
                     a.token = token}
    IN  [Nothing EXCEPT !.found = found # {}, !.anchors = found]

(* resolve_anchors of a session, which holds the anchors of one source.    *)
ResolveInSession(view, pair, token) ==
    LET found == {a \in ResolveAnchor(view, token).anchors :
                     <<a.source.artifact, a.source.revision>> = pair}
    IN  [Nothing EXCEPT !.found = found # {}, !.anchors = found]

(* list_source_anchor_index, for the GM: complete, or how many there are.  *)
AnchorIndex(view, limit) ==
    LET eligible == {a \in AllAnchors(view, {}).anchors :
                        a.source.opens /\ a.source.revision # None}
    IN  [Nothing EXCEPT !.found = Cardinality(eligible) <= limit,
                        !.anchors = IF Cardinality(eligible) <= limit THEN eligible ELSE {},
                        !.cut = IF Cardinality(eligible) <= limit THEN {} ELSE {"anchors"}]

(* list_selected_source_anchor_index: of the targets that can be seen.     *)
SelectedIndex(view, targets, limit) ==
    LET admitted == {t \in targets : OfTarget(t, view.scoped.assertions) # {}}
        all == Anchors(view, UNION {UNION {a.evidence \X {t} :
                  a \in OfTarget(t, view.scoped.assertions)} : t \in admitted})
        eligible == {a \in all.anchors : a.source.opens /\ a.source.revision # None}
    IN  [Nothing EXCEPT !.found = eligible # {} /\ Cardinality(eligible) <= limit,
                        !.anchors = IF Cardinality(eligible) <= limit THEN eligible ELSE {},
                        !.cut = IF Cardinality(eligible) <= limit THEN {} ELSE {"anchors"},
                        !.missing = targets \ admitted]

(* _admitted_recap_source_pairs, each an entry of the context index.       *)
RecapPairs(view) ==
    {<<a.source.artifact, a.source.revision>> :
        a \in {b \in AllAnchors(view, view.reviewed.found).anchors :
            /\ b.source.opens
            /\ b.source.revision # None
            /\ view.read.sources.artifacts[b.source.artifact] # None
            /\ view.read.sources.revisions[b.source.revision] = b.source.artifact
            /\ LET artifact == view.read.sources.artifacts[b.source.artifact]
                   reader == view.read.reader
               IN  /\ artifact.domain = "session recap"
                   /\ artifact.world = reader.world
                   /\ reader.mode = "campaign" => artifact.campaign = reader.campaign
                   /\ reader.mode = "world" => artifact.campaign = None}}

(* _derive_context_anchor_id, in two versions which differ by the selector *)
(* of the section: the record that it hashes.                              *)
ContextAnchorId(view, reader, pair, selector) ==
    [reader |-> reader, revision |-> view.revision, pair |-> pair, selector |-> selector,
     campaign |-> view.read.sources.artifacts[pair[1]].campaign]

ContextAnchors(view, selector) ==
    {[token |-> ContextAnchorId(view, view.read.reader, pair, selector), pair |-> pair] :
        pair \in RecapPairs(view)}

ContextIndex(view, limit) ==
    LET pairs == {x.pair : x \in ContextAnchors(view, "v1")} IN
    [Nothing EXCEPT !.found = Cardinality(pairs) <= limit,
                    !.rows = IF Cardinality(pairs) <= limit THEN pairs ELSE {},
                    !.cut = IF Cardinality(pairs) <= limit THEN {} ELSE {"context"}]

(* resolve_source_context: the token says which selector describes it, and *)
(* a caller asks for the second one.                                       *)
ResolveContext(view, token, allowed) ==
    LET found == {x \in ContextAnchors(view, token.selector) : x.token = token} IN
    IF token.selector \in allowed
    THEN [Nothing EXCEPT !.found = found # {}, !.rows = {x.pair : x \in found}]
    ELSE Nothing

OfPair(view, pair) ==
    {a \in view.reviewed.found : <<a.artifact, a.revision>> = pair}

ObservationAnchors(view, observations) ==
    Anchors(view, Supports(view, {}, observations))

(* select_reviewed_source_observations: all of them, with every anchor of  *)
(* theirs, and within the limit, or none.                                  *)
SelectObservations(view, pair, ids, limit) ==
    LET selected == {a \in OfPair(view, pair) : a.id \in ids}
        anchors == ObservationAnchors(view, selected).anchors
        unavailable == (ids \ {a.id : a \in selected})
            \cup {a.id : a \in {b \in selected : \E e \in b.evidence :
                     ~\E x \in anchors : x.id = e /\ <<x.source.artifact, x.source.revision>> = pair}}
    IN  CASE unavailable # {} -> [Nothing EXCEPT !.missing = unavailable]
          [] unavailable = {} /\ Cardinality(ids) > limit -> [Nothing EXCEPT !.cut = {"bytes"}]
          [] OTHER -> Answer({a.subject : a \in selected}, {}, {}, selected, anchors, {}, {}, {})

(* Mutant: a cursor does not commit to the listing it continues.           *)
CommitmentToContext(view, pair, size) ==
    [reader |-> view.read.reader, revision |-> view.revision, pair |-> pair, size |-> size,
     eligible |-> {}]

(* What a cursor commits to: the context and the whole listing.            *)
Commitment(view, pair, size) ==
    [reader |-> view.read.reader, revision |-> view.revision, pair |-> pair, size |-> size,
     eligible |-> OfPair(view, pair)]

Listing(view, pair) ==
    SetToSortSeq(OfPair(view, pair),
                 LAMBDA a, b : a.subject < b.subject \/ (a.subject = b.subject /\ a.id < b.id))

(* discover_reviewed_source_observations: a page of the listing; cursor is *)
(* None for the first.                                                     *)
CursorValid(view, pair, size, cursor) ==
    cursor # None =>
        /\ cursor.commitment = Commitment(view, pair, size)
        /\ cursor.offset > 0
        /\ cursor.offset < Cardinality(OfPair(view, pair))
        /\ cursor.offset % size = 0

Page(view, pair, size, cursor) ==
    LET listing == Listing(view, pair)
        offset == IF cursor = None THEN 0 ELSE cursor.offset
        end == Min({offset + size, Len(listing)})
    IN  [entries |-> SubSeq(listing, offset + 1, end),
         next |-> IF end < Len(listing)
                  THEN [commitment |-> Commitment(view, pair, size), offset |-> end]
                  ELSE None]
=============================================================================
