------------------------ MODULE ReviewMaterialization ------------------------
(***************************************************************************)
(* The graph that a finalized review makes of its parent graph             *)
(* (application/review_materialization.py for version 1 and schema 3,      *)
(* review_materialization_v6.py for versions 2 and 3, _v4.py for version   *)
(* 4), with the proof that withdraws descriptions                          *)
(* (source_description_correction.py) and the evidence a publication       *)
(* validates again.  A review that cannot be materialized gives Failed.    *)
(*                                                                         *)
(* The assertion ids of a graph are tuples: the assertion n of a review is *)
(* <<n>>, the alias a new node is given <<n, text>>, and an adopted        *)
(* assertion (ka:) has first component 0.                                  *)
(*                                                                         *)
(* Simplifications: the order of rows in a payload, sessions, temporal     *)
(* scopes and URIs are left out; every artifact is of the one world.       *)
(***************************************************************************)
EXTENDS GraphReaders

CONSTANTS
    SourceArtifacts,    \* [artifact -> [campaign, domain, key]]
    SourceRevisions,    \* [revision -> artifact]
    Failed

Put(f, k, v) == [i \in DOMAIN f \cup {k} |-> IF i = k THEN v ELSE f[i]]

Joined(f, g) == [i \in DOMAIN f \cup DOMAIN g |-> IF i \in DOMAIN f THEN f[i] ELSE g[i]]

Without(f, S) == [k \in DOMAIN f \ S |-> f[k]]

Mutates(a) == a.outcome \notin NonMutating

(* Mutant: every assertion of the reviewed contribution is taken.          *)
AcceptedAll(c) == AssertionsOf(c)

AcceptedOf(c) == {a \in AssertionsOf(c) : a.state = "accepted"}

IdsIn(records) == {e.id : e \in records}

OnePerId(records) == \A e, f \in records : e.id = f.id => e = f

ById(records) == [k \in IdsIn(records) |-> CHOOSE e \in records : e.id = k]

EvidenceClaims(g) == DOMAIN g.evidence

-----------------------------------------------------------------------------
(* Version 1, schema 3.                                                    *)

About(s, x, kind) == {a \in AcceptedOf(s.reviewed) : a.kind = kind /\ a.subject = x}

RelationshipsOf(s) == {a \in AcceptedOf(s.reviewed) : a.kind = "relationship"}

EvidenceV3(s) == UNION {a.evidence : a \in AcceptedOf(s.reviewed)}

CarriesEvidence(s) ==
    /\ \A a \in AcceptedOf(s.reviewed) : a.evidence # {}
    /\ OnePerId(EvidenceV3(s))
    /\ \A a \in AcceptedOf(s.reviewed) : a.kind \in NodeKindsV1 => a.subject \in Targets(s.record)

(* The ids a review brings are new to its parent graph.                    *)
NoCollision(s, g) ==
    /\ {<<a.id>> : a \in {b \in AcceptedOf(s.reviewed) : b.kind \in {"alias", "summary"}}}
          \cap ClaimedIds(g) = {}
    /\ IdsIn(EvidenceV3(s)) \cap EvidenceClaims(g) = {}

Confirmed(s) ==
    {p \in ToSet(s.record.proposals) : VerdictOn(s.record, p.target) # "reject_candidate"}

CreatesNew(s, x) == VerdictOn(s.record, x) = "create_new"

(* What is said of an object fits the graph it is said of.                 *)
TargetFits(s, g, p) ==
    LET x == p.target
        aliases == {a.text.fold : a \in About(s, x, "alias")}
    IN  /\ CreatesNew(s, x) => x \notin DOMAIN g.objects /\ Cardinality(About(s, x, "label")) = 1
        /\ ~CreatesNew(s, x) =>
             /\ x \in DOMAIN g.objects
             /\ g.objects[x].kind = p.kind
             /\ Cardinality(About(s, x, "label")) <= 1
             /\ aliases \cap {a.text.fold : a \in g.objects[x].aliases} = {}
        /\ Cardinality(About(s, x, "summary")) <= 1
        /\ Cardinality(aliases) = Cardinality(About(s, x, "alias"))

Said(a) == [id |-> <<a.id>>, text |-> a.text, evidence |-> IdsIn(a.evidence)]

(* A label replaces the label and its evidence, a summary the summary; the *)
(* aliases are added.                                                      *)
ObjectV3(s, g, p) ==
    LET x == p.target
        old == IF CreatesNew(s, x)
               THEN [kind |-> p.kind, label |-> NoText, id |-> NoId, evidence |-> {},
                     aliases |-> {}, summary |-> {}, properties |-> {}, aspects |-> {}]
               ELSE g.objects[x]
        label == About(s, x, "label")
        summary == About(s, x, "summary")
    IN  [old EXCEPT
            !.label = IF label = {} THEN @ ELSE (CHOOSE a \in label : TRUE).text,
            !.evidence = IF label = {} THEN @ ELSE UNION {IdsIn(a.evidence) : a \in label},
            !.aliases = @ \cup {Said(a) : a \in About(s, x, "alias")},
            !.summary = IF summary = {} THEN @ ELSE {Said(a) : a \in summary}]

Triple(k) == <<k.subject, k.predicate, k.object>>

TriplesIn(g) == {Triple(g.links[k]) : k \in DOMAIN g.links}

RelationshipId(s, a) == "rel:" \o s.record.review \o "/" \o ToString(a.id)

RelationshipsFit(s, g) ==
    LET objects == DOMAIN g.objects \cup {p.target : p \in Confirmed(s)}
    IN  /\ \A a \in RelationshipsOf(s) :
             /\ Triple(a) \notin TriplesIn(g)
             /\ {a.subject, a.object} \subseteq objects
             /\ RelationshipId(s, a) \notin DOMAIN g.links
        /\ \A a, b \in RelationshipsOf(s) : Triple(a) = Triple(b) => a = b

LinkV3(a) ==
    [id |-> NoId, subject |-> a.subject, object |-> a.object, predicate |-> a.predicate,
     evidence |-> IdsIn(a.evidence), ends |-> <<NoId, NoId>>]

MaterializeV3(s, g) ==
    LET child == [g EXCEPT
            !.objects = Joined([x \in {p.target : p \in Confirmed(s)} |->
                ObjectV3(s, g, CHOOSE p \in Confirmed(s) : p.target = x)], @),
            !.links = Joined([k \in {RelationshipId(s, a) : a \in RelationshipsOf(s)} |->
                LinkV3(CHOOSE a \in RelationshipsOf(s) : RelationshipId(s, a) = k)], @),
            !.evidence = Joined(ById(EvidenceV3(s)), @)]
    IN  IF /\ ReadableV3(g)
           /\ CarriesEvidence(s) /\ NoCollision(s, g)
           /\ \A p \in Confirmed(s) : TargetFits(s, g, p)
           /\ RelationshipsFit(s, g)
           /\ ReadableV3(child)
        THEN child ELSE Failed

-----------------------------------------------------------------------------
(* Schema 6: the evidence of an assertion.                                 *)

SourceKnown(e) ==
    /\ e.artifact \in DOMAIN SourceArtifacts
    /\ e.revision # Absent =>
         e.revision \in DOMAIN SourceRevisions /\ SourceRevisions[e.revision] = e.artifact

DomainsAgree(e) ==
    /\ e.key = SourceArtifacts[e.artifact].key
    /\ e.domain = SourceArtifacts[e.artifact].domain

(* _lift_evidence.  Evidence of version 2 carries the domain only.         *)
Liftable(version, a) ==
    /\ \A e \in a.evidence :
         /\ SourceKnown(e)
         /\ version = 2 => e.domain = SourceArtifacts[e.artifact].domain
         /\ version > 2 =>
              /\ DomainsAgree(e)
              /\ SourceArtifacts[e.artifact].campaign = a.campaign
              /\ a.artifact \in {Absent, e.artifact}
              /\ a.revision \in {Absent, e.revision}
    /\ OnePerId(a.evidence)

Lifted(version, a) ==
    IF version = 2 THEN {[e EXCEPT !.key = SourceArtifacts[e.artifact].key] : e \in a.evidence}
    ELSE a.evidence

FallbackKinds == {"node", "edge", "alias", "attribute"}

FirstOf(x, y) == IF x = Absent THEN y ELSE x

(* An assertion with a source and no evidence is given evidence of its own.*)
Fallback(c, a, place) ==
    LET artifact == FirstOf(a.artifact, c.artifact)
        known == artifact \in DOMAIN SourceArtifacts
    IN  [id |-> "evidence:" \o c.id \o ":" \o place, artifact |-> artifact,
         revision |-> FirstOf(a.revision, c.revision),
         domain |-> IF known THEN SourceArtifacts[artifact].domain ELSE Absent,
         key |-> IF known THEN SourceArtifacts[artifact].key ELSE "manual_seed",
         role |-> "support", span |-> FALSE]

EvidenceAdmitted(s, a, place) ==
    IF a.evidence # {} THEN Liftable(s.record.version, a)
    ELSE a.kind \in FallbackKinds /\ SourceKnown(Fallback(s.reviewed, a, place))

AssertionEvidence(s, a, place) ==
    IF a.evidence # {} THEN Lifted(s.record.version, a)
    ELSE {Fallback(s.reviewed, a, place)}

-----------------------------------------------------------------------------
(* Schema 6: one assertion after the other is applied to a workspace, the  *)
(* graph with ok, which is FALSE once an assertion failed.                 *)

Workspace(g) == [ok |-> TRUE, objects |-> g.objects, links |-> g.links, evidence |-> g.evidence]

Fail(w) == [w EXCEPT !.ok = FALSE]

Registers(w, records) ==
    \A e \in records : e.id \in DOMAIN w.evidence => w.evidence[e.id] = e

Register(w, records) == [w EXCEPT !.evidence = Joined(@, ById(records))]

(* Of texts with the same casefold the first is taken.                     *)
FirstTexts(texts) ==
    {texts[i] : i \in {j \in DOMAIN texts :
        texts[j] # NoText /\ \A k \in 1..(j - 1) : texts[k].fold # texts[j].fold}}

NewAliases(a, texts, ids) ==
    {[id |-> <<a.id, t.shown>>, text |-> t, evidence |-> ids] : t \in texts}

Folds(o) == {f.text.fold : f \in o.aliases}

LabelOf(a) == IF a.text = NoText THEN [fold |-> a.subject, shown |-> a.subject] ELSE a.text

NodeV6(a, ids) ==
    [kind |-> a.dmKind, label |-> LabelOf(a), id |-> <<a.id>>, evidence |-> ids,
     aliases |-> NewAliases(a, FirstTexts(IF a.aliases = <<>> THEN <<LabelOf(a)>> ELSE a.aliases),
                            ids),
     summary |-> {}, properties |-> {}, aspects |-> {}]

(* A node that exists gains aliases and evidence; its kind and its label   *)
(* stay.                                                                   *)
MergeNode(o, a, ids) ==
    [o EXCEPT !.aliases = @ \cup NewAliases(a, {t \in FirstTexts(a.aliases) : t.fold \notin Folds(o)},
                                            ids),
              !.evidence = @ \cup ids]

ApplyNode(s, w, a) ==
    LET x == a.subject
        records == AssertionEvidence(s, a, x)
        ids == IdsIn(records)
        exists == x \in DOMAIN w.objects
    IN  IF /\ VerdictOn(s.record, x) = "create_new" => ~exists
           /\ VerdictOn(s.record, x) = "confirm_existing" => exists
           /\ EvidenceAdmitted(s, a, x)
           /\ Registers(w, records)
           /\ exists \/ a.dmKind # Absent
        THEN [Register(w, records) EXCEPT !.objects =
                Put(@, x, IF exists THEN MergeNode(@[x], a, ids) ELSE NodeV6(a, ids))]
        ELSE Fail(w)

EdgeId(a) ==
    IF a.edge = Absent THEN "edge:" \o a.subject \o ":" \o a.predicate \o ":" \o a.object
    ELSE a.edge

LinkV6(a, ids) ==
    [id |-> <<a.id>>, subject |-> a.subject, object |-> a.object, predicate |-> a.dmPredicate,
     evidence |-> ids, ends |-> <<NoId, NoId>>]

(* An edge that exists is applied again only if it is the same assertion.  *)
ApplyEdge(s, w, a) ==
    LET k == EdgeId(a)
        records == AssertionEvidence(s, a, k)
        new == LinkV6(a, IdsIn(records))
    IN  IF /\ a.dmPredicate # Absent
           /\ {a.subject, a.object} \subseteq DOMAIN w.objects
           /\ EvidenceAdmitted(s, a, k)
           /\ Registers(w, records)
           /\ k \in DOMAIN w.links => [w.links[k] EXCEPT !.ends = new.ends] = new
        THEN [Register(w, records) EXCEPT !.links = IF k \in DOMAIN @ THEN @ ELSE Put(@, k, new)]
        ELSE Fail(w)

(* Mutant: the evidence of an alias becomes the evidence of its object.    *)
ApplyAliasForgetting(s, w, a) ==
    LET x == a.subject
        records == AssertionEvidence(s, a, x)
        ids == IdsIn(records)
    IN  IF x \in DOMAIN w.objects /\ EvidenceAdmitted(s, a, x)
        THEN [Register(w, records) EXCEPT !.objects[x].evidence = ids,
                !.objects[x].aliases =
                    @ \cup {[id |-> <<a.id>>, text |-> a.text, evidence |-> ids]}]
        ELSE Fail(w)

(* An alias the object has, but for its case, changes nothing.             *)
ApplyAlias(s, w, a) ==
    LET x == a.subject
        records == AssertionEvidence(s, a, x)
        ids == IdsIn(records)
    IN  CASE a.text = NoText \/ x \notin DOMAIN w.objects -> Fail(w)
          [] a.text # NoText /\ x \in DOMAIN w.objects ->
             IF a.text.fold \in Folds(w.objects[x]) THEN w
             ELSE IF EvidenceAdmitted(s, a, x) /\ Registers(w, records)
             THEN [Register(w, records) EXCEPT
                     !.objects[x].aliases =
                         @ \cup {[id |-> <<a.id>>, text |-> a.text, evidence |-> ids]},
                     !.objects[x].evidence = @ \cup ids]
             ELSE Fail(w)

(* An attribute, or evidence alone, leaves only its evidence.              *)
ApplyEvidenceOnly(s, w, a) ==
    LET place == IF a.subject = Absent THEN "assertion:" \o ToString(a.id) ELSE a.subject
        records == AssertionEvidence(s, a, place)
    IN  IF /\ a.kind = "attribute" => a.subject # Absent
           /\ EvidenceAdmitted(s, a, place)
           /\ Registers(w, records)
        THEN Register(w, records) ELSE Fail(w)

PropertyV4(a, ids) == [id |-> <<a.id>>, term |-> a.term, literal |-> a.literal, evidence |-> ids]

ApplyProperty(s, w, a) ==
    LET x == a.subject
        records == AssertionEvidence(s, a, x)
    IN  IF x \in DOMAIN w.objects /\ EvidenceAdmitted(s, a, x) /\ Registers(w, records)
        THEN [Register(w, records) EXCEPT !.objects[x].properties =
                @ \cup {PropertyV4(a, IdsIn(records))}]
        ELSE Fail(w)

Apply(s, w, a) ==
    CASE a.kind = "node" -> ApplyNode(s, w, a)
      [] a.kind = "edge" -> ApplyEdge(s, w, a)
      [] a.kind = "alias" -> ApplyAlias(s, w, a)
      [] a.kind \in {"attribute", "evidence_ref"} -> ApplyEvidenceOnly(s, w, a)
      [] a.kind = "property" -> ApplyProperty(s, w, a)

-----------------------------------------------------------------------------
(* Corrections, after every assertion.                                     *)

AdoptedId(id) == id[1] = 0

(* What the target of a correction leaves of an object.                    *)
Corrected(o, target) ==
    LET rest(F) == {f \in F : f.id # target}
    IN  [o EXCEPT !.aliases = rest(@), !.summary = rest(@), !.properties = rest(@),
                  !.aspects = rest(@)]

(* The description a proof admits stays in the graph: it is withdrawn for  *)
(* its readers.  Anything else a correction names is removed; it is never  *)
(* the existence of an object nor an adopted assertion.                    *)
ApplyCorrection(w, x, proof) ==
    LET said == {y \in DOMAIN w.objects : \E f \in Facets(w.objects[y]) : f.id = x.target}
        linked == {k \in DOMAIN w.links : w.links[k].id = x.target}
    IN  CASE x.kind = Withdrawal ->
             IF [contribution |-> x.contribution, target |-> x.target] \in proof
             THEN w ELSE Fail(w)
          [] x.kind # Withdrawal ->
             IF /\ ~AdoptedId(x.target)
                /\ \A y \in DOMAIN w.objects : w.objects[y].id # x.target
                /\ said \cup linked # {}
             THEN [w EXCEPT
                     !.objects = [y \in DOMAIN @ |-> Corrected(@[y], x.target)],
                     !.links = Without(@, linked)]
             ELSE Fail(w)

(* What fails stops the rest.                                              *)
ApplyCorrections(s, w, proof) ==
    LET Then(u, x) == IF u.ok THEN ApplyCorrection(u, x, proof) ELSE u
        after[n \in 0..Len(s.reviewed.corrections)] ==
            IF n = 0 THEN w ELSE Then(after[n - 1], s.reviewed.corrections[n])
    IN  after[Len(s.reviewed.corrections)]

(* Of the assertions of a review those that are taken, in their order.     *)
ApplyAll(s, w, taken) ==
    LET Then(u, a) == IF u.ok THEN Apply(s, u, a) ELSE u
        after[n \in 0..Len(s.reviewed.assertions)] ==
            IF n = 0 THEN w
            ELSE IF s.reviewed.assertions[n] \in taken
            THEN Then(after[n - 1], s.reviewed.assertions[n])
            ELSE after[n - 1]
    IN  after[Len(s.reviewed.assertions)]

GraphOf(w) == [schema |-> 6, objects |-> w.objects, links |-> w.links, evidence |-> w.evidence]

CorrectedIds(s) ==
    {x.target : x \in {y \in ToSet(s.reviewed.corrections) : y.kind # Withdrawal}}

(* The result is read again before it is given out.                        *)
Result(s, w) ==
    IF w.ok /\ ReadableV6(GraphOf(w)) /\ CorrectedIds(s) \cap ClaimedIds(GraphOf(w)) = {}
    THEN GraphOf(w) ELSE Failed

(* Versions 2 and 3: the mechanics screen is before the outcome that skips *)
(* an assertion.                                                           *)
MaterializeV6(s, g, proof) ==
    LET applied == {a \in AcceptedOf(s.reviewed) : Mutates(a)}
    IN  IF /\ ReadableV6(g)
           /\ \A a \in AcceptedOf(s.reviewed) : ~a.mechanics
           /\ \A a \in applied : a.kind \in ReviewableKinds(2)
        THEN Result(s, ApplyCorrections(s, ApplyAll(s, Workspace(g), applied), proof))
        ELSE Failed

(* Version 4.                                                              *)

PropertyIds(g) == UNION {IdsIn(g.objects[x].properties) : x \in DOMAIN g.objects}

GeneratedIds(s) ==
    UNION {{<<a.id>>} \cup
           (IF a.kind = "node"
            THEN {f.id : f \in NewAliases(a, FirstTexts(IF a.aliases = <<>> THEN <<LabelOf(a)>>
                                                        ELSE a.aliases), {})}
            ELSE {}) : a \in {b \in AcceptedOf(s.reviewed) : Mutates(b)}}

Preflight(s, g) ==
    LET properties == PropertyIds(g) \cup
            {<<a.id>> : a \in {b \in AssertionsOf(s.reviewed) : b.kind = "property"}}
    IN  /\ ClaimedOnce(g)
        /\ \A x \in ToSet(s.reviewed.corrections) : {x.target, x.replacement} \cap properties = {}
        /\ {<<a.id>> : a \in AssertionsOf(s.reviewed)} \cap ClaimedIds(g) = {}
        /\ GeneratedIds(s) \cap ClaimedIds(g) = {}

(* validate_reviewed_property_delta_v4: the properties of the child are    *)
(* its parent's and those that were accepted; the publication asks again.  *)
PropertyDelta(s, g, child) ==
    LET accepted == {a \in AcceptedOf(s.reviewed) : a.kind = "property" /\ Mutates(a)}
        created == {a.subject : a \in {b \in AcceptedOf(s.reviewed) :
                        b.kind = "node" /\ b.outcome = "created_new"}}
        before(x) == IF x \in DOMAIN g.objects THEN g.objects[x].properties ELSE {}
        added(x) == {PropertyV4(a, IdsIn(a.evidence)) : a \in {b \in accepted : b.subject = x}}
    IN  /\ \A a \in accepted : a.subject \in DOMAIN g.objects \cup created
        /\ \A x \in DOMAIN child.objects : child.objects[x].properties = before(x) \cup added(x)

(* The nodes are applied first, wherever they stand.                       *)
MaterializeV4(s, g, proof) ==
    LET applied == {a \in AcceptedOf(s.reviewed) : Mutates(a)}
        nodes == {a \in applied : a.kind = "node"}
        made == ApplyAll(s, ApplyAll(s, Workspace(g), nodes), applied \ nodes)
        child == Result(s, ApplyCorrections(s, made, proof))
    IN  IF /\ ReadableV6(g) /\ Preflight(s, g)
           /\ \A a \in applied : ~a.mechanics /\ a.kind \in ReviewableKinds(4)
           /\ child # Failed /\ PropertyDelta(s, g, child)
        THEN child ELSE Failed

-----------------------------------------------------------------------------
(* The proof that admits the withdrawal of descriptions: the pairs of      *)
(* contribution and assertion it was verified for.  published are the      *)
(* review states published by the ancestors of the parent, newest first.   *)

Withdrawals(s) == {x \in ToSet(s.reviewed.corrections) : x.kind = Withdrawal}

Pair(x) == [contribution |-> x.contribution, target |-> x.target]

(* The review a withdrawal is about: of the same version, or of version 3. *)
Describes(s, prior, x) ==
    /\ prior.reviewed.id = x.contribution
    /\ \E a \in AssertionsOf(prior.reviewed) : <<a.id>> = x.target

VersionFits(s, prior) ==
    \/ prior.record.version = 3
    \/ s.record.version = 4 /\ prior.record.version = 4

(* _validate_target.                                                       *)
DescriptionFits(s, g, prior, a) ==
    LET artifact == FirstOf(a.artifact, prior.reviewed.artifact)
        revision == FirstOf(a.revision, prior.reviewed.revision)
    IN  /\ prior.reviewed.source = "extraction"
        /\ a.kind = "node" /\ a.state = "accepted" /\ Mutates(a)
        /\ a.subject \in DOMAIN g.objects
        /\ a.description
        /\ a.dmKind = g.objects[a.subject].kind
        /\ artifact # Absent /\ revision # Absent /\ a.evidence # {}
        /\ s.reviewed.artifact = artifact /\ s.reviewed.revision = revision
        /\ s.reviewed.campaign = a.campaign
        /\ \A e \in a.evidence :
             /\ e.role = "support" /\ e.domain = "worldbuilding" /\ e.span
             /\ e.artifact = artifact /\ e.revision = revision
             /\ e.id \in DOMAIN g.evidence /\ g.evidence[e.id] = e
        /\ Liftable(prior.record.version, a)

(* What the reviews from the newest down to the n-th corrected.            *)
SuppressedBy(published, n) ==
    UNION {{Pair(x) : x \in ToSet(published[i].reviewed.corrections)} : i \in 1..n}

Withdrawable(s, g, published, x) ==
    \E n \in DOMAIN published :
        /\ Describes(s, published[n], x)
        /\ Pair(x) \notin SuppressedBy(published, n)
        /\ VersionFits(s, published[n])
        /\ \A a \in AssertionsOf(published[n].reviewed) :
             <<a.id>> = x.target => DescriptionFits(s, g, published[n], a)

DescriptionsVerified(s, g, published) ==
    Withdrawals(s) # {} =>
        /\ s.record.version \in {3, 4}
        /\ \A i, j \in DOMAIN s.reviewed.corrections :
             LET c == s.reviewed.corrections
             IN  i # j /\ c[i].kind = Withdrawal /\ c[j].kind = Withdrawal => Pair(c[i]) # Pair(c[j])
        /\ \A x \in Withdrawals(s) : Withdrawable(s, g, published, x)

-----------------------------------------------------------------------------
(* The graph of the parent's finalized review; the plan binds the schema.  *)
Materialize(s, g, published) ==
    LET proof == {Pair(x) : x \in Withdrawals(s)}
    IN  IF s.record.plan.schema # g.schema \/ ~DescriptionsVerified(s, g, published) THEN Failed
        ELSE CASE s.record.version = 1 -> MaterializeV3(s, g)
               [] s.record.version \in {2, 3} -> MaterializeV6(s, g, proof)
               [] s.record.version = 4 -> MaterializeV4(s, g, proof)

(* introduced_evidence_v6 and validate_materialized_source_domains_v6: the *)
(* publication, under its lock.                                            *)
IntroducedAdmitted(g, child) ==
    child.schema = 6 =>
        \A k \in DOMAIN child.evidence :
            IF k \in DOMAIN g.evidence THEN child.evidence[k] = g.evidence[k]
            ELSE SourceKnown(child.evidence[k]) /\ DomainsAgree(child.evidence[k])
=============================================================================
