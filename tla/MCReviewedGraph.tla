--------------------------- MODULE MCReviewedGraph ---------------------------
(***************************************************************************)
(* Four worlds.  labels: a graph of schema 3, a review of everything       *)
(* version 1 reviews, a rival of the same operation, and contributions and *)
(* status updates that race with them.  facets: a review of version 2, and *)
(* one of version 4 of the graph it makes.  described: a description that  *)
(* is reviewed, withdrawn, and withdrawn again.  broken: reviews that can  *)
(* be finalized and never materialized.                                    *)
(***************************************************************************)
EXTENDS ReviewedGraph

CONSTANTS client1, client2

T(name) == [fold |-> name, shown |-> name]
Cased(name, case) == [fold |-> name, shown |-> case]

(* Sources: two artifacts of the campaign, each with a revision.           *)
MCArtifacts == "book" :> [campaign |-> "camp", domain |-> "worldbuilding", key |-> "book"]
            @@ "log" :> [campaign |-> "camp", domain |-> "session", key |-> "recap"]
MCRevisions == "book1" :> "book" @@ "log1" :> "log"

(* What is stated of an assertion differs from one to the next, so that    *)
(* the codec meets every value of each: its campaign, audience, canon,     *)
(* epistemic kind, time and sessions.                                      *)
MCMetadataOf(id) ==
    LET n == id[1]
    IN  [campaign |-> IF n % 2 = 0 THEN Absent ELSE "camp",
         visibility |-> IF n % 3 = 0 THEN "gm" ELSE "player",
         canon |-> <<"canonical", "provisional", "retracted">>[1 + ((n % 5) % 3)],
         epistemic |-> <<"fact", "asserted", "inferred">>[1 + ((n \div 2) % 3)],
         temporal |-> <<"unknown", "world_timeless", "fictional_time_ref">>[1 + ((n \div 3) % 3)],
         sessions |-> IF n % 4 = 0 THEN {"session"} ELSE {}]

MCTerms == {"npc", "place", "knows", "owns", "age"}

Ev(id, artifact, key) ==
    [id |-> id, artifact |-> artifact, revision |-> artifact \o "1",
     domain |-> MCArtifacts[artifact].domain, key |-> key, role |-> "support", span |-> TRUE]

Book(id) == Ev(id, "book", "book")
Plain(id) == Ev(id, "book", "")

-----------------------------------------------------------------------------
(* Assertions.                                                             *)

Assertion(n, kind, subject, cited) ==
    [id |-> n, kind |-> kind, subject |-> subject, object |-> Absent, predicate |-> Absent,
     text |-> NoText, evidence |-> cited, artifact |-> Absent, revision |-> Absent,
     campaign |-> "camp", state |-> "candidate", outcome |-> Absent, visibility |-> "gm",
     epistemic |-> "asserted", literal |-> Absent, term |-> Absent, dmKind |-> Absent,
     dmPredicate |-> Absent, aliases |-> <<>>, edge |-> Absent, mechanics |-> FALSE,
     description |-> FALSE]

Text(n, kind, subject, text, cited) ==
    [Assertion(n, kind, subject, cited) EXCEPT !.text = text]

Node(n, subject, kind, text, aliases, cited) ==
    [Text(n, "node", subject, text, cited) EXCEPT !.dmKind = kind, !.aliases = aliases]

Relates(n, kind, subject, predicate, object, cited) ==
    [Assertion(n, kind, subject, cited) EXCEPT
        !.object = object, !.predicate = predicate,
        !.dmPredicate = IF kind = "edge" THEN predicate ELSE Absent]

Property(n, subject, literal, cited) ==
    [Assertion(n, "property", subject, cited) EXCEPT !.literal = literal, !.term = "age"]

From(a, artifact) == [a EXCEPT !.artifact = artifact]

Corrects1(kind, contribution, target) ==
    [kind |-> kind, contribution |-> contribution, target |-> target, replacement |-> NoId]

-----------------------------------------------------------------------------
(* Submissions.                                                            *)

Candidate(id, source, assertions, corrections) ==
    [id |-> id, label |-> id, status |-> "active", source |-> source, supersedes |-> Absent,
     author |-> "extractor", time |-> "t0", campaign |-> "camp", artifact |-> "book",
     revision |-> "book1", assertions |-> assertions, corrections |-> corrections,
     decisions |-> {}, mentions |-> {}, reason |-> Absent]

Proposal(n, planned, target, kind) ==
    [id |-> n, planned |-> planned, target |-> target, kind |-> kind,
     matched |-> IF planned = "resolved_existing" THEN {target} ELSE {}]

Decided(proposal, verdict) == [id |-> proposal.id, target |-> proposal.target, verdict |-> verdict]

Old(n, target, kind) == Proposal(n, "resolved_existing", target, kind)
New(n, target, kind) == Proposal(n, "provisional_new", target, kind)

(* decided: the proposals, each with its verdict; rejected: assertions.    *)
Submission(version, op, parent, candidate, decided, rejected) ==
    LET intent == [label |-> candidate.label \o "-reviewed-" \o op, digest |-> Absent,
                   version |-> version, op |-> op, campaign |-> "camp",
                   plan |-> [id |-> candidate.id, candidate |-> DigestOf(candidate), parent |-> parent,
                             schema |-> IF version = 1 THEN 3 ELSE 6],
                   candidate |-> candidate,
                   proposals |-> [i \in DOMAIN decided |-> decided[i][1]],
                   identity |-> [i \in DOMAIN decided |-> Decided(decided[i][1], decided[i][2])],
                   verdicts |-> [i \in DOMAIN candidate.assertions |->
                        [id |-> candidate.assertions[i].id,
                         state |-> IF candidate.assertions[i].id \in rejected
                                   THEN "rejected" ELSE "accepted"]],
                   reviewer |-> "gm", time |-> "t1",
                   guard |-> IF version > 1 THEN {[campaign |-> "camp", parent |-> parent]} ELSE {}]
        sealed == [intent EXCEPT !.digest = IntentDigest(intent)]
    IN  [intent |-> sealed,
         receipt |-> [op |-> op, digest |-> sealed.digest, actor |-> "gm", campaign |-> "camp",
                      parent |-> parent, time |-> "t1"],
         policy |-> [tool |-> version, effect |-> "commit", admissibility |-> "gm",
                     campaign |-> "camp", pin |-> parent]]

Child(s) == <<"published", ReviewId(s.intent.op, s.intent.digest)>>
ContributionOf(s) == ReviewedId(ReviewId(s.intent.op, s.intent.digest), s.intent.candidate.id)

-----------------------------------------------------------------------------
(* Objects and graphs.                                                     *)

Object(kind, label, id, cited) ==
    [kind |-> kind, label |-> T(label), id |-> id, evidence |-> cited, aliases |-> {},
     summary |-> {}, properties |-> {}, aspects |-> {}]

Facet(id, name, cited) == [id |-> id, text |-> T(name), evidence |-> cited]

Link(id, subject, predicate, object, cited) ==
    [id |-> id, subject |-> subject, predicate |-> predicate, object |-> object,
     evidence |-> cited, ends |-> <<NoId, NoId>>]

World(schema, objects, links) ==
    [schema |-> schema, objects |-> objects, links |-> links, evidence |-> "g" :> Book("g")]

G == {"g"}

(* labels.                                                                 *)
Ana == [Object("npc", "ana", NoId, G) EXCEPT
          !.aliases = {Facet(<<50>>, "annie", G)}, !.summary = {Facet(<<51>>, "a baker", G)}]

Labels == World(3, "o1" :> Ana @@ "o2" :> Object("place", "mill", NoId, G),
                "rel:0" :> Link(NoId, "o1", "owns", "o2", G))

LabelsOther == [Labels EXCEPT !.objects["o2"].label = T("old mill")]

E1 == {Plain("e1")}
E2 == {Plain("e2")}

LabelCandidate == Candidate("c1", "extraction",
    <<Text(1, "label", "o1", T("anna"), E1), Text(2, "alias", "o1", T("nan"), E2),
      Text(3, "alias", "o1", T("thief"), E1), Text(4, "summary", "o1", T("a smith"), E1),
      Text(5, "label", "o3", T("bo"), E1), Text(6, "label", "o4", T("ghost"), E1),
      Relates(7, "relationship", "o3", "knows", "o1", E2)>>, <<>>)

Whole == Submission(1, "op1", Genesis, LabelCandidate,
    <<<<Old(1, "o1", "npc"), "confirm_existing">>, <<New(2, "o3", "npc"), "create_new">>,
      <<New(3, "o4", "npc"), "reject_candidate">>>>, {3, 6})

(* The same operation and plan, decided otherwise.                         *)
Rival == LET s == Submission(1, "op1", Genesis, [LabelCandidate EXCEPT !.label = "c1"],
                    <<<<Old(1, "o1", "npc"), "confirm_existing">>, <<New(2, "o3", "npc"), "reject_candidate">>,
                      <<New(3, "o4", "npc"), "reject_candidate">>>>, {3, 5, 6, 7})
             i == [s.intent EXCEPT !.label = "rival", !.digest = "intent:rival"]
         IN  [s EXCEPT !.intent = i, !.receipt.digest = i.digest]

(* Refused: not as a game master.                                          *)
AsPlayer == [Whole EXCEPT !.policy.admissibility = "player"]

-----------------------------------------------------------------------------
(* facets.                                                                 *)

Ada == [Object("npc", "ada", <<60>>, G) EXCEPT
          !.aliases = {Facet(<<61>>, "addy", G)}, !.summary = {Facet(<<62>>, "a guard", G)},
          !.properties = {[id |-> <<63>>, term |-> "age", literal |-> "30", evidence |-> G]},
          !.aspects = {[id |-> <<64>>, kind |-> "npc", evidence |-> G]}]

Facets6 == World(6, "o1" :> Ada @@ "o2" :> Object("place", "keep", <<0, 1>>, G),
                 "l1" :> [Link(<<65>>, "o1", "owns", "o2", G) EXCEPT !.ends = <<<<64>>, NoId>>])

E3 == {Plain("e3")}

Doubtful(a) == [a EXCEPT !.outcome = "ambiguous"]

(* Adds to an object that exists and creates one; says again the alias it  *)
(* corrects; leaves out what is ambiguous and what is rejected.            *)
FacetReview == Submission(2, "op1", Genesis, Candidate("c2", "extraction",
    <<Node(1, "o1", Absent, NoText, <<T("addy"), T("captain")>>, E3),
      From(Node(2, "o3", "place", T("gate"), <<T("gate"), Cased("gate", "GATE"), T("door")>>, {}), "book"),
      Text(3, "alias", "o1", T("addy"), E3), Text(4, "alias", "o3", T("arch"), E3),
      Text(5, "alias", "o1", T("traitor"), E3),
      Relates(6, "edge", "o3", "knows", "o1", E3), Doubtful(Relates(7, "edge", "o1", "knows", "o3", E3)),
      From(Assertion(8, "attribute", "o2", {}), "book"), Assertion(9, "evidence_ref", Absent, E3)>>,
    <<Corrects1("contradicts", "c0", <<61>>)>>),
    <<<<Old(1, "o1", "npc"), "confirm_existing">>, <<New(2, "o3", "place"), "create_new">>>>, {5})

E4 == {Book("e4")}

(* Of the graph that makes: a property of a node that stands after it.     *)
PropertyReview == Submission(4, "op2", Child(FacetReview), Candidate("c3", "extraction",
    <<Property(11, "o5", "12", E4), Property(12, "o1", "31", E4),
      Node(13, "o5", "npc", T("cub"), <<>>, E4), Property(14, "o2", "99", E4)>>,
    <<Corrects1("contradicts", "c0", <<62>>)>>),
    <<<<New(1, "o5", "npc"), "create_new">>>>, {14})

(* Refused: a verdict is missing.                                          *)
Partial == [FacetReview EXCEPT !.intent.verdicts = Tail(@)]

-----------------------------------------------------------------------------
(* described.                                                              *)

Described == Submission(3, "op1", Genesis, Candidate("c4", "extraction",
    <<[Node(1, "o3", "npc", T("eve"), <<>>, {Book("e5")}) EXCEPT !.description = TRUE]>>, <<>>),
    <<<<New(1, "o3", "npc"), "create_new">>>>, {})

Withdraws(id, op, parent) == Submission(3, op, parent,
    [Candidate(id, "graph_review", <<>>,
               <<Corrects1(Withdrawal, ContributionOf(Described), <<1>>)>>) EXCEPT !.reason = "untrue"],
    <<>>, {})

First == Withdraws("c5", "op2", Child(Described))
Again == Withdraws("c6", "op3", Child(First))

-----------------------------------------------------------------------------
(* broken: an endpoint that no one establishes; the withdrawal of an       *)
(* aspect that a relationship rests on; a binding of mechanics.            *)

Broken(id, op, assertions, corrections) ==
    Submission(2, op, Genesis, Candidate(id, "extraction", assertions, corrections), <<>>, {})

Dangling == Broken("c7", "op1", <<Relates(1, "edge", "o1", "knows", "o9", E3)>>, <<>>)
Unowned == Broken("c8", "op2", <<Relates(1, "edge", "o1", "knows", "o2", E3)>>,
                  <<Corrects1("contradicts", "c0", <<64>>)>>)
Binding == Broken("c9", "op3",
                  <<[Relates(1, "edge", "o1", "knows", "o2", E3) EXCEPT !.mechanics = TRUE,
                                                                       !.outcome = "ambiguous"]>>, <<>>)

-----------------------------------------------------------------------------
Fix == "fix"
Cand == "c1"

Line(b, s) == [body |-> b, status |-> s, by |-> None]

MCAppends == {[id |-> Cand, row |-> Line("c1", "superseded")],
              [id |-> Cand, row |-> Line("forged", "active")],
              [id |-> Fix, row |-> Line("fix", "active")]}

MCGenesis == <<"genesis">>

-----------------------------------------------------------------------------
(* What the ledger stores of the reviews, written out: ReviewedAssumption  *)
(* checks it against the states that the services build.                   *)

MCReviewId(op, label) == "review:" \o op \o "/intent:" \o label

MCReviewedId(op, label, candidate) ==
    "contribution:" \o MCReviewId(op, label) \o "/" \o candidate

Kept(op, label, candidate, parent) ==
    [id |-> MCReviewId(op, label), op |-> op, plan |-> candidate, parent |-> parent,
     candidate |-> candidate, candidateBody |-> candidate,
     reviewed |-> MCReviewedId(op, label, candidate), reviewedBody |-> label]

After(op, label) == <<"published", MCReviewId(op, label)>>

MCReviews ==
    {Kept("op1", "c1-reviewed-op1", "c1", MCGenesis),
     Kept("op1", "rival", "c1", MCGenesis),
     Kept("op1", "c2-reviewed-op1", "c2", MCGenesis),
     Kept("op2", "c3-reviewed-op2", "c3", After("op1", "c2-reviewed-op1")),
     Kept("op1", "c4-reviewed-op1", "c4", MCGenesis),
     Kept("op2", "c5-reviewed-op2", "c5", After("op1", "c4-reviewed-op1")),
     Kept("op3", "c6-reviewed-op3", "c6", After("op2", "c5-reviewed-op2")),
     Kept("op1", "c7-reviewed-op1", "c7", MCGenesis),
     Kept("op2", "c8-reviewed-op2", "c8", MCGenesis),
     Kept("op3", "c9-reviewed-op3", "c9", MCGenesis)}

Labelled == {Cand, MCReviewedId("op1", "c1-reviewed-op1", Cand), MCReviewedId("op1", "rival", Cand)}

MCContributions ==
    {Fix} \cup {r.candidate : r \in MCReviews} \cup {r.reviewed : r \in MCReviews}

MCEvidence == {"e1", "e2", "e3", "e4", "e5"}

(* The correction of the candidate cites its evidence in reverse.          *)
MCEvidenceOf ==
    [x \in MCContributions |->
        CASE x = Fix -> <<"e2", "e1">>
          [] x \in Labelled -> <<"e1", "e2">>
          [] \E r \in MCReviews : r.plan = "c3" /\ x \in {"c3", r.reviewed} -> <<"e4">>
          [] \E r \in MCReviews : r.plan = "c4" /\ x \in {"c4", r.reviewed} -> <<"e5">>
          [] \E r \in MCReviews : r.plan \in {"c5", "c6"} /\ x \in {r.plan, r.reviewed} -> <<>>
          [] OTHER -> <<"e3">>]

MCCorrects == [x \in MCContributions |-> IF x = Fix THEN {Cand} ELSE {}]

MCBodies ==
    {"forged", "fix"} \cup {r.candidateBody : r \in MCReviews} \cup {r.reviewedBody : r \in MCReviews}

MCUpdates == {[id |-> Cand, status |-> "active", by |-> None],
              [id |-> Cand, status |-> "superseded", by |-> Fix],
              [id |-> MCReviewedId("op1", "c1-reviewed-op1", Cand), status |-> "retracted", by |-> None]}

Scene(graph, others, submissions, appends, updates) ==
    [graph |-> graph, others |-> others, submissions |-> submissions,
     appends |-> appends, updates |-> updates]

MCScenarios ==
    "labels" :> Scene(Labels, {LabelsOther}, {Whole, Rival, AsPlayer}, MCAppends, MCUpdates)
    @@ "facets" :> Scene(Facets6, {}, {FacetReview, PropertyReview, Partial}, {}, {})
    @@ "described" :> Scene(Facets6, {Facets6}, {Described, First, Again}, {}, {})
    @@ "broken" :> Scene(Facets6, {}, {Dangling, Unowned, Binding}, {}, {})
=============================================================================
