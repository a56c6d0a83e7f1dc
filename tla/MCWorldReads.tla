---------------------------- MODULE MCWorldReads ----------------------------
(***************************************************************************)
(* WorldReads with a world that stands adopted in one of the forms of its  *)
(* receipt, or is still to be begun, and another that is adopted meanwhile *)
(* or not.  Object 1 (a duke) rests on an artifact that a repair makes     *)
(* readable to the GM, object 2 (Mira) has an alias for the GM alone which *)
(* is also the alias of object 3 (a keep), and a property that only        *)
(* another campaign knows.                                                 *)
(***************************************************************************)
EXTENDS WorldReads

CONSTANTS w1, w2

Row(family, id) == [family |-> family, id |-> id, world |-> w1, as |-> "sealed"]

Source(id) == {Row("artifact", id), Row("source revision", id)}

Bundle == Source("a1") \cup Source("a2") \cup {Row("contribution", "k1"), Row("decision", "d1")}

MCStanding ==
    {[kind |-> "adoption", world |-> w1, id |-> "ad1", rows |-> Bundle, form |-> form,
      targets |-> IF form = "v4" THEN {"a1"} ELSE {},
      revision |-> GraphRevision(w1, None, "ad1", "g0")] : form \in {"v2", "v3", "v4"}}

Elsewhere(family, id) == [Row(family, id) EXCEPT !.world = w2]

MCRequests ==
    {[op |-> "adoption", world |-> w2, id |-> "ad2", graph |-> "g0",
      rows |-> {Elsewhere("artifact", "a3"), Elsewhere("decision", "d1")}],
     [op |-> "adoption", world |-> w1, id |-> "ad1", rows |-> Bundle, graph |-> "g0"],
     [op |-> "initialization", world |-> w1, id |-> "in1", graph |-> "i0",
      rows |-> Source("a4") \cup {Row("contribution", "k1")}],
     [op |-> "repair", world |-> w1, id |-> "rp1", targets |-> {"a1"}, dryRun |-> FALSE,
      graph |-> "g0"],
     [op |-> "withdraw", world |-> w1, id |-> "wd1", adoption |-> "ad1", source |-> "a2",
      revision |-> "a2"],
     [op |-> "publish", world |-> w1, id |-> "rv1"]}

MCReviews == [r \in {"rv1"} |-> [world |-> w1, form |-> "guarded"]]

MCRaw == {<<"rv1", "g1">>}

MCPuts ==
    {{[Row("artifact", "a1") EXCEPT !.as = "other"]}, {Row("contribution", "k2")},
     {Row("decision", "d2")}, Source("a3") \cup {Row("admission", "x1")}}

MCEdited ==
    [x \in {"rv1", "wd1"} \X {"g0", "g1", "g2", "g3", "i0", "i1"} |->
        CASE x = <<"rv1", "g0">> -> "g1" [] x = <<"wd1", "g0">> -> "g2"
          [] x = <<"rv1", "g2">> -> "g3" [] x = <<"wd1", "g1">> -> "g3"
          [] x = <<"rv1", "i0">> -> "i1" [] OTHER -> None]

-----------------------------------------------------------------------------
(* Sources.                                                                *)

ArtifactRecord(campaign, visibility, domain) ==
    [campaign |-> campaign, visibility |-> visibility, domain |-> domain, schema |-> "s1",
     status |-> "active"]

MCArtifactOf ==
    [x \in {"a1", "a2", "a3", "a4"} \X {"sealed", "repaired", "other"} |->
        CASE x = <<"a1", "repaired">> -> ArtifactRecord(None, "gm", "worldbuilding")
          [] x[1] = "a1" /\ x[2] # "repaired" -> ArtifactRecord("ca", "unset", "worldbuilding")
          [] x[1] = "a2" -> ArtifactRecord("ca", "player", "session recap")
          [] x[1] = "a3" -> ArtifactRecord("cb", "player", "session recap")
          [] x[1] = "a4" -> ArtifactRecord(None, "gm", "worldbuilding")]

MCCited == [id \in {"a1", "a2", "a3", "a4"} |-> id]

Cites(artifact, domain) ==
    [artifact |-> artifact, revision |-> artifact, domain |-> domain, schema |-> "s1",
     opens |-> TRUE]

-----------------------------------------------------------------------------
(* Graphs.                                                                 *)

Assertion(id, kind, of, text, evidence) ==
    [id |-> id, place |-> id, kind |-> kind, of |-> of, text |-> text, campaign |-> None,
     visibility |-> "player", evidence |-> evidence, ends |-> <<0, 0>>,
     aspects |-> <<None, None>>]

Edge(id, from, to, aspect, evidence) ==
    [Assertion(id, "edge", 0, {"serves"}, evidence) EXCEPT
        !.ends = <<from, to>>, !.aspects = <<aspect, None>>]

ForGM(a) == [a EXCEPT !.visibility = "gm"]

Adopted ==
    {Assertion(1, "existence", 1, {"duke"}, {1}),
     Assertion(2, "existence", 2, {"mira"}, {2}),
     Assertion(3, "existence", 3, {"keep"}, {2}),
     ForGM(Assertion(4, "alias", 2, {"raven"}, {2})),
     Assertion(5, "alias", 3, {"raven"}, {2}),
     ForGM(Assertion(7, "aspect", 2, {"spy"}, {2})),
     Edge(8, 2, 3, 7, {2}),
     Edge(9, 2, 1, None, {1, 2}),
     [Assertion(10, "property", 2, {"duke"}, {2}) EXCEPT !.campaign = "cb"],
     [Assertion(13, "property", 2, {"keep"}, {2}) EXCEPT !.place = 0],
     Assertion(11, "property", 3, {"mira", "duke"}, {3})}

Reviewed == {Assertion(12, "property", 3, {"spy"}, {2})}

Begun ==
    {Assertion(1, "existence", 1, {"duke"}, {4}), Assertion(2, "existence", 2, {"mira"}, {4}),
     Edge(9, 2, 1, None, {4})}

AdoptedEvidence ==
    (1 :> Cites("a1", "worldbuilding")) @@ (2 :> Cites("a2", "session recap"))
    @@ (3 :> Cites("a3", "session recap"))

MCGraphOf ==
    [g \in {"g0", "g1", "g2", "g3", "i0", "i1"} |->
        [schema |-> "v4",
         evidence |-> IF g \in {"i0", "i1"} THEN (4 :> Cites("a4", "other")) ELSE AdoptedEvidence,
         assertions |->
            CASE g = "g0" -> Adopted
              [] g = "g1" -> Adopted \cup Reviewed
              [] g = "g2" -> {a \in Adopted : a.id # 9}
              [] g = "g3" -> {a \in Adopted \cup Reviewed : a.id # 9}
              [] g = "i0" -> Begun
              [] g = "i1" -> Begun]]

Observation(id, subject, kind, evidence) ==
    [id |-> id, kind |-> kind, accepted |-> TRUE, subject |-> subject, text |-> {"spy"},
     shape |-> "observation", campaign |-> None, visibility |-> "player",
     evidence |-> evidence, artifact |-> "a2", revision |-> "a2"]

MCContributionOf ==
    [r \in {"rv1"} |->
        [id |-> "k9", extraction |-> TRUE,
         corrections |-> {[contribution |-> "k9", assertion |-> 24, description |-> TRUE]},
         assertions |-> {Observation(21, 1, "attribute", {2}), Observation(22, 2, "attribute", {2}),
                         Observation(23, 3, "node", {2}), Observation(24, 2, "node", {2}),
                         Observation(25, 2, "attribute", {1, 2}),
                         Observation(26, 3, "attribute", {3})}]]

-----------------------------------------------------------------------------
(* Readers and questions.                                                  *)

Reader(mode, campaign, admissibility) ==
    [world |-> w1, mode |-> mode, campaign |-> campaign, admissibility |-> admissibility]

MCReaders ==
    {Reader("campaign", "ca", "gm"), Reader("campaign", "ca", "player"),
     Reader("cross campaign", None, "player")}

Bounds(objects, relationships, assertions, anchors) ==
    [objects |-> objects, relationships |-> relationships, assertions |-> assertions,
     anchors |-> anchors]

Wide == Bounds(5, 5, 5, 5)

MCQuestions ==
    {[op |-> "search", query |-> {"raven"}, seeds |-> {}, bounds |-> Wide],
     [op |-> "search", query |-> {"duke", "spy"}, seeds |-> {1}, bounds |-> Bounds(2, 1, 2, 3)],
     [op |-> "neighborhood", seeds |-> {3}, depth |-> 2, bounds |-> Bounds(2, 2, 1, 2)],
     [op |-> "object", object |-> 2, bounds |-> Bounds(1, 1, 1, 2)],
     [op |-> "complete object", object |-> 2],
     [op |-> "evidence", target |-> <<"relationship", 9>>, bounds |-> Bounds(1, 1, 1, 1)],
     [op |-> "select", pair |-> <<"a2", "a2">>, ids |-> {21, 22}, bounds |-> Wide],
     [op |-> "selected index", targets |-> {<<"object", 1>>, <<"assertion", 11>>}, bounds |-> Wide],
     [op |-> "anchor index", bounds |-> Wide],
     [op |-> "context index", bounds |-> Wide],
     [op |-> "resolve", reader |-> Reader("campaign", "ca", "gm"), evidence |-> 2],
     [op |-> "resolve in session", reader |-> Reader("campaign", "ca", "player"), evidence |-> 2,
      pair |-> <<"a2", "a2">>],
     [op |-> "resolve context", reader |-> Reader("campaign", "ca", "gm"),
      pair |-> <<"a2", "a2">>, selector |-> "v2", allowed |-> {"v1", "v2"}]}

MCSymmetry == Permutations(Threads)
=============================================================================
