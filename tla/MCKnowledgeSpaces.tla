-------------------------- MODULE MCKnowledgeSpaces --------------------------
(* Two spaces.  In the first, a world is migrated and changed by a review, *)
(* a retcon, a prospective contribution with its ordinary twin, an         *)
(* evidence extension, a profile transition and what that permits, under   *)
(* publication ids that are shared; provisionings reuse one allocation id. *)
(* A player and a game master read, while one source is revealed and one   *)
(* withdrawn.                                                              *)
EXTENDS NativeSpaces, TLC

CONSTANTS client1, client2, space1, space2, pid1, pid2, pidG, alloc1

MCOps == {"empty", "blank", "world", "wild", "review", "retcon", "prospect", "profile", "extend",
          "slang", "freeze"}

(* Descriptors.                                                            *)
Domain == [axes |-> {"campaign"}, labels |-> {"gm", "player"}, modes |-> {"fact", "belief"},
           temporals |-> {}, metadata |-> {}, sources |-> {}, policy |-> "dnd"]

In == <<"core", "in">>
Rules == <<"core", "rules">>
Is == <<"core", "is">>
Owes == <<"homebrew", "owes">>

Profile1 == [id |-> "core", revision |-> 1, version |-> 2, terms |-> {"noble"}, open |-> <<>>,
             fixed |-> In :> {"entity"} @@ Rules :> {"entity"} @@ Is :> {"term", "literal"}]

Profile2 == [Profile1 EXCEPT !.revision = 2, !.version = 3, !.open = "homebrew" :> {"entity"}]

(* It adds a predicate, of a namespace that was open for another kind.     *)
Profile3 == [Profile2 EXCEPT !.revision = 3, !.fixed = (Owes :> {"term"}) @@ @]

(* Assertions.                                                             *)
Public == [mode |-> "public", labels |-> {}]
GmOnly == [mode |-> "any", labels |-> {"gm"}]

Metadata == [scope |-> {}, visibility |-> Public, mode |-> "fact", temporal |-> {},
             schemas |-> {}, standing |-> "established", evidence |-> {<<"v1">>}]

Claim(s, p, k, of) ==
    Metadata @@ [subject |-> s, predicate |-> p, value |-> [kind |-> k, of |-> of]]

Goblin == <<"goblin">>
Keep == <<"keep">>
Duke == <<"duke">>
Mira == <<"mira">>
Crypt == <<"crypt">>

Cited(artifact, revision) ==
    [artifact |-> artifact, revision |-> {revision}, schemas |-> {}, opens |-> TRUE]

WorldGraph ==
    [entities |-> {Goblin, Keep, Duke, Mira},
     assertions |->
        <<"f1">> :> Claim(Goblin, In, "entity", Keep)
        @@ <<"f2">> :> [Claim(Keep, Rules, "entity", Duke) EXCEPT !.evidence = {<<"v1">>, <<"v2">>}]
        @@ <<"f3">> :> [Claim(Duke, Is, "literal", {"cruel"}) EXCEPT !.scope = {<<"campaign", "c1">>}]
        @@ <<"f4">> :> [Claim(Mira, Is, "term", "noble") EXCEPT !.mode = "belief", !.evidence = {}]
        @@ <<"f5">> :> [Claim(Mira, Rules, "entity", Goblin) EXCEPT !.visibility = GmOnly]
        @@ <<"f6">> :> [Claim(Mira, In, "entity", Duke) EXCEPT !.standing = "tentative",
                                                          !.visibility.mode = "all",
                                                          !.visibility.labels = {"gm", "player"}]
        @@ <<"f0">> :> Claim(Mira, In, "entity", Keep),
     aliases |->
        <<"n1">> :> [entity |-> Goblin, text |-> "gob", evidence |-> {<<"v2">>},
                     standing |-> "established"],
     evidence |-> <<"v1">> :> Cited("a1", "r1") @@ <<"v2">> :> Cited("a2", "r2")]

(* Changes.                                                                *)
Item(i, kind, more) == [item |-> i, kind |-> kind] @@ more

Decision(id, kind, subjects, more) ==
    [id |-> <<id>>, space |-> space1, kind |-> kind, subjects |-> subjects, active |-> TRUE,
     supersedes |-> {}, target |-> None, alias |-> None] @@ more

MergeOf(id, subjects, target) ==
    [decision |-> [Decision(id, "merge", subjects, <<>>) EXCEPT !.target = target]]

AliasDecision(id, kind, e, text) ==
    [decision |-> [Decision(id, kind, {e}, <<>>) EXCEPT !.alias = text]]

Verdicts(items, rejected) ==
    {[item |-> items[n].item, verdict |-> IF items[n].item \in rejected THEN "rejected"
                                          ELSE "accepted", decisions |-> {}] :
        n \in DOMAIN items}

Contribution(op, kind, pid, profile, items, rejected) ==
    [op |-> op, kind |-> kind, space |-> space1, domain |-> Domain, profile |-> profile,
     pid |-> pid,
     contribution |-> [space |-> space1, status |-> "finalized", items |-> items],
     dispositions |-> Verdicts(items, rejected)]

Reviewed ==
    <<Item(1, "entity", [entity |-> Crypt]),
      Item(2, "assertion", [id |-> <<"f7">>, assertion |-> Claim(Crypt, In, "entity", Keep)]),
      Item(3, "identity", MergeOf("d1", {Duke, Mira}, Duke)),
      Item(4, "retract", [target |-> <<"f1">>]),
      Item(5, "supersede", [target |-> <<"f4">>, id |-> <<"f8">>,
                            assertion |-> Claim(Duke, Is, "term", "noble")]),
      Item(6, "identity", AliasDecision("d2", "alias_add", Keep, "hold"))>>

Retconned ==
    <<Item(1, "retract", [target |-> <<"f2">>]),
      Item(2, "identity", MergeOf("d3", {Keep, Duke}, Keep)),
      Item(3, "identity", AliasDecision("d4", "alias_remove", Goblin, "gob"))>>

Create(i, op, subject, of) ==
    Item(i, "create assertion",
         [op |-> op, subject |-> subject, predicate |-> In,
          value |-> [kind |-> "entity", of |-> of], metadata |-> Metadata])

ResultOf(op) == [kind |-> "result", of |-> op]
Durable(e) == [kind |-> "durable", of |-> e]

Prospected ==
    <<Item(1, "create entity", [op |-> "o1"]),
      Create(2, "o2", ResultOf("o1"), Durable(Keep)),
      Item(3, "create entity", [op |-> "o3"]),
      Item(4, "identity", MergeOf("d5", {Duke, Mira}, Mira))>>

MCChange ==
    [o \in MCOps |->
        CASE o \in {"empty", "blank"} ->
               [op |-> o, kind |-> "initialize", space |-> space1, domain |-> Domain,
                profile |-> IF o = "empty" THEN Profile1 ELSE Profile2]
          [] o \in {"world", "wild"} ->
               [op |-> o, kind |-> "migrate", space |-> space1, domain |-> Domain,
                profile |-> IF o = "world" THEN Profile1 ELSE Profile2,
                graph |-> IF o = "world" THEN WorldGraph
                          ELSE [WorldGraph EXCEPT !.assertions[<<"f1">>].predicate = Owes]]
          [] o = "review" -> Contribution(o, "contribution", None, Profile1, Reviewed, {4})
          [] o = "retcon" -> Contribution(o, "contribution", None, Profile1, Retconned, {})
          [] o = "prospect" -> Contribution(o, "prospective", pid1, Profile1, Prospected, {3})
          [] o \in {"profile", "freeze"} ->
               [op |-> o, kind |-> "transition", space |-> space1, domain |-> Domain,
                from |-> IF o = "profile" THEN Profile1 ELSE Profile2,
                profile |-> IF o = "profile" THEN Profile2 ELSE Profile3]
          [] o = "extend" ->
               [op |-> o, kind |-> "extend", space |-> space1, domain |-> Domain,
                profile |-> Profile1, evidence |-> <<"v3">> :> Cited("a3", "r3")]
          [] o = "slang" ->
               Contribution(o, "contribution", None, Profile2,
                   <<Item(1, "assertion", [id |-> <<"f9">>,
                                           assertion |-> Claim(Goblin, Owes, "entity", Mira)])>>,
                   {})]

(* Sources: the second is withdrawn and the third is revealed.             *)
Artifact(current, visibility, status) ==
    [current |-> current, visibility |-> visibility, status |-> status, schemas |-> {}]

Written(g, value) == [generation |-> g, value |-> value]

MCSources ==
    [artifacts |->
        [a1 |-> <<Written(0, Artifact("r1", Public, "active"))>>,
         a2 |-> <<Written(0, Artifact("r2", GmOnly, "active")),
                  Written(2, Artifact("r2", GmOnly, "withdrawn"))>>,
         a3 |-> <<Written(1, Artifact("r3", GmOnly, "active")),
                  Written(2, Artifact("r3", Public, "active"))>>],
     revisions |->
        [r1 |-> <<Written(0, [artifact |-> "a1"])>>, r2 |-> <<Written(0, [artifact |-> "a2"])>>,
         r3 |-> <<Written(1, [artifact |-> "a3"])>>]]

Reader(audience, standing, wildcards) ==
    [space |-> space1, revision |-> {}, audience |-> audience, standing |-> standing,
     unscoped |-> TRUE, bindings |-> {<<"campaign", "c2">>}, wildcards |-> wildcards]

MCReaders == {Reader({"player"}, {"established"}, {}),
              Reader({"gm", "player"}, {"established", "tentative"}, {"campaign"})}

MCPolicies == {[id |-> "dnd", kind |-> "always", of |-> {}],
               [id |-> "dnd", kind |-> "modes", of |-> {"fact"}]}

MCQueries == {[raw |-> Goblin, predicate |-> Rules, term |-> "noble", tokens |-> {"cruel"}],
              [raw |-> Keep, predicate |-> In, term |-> "keep", tokens |-> {"keep"}]}

(* Requests.                                                               *)
Ask(k, p, o) == [kind |-> k, space |-> space1, pid |-> p, op |-> o]

MCPublications ==
    {Ask("raw", pid1, "world"), Ask("raw", pid1, "wild"), Ask("publish", pid1, "empty"),
     Ask("publish", pid1, "review"), Ask("publish", pid1, "retcon"), Ask("publish", pid2, "retcon"),
     Ask("prospect", pid1, "prospect"), Ask("publish", pid1, "prospect"),
     Ask("publish", pid2, "profile"), Ask("publish", pid2, "extend"),
     Ask("publish", pid1, "slang"), Ask("publish", pid2, "freeze")}

MCProvisions == {[alloc |-> alloc1, op |-> "empty"], [alloc |-> alloc1, op |-> "blank"]}
=============================================================================
