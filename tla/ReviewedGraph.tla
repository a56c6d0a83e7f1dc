---------------------------- MODULE ReviewedGraph ----------------------------
(***************************************************************************)
(* From the confirmed submission of a review to the graph it publishes:    *)
(* the services that build and check a review state and finalize it        *)
(* (application/contribution_review.py to _v4.py), the ledger that stores  *)
(* it (ContributionReviews), and the publication of the graph that the     *)
(* stored state makes of its parent (ReviewMaterialization).               *)
(*                                                                         *)
(* Simplifications:                                                        *)
(*  - One world.  A publication is one step: its transaction is modelled   *)
(*    in ReviewPublication.  Here it takes the world when no transaction   *)
(*    of the ledger holds it.                                              *)
(*  - The scenario is the world a behaviour begins with and what its       *)
(*    callers submit; other publications of the world are steps that put   *)
(*    one of the scenario's other graphs at the head.                      *)
(***************************************************************************)
EXTENDS ContributionReviews, ReviewMaterialization, LegacyCodec

CONSTANTS
    Scenarios,      \* name -> [graph, others, submissions, appends, updates]
    Genesis,        \* the id of the first revision of the world
    MaxRevisions

VARIABLES
    scenario,
    history         \* the revisions, [id, graph, by], the last one the head

worldVars == <<scenario, history>>

-----------------------------------------------------------------------------
(* The review states of the submissions that the services let through, and *)
(* what is stored of a state.                                              *)

StatesOf(submissions) ==
    {BuildReviewState(x.intent) : x \in {y \in submissions : Submittable(y)}}

Offered == [n \in DOMAIN Scenarios |-> StatesOf(Scenarios[n].submissions)]

ReviewStates == UNION {Offered[n] : n \in DOMAIN Scenarios}

Filed(s) ==
    [id |-> s.record.review, op |-> s.record.op, plan |-> s.record.plan.id,
     parent |-> s.record.plan.parent,
     candidate |-> s.record.candidate, candidateBody |-> s.candidate.label,
     reviewed |-> s.record.reviewed, reviewedBody |-> s.reviewed.label]

FiledIn == [n \in DOMAIN Scenarios |-> {Filed(s) : s \in Offered[n]}]

RefusedIn == [n \in DOMAIN Scenarios |-> {x \in Scenarios[n].submissions : ~Submittable(x)}]

StateFiled == [r \in Reviews |-> CHOOSE s \in ReviewStates : Filed(s) = r]

(* The contracts' shapes: a graph and a review are records, what a review  *)
(* says is a sequence.                                                     *)
Fields == {"kind", "label", "evidence", "aliases", "summary", "properties", "aspects"}

IsGraph(g) ==
    /\ {"objects", "links", "evidence"} \subseteq DOMAIN g
    /\ \A x \in DOMAIN g.objects : Fields \subseteq DOMAIN g.objects[x]

IsSequence(t) == Len(t) \in Nat /\ DOMAIN t = 1..Len(t)

IsReviewed(c) ==
    /\ IsSequence(c.assertions) /\ IsSequence(c.corrections)
    /\ \A a \in AssertionsOf(c) :
         /\ {"id", "state", "outcome"} \subseteq DOMAIN a
         /\ \A e \in a.evidence : "id" \in DOMAIN e

ASSUME ReviewedAssumption ==
    /\ Reviews = {Filed(s) : s \in ReviewStates}
    /\ \A s \in ReviewStates :
         s.record.version \in 1..4 /\ IsReviewed(s.candidate) /\ IsReviewed(s.reviewed)
    /\ \A s \in ReviewStates : \A c \in {s.candidate, s.reviewed} :
         ToSet(EvidenceOf[c.id]) = UNION {IdsIn(a.evidence) : a \in AssertionsOf(c)}
    /\ \A n \in DOMAIN Scenarios :
         /\ Scenarios[n].appends \subseteq Appends /\ Scenarios[n].updates \subseteq Updates
         /\ \A g \in {Scenarios[n].graph} \cup Scenarios[n].others : IsGraph(g)

HeadOf == history[Len(history)]

(* The review states published so far, newest first.                       *)
Published ==
    LET byReview == SelectSeq(history, LAMBDA v : v.by # None)
    IN  [i \in DOMAIN byReview |-> StateFiled[byReview[Len(byReview) + 1 - i].by]]

-----------------------------------------------------------------------------
ReviewedInit ==
    /\ Init
    /\ scenario \in DOMAIN Scenarios
    /\ history = <<[id |-> Genesis, graph |-> Scenarios[scenario].graph, by |-> None]>>

AppendOffered(c) ==
    /\ CallAppend(c)
    /\ call'[c].put \subseteq Scenarios[scenario].appends
    /\ UNCHANGED worldVars

UpdateOffered(c) ==
    /\ CallUpdate(c)
    /\ [id |-> call'[c].id, status |-> call'[c].status, by |-> call'[c].by]
          \in Scenarios[scenario].updates
    /\ UNCHANGED worldVars

(* finalize_contribution_review: the head is read before the repository    *)
(* takes the world, and may have moved when it does.                       *)
FinalizeOffered(c) ==
    /\ CallFinalize(c)
    /\ call'[c].review \in FiledIn[scenario]
    /\ call'[c].review.parent = HeadOf.id
    /\ UNCHANGED worldVars

(* A submission is refused, or its parent is no longer the head: nothing   *)
(* changes.                                                                *)
FinalizeRefused(c) ==
    /\ pc[c] = "idle"
    /\ RefusedIn[scenario] # {} \/ \E r \in FiledIn[scenario] : r.parent # HeadOf.id
    /\ UNCHANGED <<vars, worldVars>>

LedgerStep(c) ==
    /\ Step(c) \/ Wait(c) \/ Abort(c)
    /\ UNCHANGED worldVars

Unheld == worldLock = None /\ worldShare = {}

PublishReview ==
    \E r \in reviews :
        /\ Len(history) < MaxRevisions
        /\ Unheld
        /\ r.parent = HeadOf.id
        /\ ReviewState(rows, r)
        /\ LET child == Materialize(StateFiled[r], HeadOf.graph, Published)
           IN  /\ child # Failed
               /\ IntroducedAdmitted(HeadOf.graph, child)
               /\ history' = Append(history,
                    [id |-> <<"published", r.id>>, graph |-> child, by |-> r])
        /\ UNCHANGED <<vars, scenario>>

PublishOther ==
    \E g \in Scenarios[scenario].others :
        /\ Len(history) < MaxRevisions
        /\ Unheld
        /\ history' = Append(history,
             [id |-> <<"other", Len(history) + 1>>, graph |-> g, by |-> None])
        /\ UNCHANGED <<vars, scenario>>

ReviewedNext ==
    \/ \E c \in Clients :
         \/ AppendOffered(c) \/ UpdateOffered(c) \/ FinalizeOffered(c) \/ FinalizeRefused(c)
         \/ LedgerStep(c)
    \/ PublishReview
    \/ PublishOther

ReviewedSpec == ReviewedInit /\ [][ReviewedNext]_<<vars, worldVars>>

-----------------------------------------------------------------------------
(* What a graph says.                                                      *)

FactsOn(x, o) ==
    {<<"object", x>>, <<"kind", x, o.kind>>, <<"label", x, o.label>>}
    \cup {<<"alias", x, f.text.fold>> : f \in o.aliases}
    \cup {<<"summary", x, f.text>> : f \in o.summary}
    \cup {<<"property", x, p.term, p.literal>> : p \in o.properties}
    \cup {<<"aspect", x, f.kind>> : f \in o.aspects}
    \cup {<<"support", x, e>> : e \in o.evidence}

ToLinks(g) == {g.links[k] : k \in DOMAIN g.links}

FactsOf(g) ==
    (UNION {FactsOn(x, g.objects[x]) : x \in DOMAIN g.objects})
    \cup {<<"link", k.subject, k.predicate, k.object>> : k \in ToLinks(g)}

(* What an assertion says: at least this, when it is accepted.             *)
Supports(a) == {<<"support", a.subject, e.id>> : e \in a.evidence}

Says(a) ==
    CASE a.kind = "label" -> {<<"object", a.subject>>, <<"label", a.subject, a.text>>} \cup Supports(a)
      [] a.kind = "summary" -> {<<"summary", a.subject, a.text>>}
      [] a.kind = "relationship" -> {<<"link", a.subject, a.predicate, a.object>>}
      [] a.kind = "node" ->
           {<<"object", a.subject>>} \cup Supports(a)
           \cup {<<"alias", a.subject, a.aliases[i].fold>> : i \in DOMAIN a.aliases}
           \cup (IF a.outcome = "created_new"
                 THEN {<<"kind", a.subject, a.dmKind>>} ELSE {})
      [] a.kind = "edge" -> {<<"link", a.subject, a.dmPredicate, a.object>>}
      [] a.kind = "alias" -> {<<"alias", a.subject, a.text.fold>>}
      [] a.kind = "property" -> {<<"property", a.subject, a.term, a.literal>>}
      [] OTHER -> {}

(* And at most this: a new object has the kind its proposal gives it, its  *)
(* own id for a label, its label for an alias, and evidence made for it.   *)
MaySay(s, a) ==
    Says(a) \cup Supports(a)
    \cup (IF a.kind = "alias" \/ a.kind = "node"
          THEN {<<"support", a.subject, "evidence:" \o s.record.reviewed \o ":" \o a.subject>>} ELSE {})
    \cup (IF a.kind = "label"
          THEN {<<"kind", a.subject, p.kind>> : p \in {q \in ToSet(s.record.proposals) : q.target = a.subject}}
          ELSE {})
    \cup (IF a.kind = "node"
          THEN {<<"kind", a.subject, a.dmKind>>, <<"label", a.subject, LabelOf(a)>>,
                <<"alias", a.subject, LabelOf(a).fold>>}
          ELSE {})

(* What the reviewer accepted, by the verdicts of the stored record on the *)
(* candidate, of what its identity does not keep out of the graph.         *)
TakenOf(s) ==
    {a \in AssertionsOf(s.reviewed) :
        /\ \E v \in ToSet(s.record.verdicts) : v.id = a.id /\ v.state = "accepted"
        /\ a.outcome \notin NonMutating}

(* What a review takes from its parent: what a correction names; and, in   *)
(* schema 3, a label and its evidence, or a summary, that another replaces.*)
TakenFrom(s, g) ==
    LET targets == {x.target : x \in {y \in ToSet(s.reviewed.corrections) :
                                        y.kind # "contradicts_source_description"}}
        named(facets) == {f \in facets : f.id \in targets}
        says(x, kind) == \E a \in TakenOf(s) : a.kind = kind /\ a.subject = x
        from(x, o) ==
            {<<"alias", x, f.text.fold>> : f \in named(o.aliases)}
            \cup {<<"property", x, p.term, p.literal>> : p \in named(o.properties)}
            \cup {<<"aspect", x, f.kind>> : f \in named(o.aspects)}
            \cup {<<"summary", x, f.text>> :
                    f \in IF says(x, "summary") THEN o.summary ELSE named(o.summary)}
            \cup (IF says(x, "label")
                  THEN {<<"label", x, o.label>>} \cup {<<"support", x, e>> : e \in o.evidence}
                  ELSE {})
    IN  (UNION {from(x, g.objects[x]) : x \in DOMAIN g.objects})
        \cup {<<"link", k.subject, k.predicate, k.object>> :
                k \in {l \in ToLinks(g) : l.id \in targets}}

PublishedNow == Len(history') > Len(history) /\ history'[Len(history')].by # None

(* A review publishes nothing that is neither in the graph it was reviewed *)
(* against nor said by an assertion its reviewer accepted: a rejected      *)
(* assertion, an identity that was refused, a rival review of the same     *)
(* operation never reach the graph.                                        *)
NothingUnreviewed ==
    [][PublishedNow =>
        LET new == history'[Len(history')]
            s == StateFiled[new.by]
        IN  FactsOf(new.graph) \subseteq
              FactsOf(HeadOf.graph) \cup UNION {MaySay(s, a) : a \in TakenOf(s)}]_<<vars, worldVars>>

(* What a reviewer accepted is in the graph that is published, and so is   *)
(* everything else of its parent: only what a correction names, or a new   *)
(* label or summary takes the place of, is gone.  A correction comes after *)
(* the assertions, and so also takes what the same review says again.  And *)
(* the compatibility decoder reads all of what is published: the revision  *)
(* it makes of it says again whatever the graph says.                      *)
NothingLost ==
    [][PublishedNow =>
        LET new == history'[Len(history')]
            s == StateFiled[new.by]
        IN  /\ (FactsOf(HeadOf.graph) \cup UNION {Says(a) : a \in TakenOf(s)})
                  \ TakenFrom(s, HeadOf.graph) \subseteq FactsOf(new.graph)
            /\ DOMAIN HeadOf.graph.evidence \subseteq DOMAIN new.graph.evidence
            /\ SemanticParity(new.graph)]_<<vars, worldVars>>
=============================================================================
