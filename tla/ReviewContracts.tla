-------------------------- MODULE ReviewContracts --------------------------
(***************************************************************************)
(* Contributions and their finalized reviews, in the four versions of the  *)
(* contract (contracts/contribution.py, contribution_review.py and         *)
(* contribution_review_v2.py to _v4.py), and the state a service builds    *)
(* and stores of a confirmed submission (application/contribution_review.py*)
(* and its _v2 to _v4).  Version 1 reviews labels, aliases, summaries and  *)
(* relationships of a graph of schema 3; the others review nodes, edges,   *)
(* aliases, attributes and evidence of a graph of schema 6, version 3 with *)
(* typed evidence, version 4 with properties besides.                      *)
(*                                                                         *)
(* Simplifications:                                                        *)
(*  - One world.  Contents that differ have labels that differ, and a      *)
(*    digest is taken of the label; the status of a contribution is beside *)
(*    it.  An id derived from a digest is a string that holds the digest.  *)
(*  - Candidates and assertions are numbered, so that their ids sort; the  *)
(*    text of an assertion is its label or its value, whichever its kind   *)
(*    uses, with its casefold; what a node, edge or property carries in    *)
(*    its JSON value are fields of the assertion.                          *)
(*  - The JSON bounds of property literals, times, locators, temporal      *)
(*    scopes and session references are left out.                          *)
(***************************************************************************)
EXTENDS Naturals, Sequences, FiniteSets, SequencesExt

Absent == "none"
NoId == <<>>
NoText == [fold |-> "", shown |-> ""]

Withdrawal == "contradicts_source_description"

NonMutating == {"ambiguous", "blocked_collision", "rejected", "provisional_new"}

(* _require_unique_sorted.                                                 *)
UniqueSorted(ids) == \A i, j \in DOMAIN ids : i < j => ids[i] < ids[j]

IdsOf(s) == [i \in DOMAIN s |-> s[i].id]

AssertionsOf(c) == ToSet(c.assertions)

(* Digests and the ids that are derived from them.                         *)
DigestOf(c) == c.id \o "/" \o c.label \o "/" \o c.status
IntentDigest(i) == "intent:" \o i.label
ReviewId(op, digest) == "review:" \o op \o "/" \o digest
ReviewedId(review, candidate) == "contribution:" \o review \o "/" \o candidate

-----------------------------------------------------------------------------
(* Contributions.                                                          *)

HasBasis(a) == a.evidence # {} \/ a.artifact # Absent \/ a.revision # Absent

ContributionV1(c) == \A a \in AssertionsOf(c) : a.state = "accepted" => HasBasis(a)

CorrectionWellFormed(x) == (x.replacement # NoId) <=> (x.kind = "contradicts_and_replaces")

WithdrawsDescriptions(c) == \E x \in ToSet(c.corrections) : x.kind = Withdrawal

(* Only versions 3 and 4 withdraw descriptions.                            *)
ContributionV2(c) ==
    /\ ContributionV1(c)
    /\ \A x \in ToSet(c.corrections) : CorrectionWellFormed(x)
    /\ ~WithdrawsDescriptions(c)

TypedEvidence(a) ==
    \A e \in a.evidence :
        /\ e.revision # Absent
        /\ a.artifact \in {Absent, e.artifact}
        /\ a.revision \in {Absent, e.revision}

ContributionV3(c) ==
    /\ ContributionV1(c)
    /\ \A x \in ToSet(c.corrections) : CorrectionWellFormed(x)
    /\ WithdrawsDescriptions(c) => (c.source = "graph_review" /\ c.reason # Absent)
    /\ \A a \in AssertionsOf(c) : TypedEvidence(a) /\ a.campaign = c.campaign

PropertyWellFormed(a) ==
    a.kind = "property" =>
        /\ a.literal # Absent
        /\ a.subject # Absent /\ a.object = Absent
        /\ a.predicate = Absent /\ a.text = NoText
        /\ a.evidence # {}

ContributionV4(c) == ContributionV3(c) /\ \A a \in AssertionsOf(c) : PropertyWellFormed(a)

-----------------------------------------------------------------------------
(* Identity proposals and the reviewer's verdicts on them.                 *)

ProposalWellFormed(p) ==
    \/ p.planned = "resolved_existing" /\ p.matched = {p.target}
    \/ p.planned = "provisional_new" /\ p.matched = {}

VerdictKinds == {"confirm_existing", "create_new", "reject_candidate"}

IdentityDecided(proposals, verdicts) ==
    /\ \A p \in ToSet(proposals) : ProposalWellFormed(p)
    /\ UniqueSorted(IdsOf(proposals))
    /\ \A i, j \in DOMAIN proposals : i # j => proposals[i].target # proposals[j].target
    /\ IdsOf(verdicts) = IdsOf(proposals)
    /\ \A i \in DOMAIN verdicts :
         /\ verdicts[i].target = proposals[i].target
         /\ verdicts[i].verdict \in VerdictKinds
         /\ verdicts[i].verdict = "confirm_existing" =>
              proposals[i].planned = "resolved_existing"
         /\ verdicts[i].verdict = "create_new" => proposals[i].planned = "provisional_new"

(* Of the verdicts of a record: the decided targets, and the verdict.      *)
Targets(r) == {v.target : v \in ToSet(r.identity)}

VerdictOn(r, x) == (CHOOSE v \in ToSet(r.identity) : v.target = x).verdict

OutcomeOf(verdict) ==
    CASE verdict = "confirm_existing" -> "resolved_existing"
      [] verdict = "create_new" -> "created_new"
      [] verdict = "reject_candidate" -> "rejected"

(* Every assertion has one verdict, accepted or rejected.                  *)
VerdictsCover(r, c) ==
    /\ UniqueSorted(IdsOf(r.verdicts))
    /\ ToSet(IdsOf(r.verdicts)) = ToSet(IdsOf(c.assertions))
    /\ \A v \in ToSet(r.verdicts) : v.state \in {"accepted", "rejected"}

StateOn(r, a) == (CHOOSE v \in ToSet(r.verdicts) : v.id = a.id).state

UniqueAssertions(c) ==
    \A i, j \in DOMAIN c.assertions : i # j => c.assertions[i].id # c.assertions[j].id

-----------------------------------------------------------------------------
(* Intents.                                                                *)

(* What every version asks of the candidate and of the digests.            *)
CandidateBound(i) ==
    /\ i.plan.candidate = DigestOf(i.candidate)
    /\ i.candidate.campaign = i.campaign
    /\ i.candidate.status = "active"
    /\ i.candidate.supersedes = Absent
    /\ i.candidate.decisions = {}

NodeKindsV1 == {"label", "alias", "summary"}

ReviewableV1(c) ==
    /\ UniqueAssertions(c)
    /\ \A a \in AssertionsOf(c) :
         /\ a.kind \in NodeKindsV1 \cup {"relationship"}
         /\ a.subject # Absent
         /\ a.kind \in NodeKindsV1 =>
              a.text # NoText /\ a.object = Absent /\ a.predicate = Absent
         /\ a.kind = "relationship" =>
              a.text = NoText /\ a.object # Absent /\ a.predicate # Absent

IntentV1(i) ==
    /\ CandidateBound(i)
    /\ i.candidate.source = "extraction"
    /\ i.candidate.mentions = {} /\ i.candidate.reason = Absent
    /\ ReviewableV1(i.candidate)
    /\ \A a \in AssertionsOf(i.candidate) :
         a.state = "candidate" /\ a.evidence # {} /\ a.visibility = "gm" /\ a.epistemic = "asserted"
    /\ i.proposals # <<>>
    /\ IdentityDecided(i.proposals, i.identity)
    /\ i.verdicts # <<>>
    /\ VerdictsCover(i, i.candidate)
    /\ \A a \in AssertionsOf(i.candidate) : a.kind \in NodeKindsV1 => a.subject \in Targets(i)
    /\ i.digest = IntentDigest(i)

(* The shapes of the kinds that are reviewed.                              *)
NoReference(a) == a.object = Absent /\ a.predicate = Absent

ShapeV2(a) ==
    /\ a.kind \in {"node", "alias", "attribute"} => a.subject # Absent /\ NoReference(a)
    /\ a.kind = "evidence_ref" => NoReference(a)
    /\ a.kind = "edge" => a.subject # Absent /\ a.object # Absent /\ a.predicate # Absent

ShapeV3(a) == ShapeV2(a)

ShapeV4(a) == ShapeV2(a) /\ PropertyWellFormed(a)

Shape(version, a) ==
    CASE version = 2 -> ShapeV2(a) [] version = 3 -> ShapeV3(a) [] version = 4 -> ShapeV4(a)

ReviewableKinds(version) ==
    {"node", "edge", "alias", "attribute", "evidence_ref"} \cup
    (IF version = 4 THEN {"property"} ELSE {})

IdentityKinds == {"node", "alias"}

(* What versions 2 to 4 ask: an identity is decided for every object an    *)
(* accepted node or alias is about, and for no other.                      *)
GovernedIntent(i) ==
    /\ CandidateBound(i)
    /\ i.plan.schema = 6
    /\ UniqueAssertions(i.candidate)
    /\ \A a \in AssertionsOf(i.candidate) :
         /\ a.state = "candidate"
         /\ HasBasis(a)
         /\ a.kind \in ReviewableKinds(i.version) => Shape(i.version, a)
    /\ VerdictsCover(i, i.candidate)
    /\ \A a \in AssertionsOf(i.candidate) :
         a.kind \notin ReviewableKinds(i.version) => StateOn(i, a) = "rejected"
    /\ IdentityDecided(i.proposals, i.identity)
    /\ Targets(i) = {a.subject : a \in {b \in AssertionsOf(i.candidate) :
                        b.kind \in IdentityKinds /\ StateOn(i, b) = "accepted"}}
    /\ i.digest = IntentDigest(i)

IntentV2(i) == ContributionV2(i.candidate) /\ GovernedIntent(i) /\ i.verdicts # <<>>

(* A review of no assertion is one of withdrawn descriptions only.         *)
EmptyOnlyWithdraws(c) ==
    c.assertions = <<>> =>
        c.corrections # <<>> /\ \A x \in ToSet(c.corrections) : x.kind = Withdrawal

IntentV3(i) ==
    /\ ContributionV3(i.candidate)
    /\ GovernedIntent(i)
    /\ EmptyOnlyWithdraws(i.candidate)

IntentV4(i) ==
    /\ ContributionV4(i.candidate)
    /\ GovernedIntent(i)
    /\ EmptyOnlyWithdraws(i.candidate)

(* A guarded intent, or record, rests on its own campaign and parent.      *)
GuardBasisV2(r) ==
    \A g \in r.guard : g.campaign = r.campaign /\ g.parent = r.plan.parent

GuardBasisV3(r) == GuardBasisV2(r)

-----------------------------------------------------------------------------
(* Submissions: an intent and the receipt that confirms it.                *)

ReceiptBinds(s) ==
    /\ s.receipt.op = s.intent.op
    /\ s.receipt.digest = s.intent.digest
    /\ s.receipt.actor = s.intent.reviewer
    /\ s.receipt.campaign = s.intent.campaign
    /\ s.receipt.parent = s.intent.plan.parent
    /\ s.receipt.time = s.intent.time

SubmissionV1(s) == IntentV1(s.intent) /\ ReceiptBinds(s)
SubmissionV2(s) == IntentV2(s.intent) /\ GuardBasisV2(s.intent) /\ ReceiptBinds(s)
SubmissionV3(s) == IntentV3(s.intent) /\ GuardBasisV3(s.intent) /\ ReceiptBinds(s)
SubmissionV4(s) == IntentV4(s.intent) /\ GuardBasisV3(s.intent) /\ ReceiptBinds(s)

(* The capability of the caller: to commit with this version's tool, as a  *)
(* game master of the campaign, on the parent the plan was made against.   *)
PolicyAdmits(s) ==
    /\ s.policy.tool = s.intent.version /\ s.policy.effect = "commit"
    /\ s.policy.admissibility = "gm"
    /\ s.policy.campaign = s.intent.campaign
    /\ s.policy.pin = s.intent.plan.parent

-----------------------------------------------------------------------------
(* Review states.                                                          *)

(* The record of a review.                                                 *)
RecordWellFormed(r) ==
    /\ r.review = ReviewId(r.op, r.digest)
    /\ r.reviewed = ReviewedId(r.review, r.candidate)
    /\ r.candidate # r.reviewed
    /\ r.preview = r.plan.candidate
    /\ IdentityDecided(r.proposals, r.identity)
    /\ UniqueSorted(IdsOf(r.verdicts))

RecordV1(r) == RecordWellFormed(r) /\ r.proposals # <<>> /\ r.verdicts # <<>>
RecordV2(r) == RecordWellFormed(r) /\ r.verdicts # <<>> /\ GuardBasisV2(r)
RecordV3(r) == RecordWellFormed(r) /\ GuardBasisV3(r)
RecordV4(r) == RecordWellFormed(r) /\ GuardBasisV3(r)

(* The candidate is kept as superseded by the reviewed contribution, which *)
(* the reviewer authored at the time of the review.                        *)
Succession(s) ==
    /\ s.candidate.id = s.record.candidate
    /\ s.reviewed.id = s.record.reviewed
    /\ {s.candidate.campaign, s.reviewed.campaign} = {s.record.campaign}
    /\ s.candidate.status = "superseded"
    /\ s.reviewed.status = "active"
    /\ s.reviewed.supersedes = s.candidate.id
    /\ s.reviewed.author = s.record.reviewer /\ s.reviewed.time = s.record.time
    /\ s.candidate.decisions = {} /\ s.reviewed.decisions = {}
    /\ DigestOf([s.candidate EXCEPT !.status = "active"]) = s.record.plan.candidate
    /\ s.reviewed.artifact = s.candidate.artifact
    /\ s.reviewed.revision = s.candidate.revision
    /\ DigestOf(s.candidate) = s.record.storedCandidate
    /\ DigestOf(s.reviewed) = s.record.storedReviewed

(* Every assertion is the candidate's, with the state the reviewer gave it.*)
Undecided(a) == [a EXCEPT !.state = "candidate", !.outcome = Absent]

AssertionsAsReviewed(s) ==
    /\ Len(s.reviewed.assertions) = Len(s.candidate.assertions)
    /\ VerdictsCover(s.record, s.candidate)
    /\ \A n \in DOMAIN s.reviewed.assertions :
         /\ Undecided(s.reviewed.assertions[n]) = Undecided(s.candidate.assertions[n])
         /\ s.reviewed.assertions[n].state = StateOn(s.record, s.reviewed.assertions[n])

(* A new object has one assertion that establishes it, and it is accepted; *)
(* nothing accepted rests on a rejected candidate.                         *)
IdentityClosed(s, establishing) ==
    \A x \in Targets(s.record) :
        LET about == {a \in AssertionsOf(s.reviewed) : x \in {a.subject, a.object}}
            labels == {a \in about : a.kind = establishing /\ a.subject = x}
        IN  /\ VerdictOn(s.record, x) = "create_new" =>
                  Cardinality(labels) = 1 /\ \A a \in labels : a.state = "accepted"
            /\ VerdictOn(s.record, x) = "reject_candidate" =>
                  \A a \in about : a.state = "rejected"

StateV1(s) ==
    /\ RecordV1(s.record) /\ ContributionV1(s.candidate) /\ ContributionV1(s.reviewed)
    /\ Succession(s)
    /\ s.candidate.source = "extraction" /\ s.reviewed.source = "graph_review"
    /\ \A c \in {s.candidate, s.reviewed} :
         c.mentions = {} /\ c.reason = Absent /\ ReviewableV1(c)
    /\ AssertionsAsReviewed(s)
    /\ \A a \in AssertionsOf(s.reviewed) :
         IF a.kind = "relationship" THEN a.outcome = Absent
         ELSE /\ a.subject \in Targets(s.record)
              /\ a.outcome = OutcomeOf(VerdictOn(s.record, a.subject))
    /\ IdentityClosed(s, "label")

(* The outcome of an assertion whose object no verdict is about stays.     *)
OutcomesAsReviewed(s) ==
    \A n \in DOMAIN s.reviewed.assertions :
        LET a == s.reviewed.assertions[n]
            decided == a.kind \in IdentityKinds /\ a.subject \in Targets(s.record)
        IN  /\ decided => a.outcome = OutcomeOf(VerdictOn(s.record, a.subject))
            /\ ~decided => a.outcome = s.candidate.assertions[n].outcome
            /\ a.kind \in IdentityKinds /\ ~decided => a.state = "rejected"

GovernedState(s) ==
    /\ Succession(s)
    /\ s.reviewed.source = s.candidate.source
    /\ s.reviewed.mentions = s.candidate.mentions
    /\ s.reviewed.reason = s.candidate.reason
    /\ s.reviewed.corrections = s.candidate.corrections
    /\ AssertionsAsReviewed(s)
    /\ OutcomesAsReviewed(s)
    /\ IdentityClosed(s, "node")

StateV2(s) ==
    /\ RecordV2(s.record) /\ ContributionV2(s.candidate) /\ ContributionV2(s.reviewed)
    /\ GovernedState(s)

StateV3(s) ==
    /\ RecordV3(s.record) /\ ContributionV3(s.candidate) /\ ContributionV3(s.reviewed)
    /\ GovernedState(s)

StateV4(s) ==
    /\ RecordV4(s.record) /\ ContributionV4(s.candidate) /\ ContributionV4(s.reviewed)
    /\ GovernedState(s)

-----------------------------------------------------------------------------
(* What a service builds of a submission, and when it submits it to the    *)
(* repository.                                                             *)

Reviewed(i, source, outcome(_)) ==
    [i.candidate EXCEPT
        !.id = ReviewedId(ReviewId(i.op, i.digest), i.candidate.id),
        !.label = i.label,
        !.source = source,
        !.status = "active",
        !.supersedes = i.candidate.id,
        !.author = i.reviewer,
        !.time = i.time,
        !.assertions = [n \in DOMAIN i.candidate.assertions |->
            [i.candidate.assertions[n] EXCEPT
                !.state = StateOn(i, i.candidate.assertions[n]),
                !.outcome = outcome(i.candidate.assertions[n])]]]

State(i, reviewed) ==
    LET candidate == [i.candidate EXCEPT !.status = "superseded"]
    IN  [candidate |-> candidate, reviewed |-> reviewed,
         record |-> [version |-> i.version, review |-> ReviewId(i.op, i.digest),
                     op |-> i.op, campaign |-> i.campaign, plan |-> i.plan,
                     digest |-> i.digest, preview |-> i.plan.candidate,
                     candidate |-> candidate.id, storedCandidate |-> DigestOf(candidate),
                     reviewed |-> reviewed.id, storedReviewed |-> DigestOf(reviewed),
                     proposals |-> i.proposals, identity |-> i.identity,
                     verdicts |-> i.verdicts, reviewer |-> i.reviewer, time |-> i.time,
                     guard |-> i.guard]]

BuildV1(i) ==
    LET outcome(a) == IF a.kind \in NodeKindsV1 THEN OutcomeOf(VerdictOn(i, a.subject))
                      ELSE Absent
    IN  State(i, Reviewed(i, "graph_review", outcome))

BuildV2(i) ==
    LET outcome(a) == IF a.kind \in IdentityKinds /\ a.subject \in Targets(i)
                      THEN OutcomeOf(VerdictOn(i, a.subject)) ELSE a.outcome
    IN  State(i, Reviewed(i, i.candidate.source, outcome))

BuildV3(i) == BuildV2(i)
BuildV4(i) == BuildV2(i)

BuildReviewState(i) ==
    CASE i.version = 1 -> BuildV1(i) [] i.version = 2 -> BuildV2(i)
      [] i.version = 3 -> BuildV3(i) [] i.version = 4 -> BuildV4(i)

SubmissionValid(s) ==
    CASE s.intent.version = 1 -> SubmissionV1(s) [] s.intent.version = 2 -> SubmissionV2(s)
      [] s.intent.version = 3 -> SubmissionV3(s) [] s.intent.version = 4 -> SubmissionV4(s)

StateValid(s) ==
    CASE s.record.version = 1 -> StateV1(s) [] s.record.version = 2 -> StateV2(s)
      [] s.record.version = 3 -> StateV3(s) [] s.record.version = 4 -> StateV4(s)

(* The submission is refused, or the state built of it is.                 *)
Submittable(s) ==
    /\ SubmissionValid(s)
    /\ PolicyAdmits(s)
    /\ StateValid(BuildReviewState(s.intent))
=============================================================================
