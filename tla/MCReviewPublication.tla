------------------------ MODULE MCReviewPublication ------------------------
(* ReviewPublication on one world with two clients.  Two reviews settle    *)
(* the same source plan, and a raw publication can produce the exact       *)
(* revision of either.                                                     *)
EXTENDS ReviewPublication, TLC

CONSTANTS c1, c2, w1, a, o1, o2, plan, prof, desc, pol

MCClients == {c1, c2}
MCSymmetry == Permutations(MCClients)
MCProfile == [id |-> prof, descriptor |-> desc]

free == [op |-> o1, plan |-> plan, content |-> a, guarded |-> FALSE]
rival == [op |-> o2, plan |-> plan, content |-> a, guarded |-> FALSE]
guardedReview == [op |-> o1, plan |-> "other", content |-> a, guarded |-> TRUE]

MCReviews == {free, rival, guardedReview}
MCRejected == {rival}

Decision(id, kind, subject, target, supersedes, active) ==
    [id |-> id, kind |-> kind, subject |-> subject, target |-> target,
     supersedes |-> supersedes, active |-> active]

MCGuarded == Decision(1, "override", "mention", "npc", {}, TRUE)
MCDecisions ==
    {Decision(2, "override", "mention", "other_npc", {1}, TRUE),
     Decision(3, "reconciliation", "npc", "other_npc", {}, TRUE)}
=============================================================================
