-------------------------- MODULE ReviewPublication --------------------------
(***************************************************************************)
(* Finalized contribution reviews and their publication as world-graph     *)
(* revisions: the client procedure publish_finalized_review (application)  *)
(* against the one-transaction repository publish (PostgreSQL), on the     *)
(* store of WorldStore.                                                    *)
(*                                                                         *)
(* A client looks the review's publication up, loads the review and the    *)
(* admission policy, and submits a command.  The repository transaction    *)
(* locks the world, returns the publication if it is there, else locks the *)
(* profile, checks the policy, the identity guard and the admission        *)
(* validator, and either records a publication for a revision the world    *)
(* already has or publishes the revision and records it.  When the attempt *)
(* raises, the client probes for the publication once; when that does not  *)
(* find it and the failure is not a definite refusal, the outcome is       *)
(* reported unknown.  Clients may crash and call again.                    *)
(*                                                                         *)
(* Simplifications:                                                        *)
(*  - The other writers of the world (raw publish, rollback, identity      *)
(*    append, review finalization) hold the worlds row for their whole     *)
(*    transaction; they are atomic steps, possible while the row is free.  *)
(*    WorldGraph models the first two statement by statement.              *)
(*  - The graph a review materializes to is a function of the review and   *)
(*    its parent: its Content, on top of the parent the id names.          *)
(*  - Every graph of a world carries one profile, Profile; its row is      *)
(*    settled before the first review (the genesis revision used it).      *)
(*  - Source artifacts and revisions are insert-only, so what the guard    *)
(*    and the validator read of them cannot change after the review.       *)
(*  - The UNIQUE constraints of the two tables are not relied on:          *)
(*    publications are a log, and PublishedOverReviewedParent says the     *)
(*    constraints are never what stops a second row.                       *)
(***************************************************************************)
EXTENDS WorldStore

CONSTANTS
    Clients,
    Reviews,        \* review states a reviewer may finalize, see below
    DecisionPool,   \* identity decisions that may be appended later
    Guarded,        \* the identity decision the guarded reviews rest on
    Rejected,       \* reviews the profile's admission validator refuses
    Profile,        \* semantic profile of the worlds' graphs, or None
    MaxHeadEvents   \* bound: head moves per world

(* A review: its id, the operation and source plan it settles, the graph   *)
(* content it materializes to, and whether reviewed identity               *)
(* preconditions guard it.                                                 *)
ASSUME ReviewAssumption ==
    /\ \A r \in Reviews :
          /\ r.op \in Ops
          /\ r.content \in Contents
          /\ r.guarded \in BOOLEAN
    /\ Profile \in ProfileRef \cup {None}
    /\ Rejected \subseteq Reviews
    /\ Nobody \notin Clients
    /\ MaxHeadEvents \in Nat
    /\ None \notin [world : Worlds, review : Reviews]
    /\ None \notin {"published", "refused", "unknown"}

VARIABLES
    finalized,      \* contribution_reviews: per world, [review, parent]
    publications,   \* finalized_review_publications, in commit order
    identityLog,    \* identity_decisions of each world
    pc,             \* per client, how far its call has come
    call,           \* per client, the world and review it publishes
    policyRead,     \* per client, the policy it read before its attempt
    committed,      \* per client, whether the call's attempt took effect
    result          \* per client, what its last call returned

ledgerVars == <<finalized, publications, identityLog>>
clientVars == <<pc, call, policyRead, committed, result>>
vars == <<storeVars, lockVars, ledgerVars, clientVars>>

MaterializedPayload(review) == [content |-> review.content, profile |-> Profile]

(* expected_published_revision_id, known before the attempt.               *)
ExpectedRevision(w, f) == RevisionId(w, f.parent, f.review.op, MaterializedPayload(f.review))

Genesis(w) ==
    RevisionId(w, None, "genesis", [content |-> "genesis", profile |-> Profile])

Init ==
    /\ LockInit
    /\ revisions = [w \in Worlds |-> {Genesis(w)}]
    /\ head = [w \in Worlds |-> Genesis(w)]
    /\ headEvents = [w \in Worlds |->
          <<[kind |-> "publish", previous |-> None, target |-> Genesis(w)]>>]
    /\ \E policy \in Policies \cup {None} :
          profiles = [p \in ProfileIds |->
              IF Profile # None /\ p = Profile.id
              THEN [descriptor |-> Profile.descriptor, policy |-> policy,
                    protectedUse |-> IF policy = None THEN "false" ELSE "true"]
              ELSE None]
    /\ finalized = [w \in Worlds |-> {}]
    /\ publications = [w \in Worlds |-> <<>>]
    /\ identityLog = [w \in Worlds |-> {Guarded}]
    /\ pc = [c \in Clients |-> "idle"]
    /\ call = [c \in Clients |-> None]
    /\ policyRead = [c \in Clients |-> None]
    /\ committed = [c \in Clients |-> FALSE]
    /\ result = [c \in Clients |-> "none"]

-----------------------------------------------------------------------------
(* The other writers of a world.                                           *)

Quiet(w) == worldLock[w] = Nobody

Unused == Profile # None => profileLock[Profile.id] = Nobody

(* finalize: a second review of an operation or of a source plan is        *)
(* refused; the same review again is a replay.  The parent is the revision *)
(* the reviewer planned against, and finalize does not look at the head.   *)
FinalizeReview(w) ==
    \E review \in Reviews, parent \in revisions[w] :
        /\ Quiet(w) /\ Unused
        /\ \A f \in finalized[w] :
              f.review.op # review.op /\ f.review.plan # review.plan
        /\ finalized' = [finalized EXCEPT ![w] = @ \cup {[review |-> review, parent |-> parent]}]
        /\ profiles' = ProfileUsed(Profile, PolicyOf(Profile))
        /\ UNCHANGED <<revisions, head, headEvents, lockVars, publications, identityLog, clientVars>>

(* append of an identity decision: the insert does nothing when the id is  *)
(* there, and another decision of that id is refused.                      *)
AppendIdentity(w) ==
    \E d \in DecisionPool :
        /\ Quiet(w)
        /\ \A e \in identityLog[w] : e.id # d.id
        /\ identityLog' = [identityLog EXCEPT ![w] = @ \cup {d}]
        /\ UNCHANGED <<storeVars, lockVars, finalized, publications, clientVars>>

(* publish_revision called directly, with any operation and content.       *)
RawPublish(w) ==
    \E op \in Ops, content \in Contents :
        LET r == RevisionId(w, head[w], op, [content |-> content, profile |-> Profile])
        IN  /\ Quiet(w) /\ Unused
            /\ Len(headEvents[w]) < MaxHeadEvents
            /\ revisions' = [revisions EXCEPT ![w] = @ \cup {r}]
            /\ MoveHead(w, "publish", head[w], r)
            /\ profiles' = ProfileUsed(Profile, PolicyOf(Profile))
            /\ UNCHANGED <<lockVars, ledgerVars, clientVars>>

Rollback(w) ==
    \E target \in revisions[w] \ {head[w]} :
        /\ Quiet(w)
        /\ Len(headEvents[w]) < MaxHeadEvents
        /\ MoveHead(w, "rollback", head[w], target)
        /\ UNCHANGED <<revisions, profiles, lockVars, ledgerVars, clientVars>>

-----------------------------------------------------------------------------
(* What the transaction checks.                                            *)

(* The decisions that may redirect an object to another one.               *)
Redirecting == {"merge", "split", "reconciliation"}

(* The decision the review rests on still stands: it is an override in the *)
(* log, no active decision supersedes it or contradicts it for the same    *)
(* subject, and no active decision redirects its target elsewhere.         *)
GuardHolds(w) ==
    LET active == {d \in identityLog[w] : d.active}
        superseded == UNION {d.supersedes : d \in active}
    IN  /\ Guarded \in active
        /\ Guarded.kind = "override"
        /\ Guarded.id \notin superseded
        /\ ~\E d \in active :
              /\ d.kind = "override"
              /\ d.id # Guarded.id
              /\ d.id \notin superseded
              /\ d.subject = Guarded.subject
              /\ d.target # Guarded.target
        /\ ~\E d \in active :
              /\ d.kind \in Redirecting
              /\ d.subject = Guarded.target
              /\ d.target # Guarded.target

PublicationsOf(w, review) ==
    {i \in 1..Len(publications[w]) : publications[w][i].review = review}

(* The row that names the review, its operation or its revision.           *)
ExistingPublication(w, f) ==
    {i \in 1..Len(publications[w]) :
        \/ publications[w][i].review = f.review
        \/ publications[w][i].op = f.review.op
        \/ publications[w][i].revision = ExpectedRevision(w, f)}

Publication(w, f, policy) ==
    [review |-> f.review, op |-> f.review.op, parent |-> f.parent,
     revision |-> ExpectedRevision(w, f),
     policy |-> policy]

(* validate, once the policy asks for it.                                  *)
Admitted(review, policy) == policy # None => review \notin Rejected

-----------------------------------------------------------------------------
(* publish_finalized_review, up to its attempt.                            *)

At(c, place) == pc[c] = place

Goto(c, place) == pc' = [pc EXCEPT ![c] = place]

Return(c, answer) ==
    /\ pc' = [pc EXCEPT ![c] = "returned"]
    /\ result' = [result EXCEPT ![c] = answer]

Call(c) ==
    \E w \in Worlds, review \in Reviews :
        /\ At(c, "idle")
        /\ Goto(c, "lookup")
        /\ call' = [call EXCEPT ![c] = [world |-> w, review |-> review, found |-> None]]
        /\ UNCHANGED <<storeVars, lockVars, ledgerVars, policyRead, committed, result>>

(* get_for_review: a publication that is there is the answer.              *)
LookupFound(c) ==
    /\ At(c, "lookup")
    /\ PublicationsOf(call[c].world, call[c].review) # {}
    /\ Return(c, "published")
    /\ UNCHANGED <<storeVars, lockVars, ledgerVars, call, policyRead, committed>>

LookupMissing(c) ==
    /\ At(c, "lookup")
    /\ PublicationsOf(call[c].world, call[c].review) = {}
    /\ Goto(c, "load")
    /\ UNCHANGED <<storeVars, lockVars, ledgerVars, call, policyRead, committed, result>>

(* The review, its parent and the materialization are immutable rows and   *)
(* functions of them.                                                      *)
LoadReview(c) ==
    /\ At(c, "load")
    /\ \E f \in finalized[call[c].world] :
          /\ f.review = call[c].review
          /\ call' = [call EXCEPT ![c] = [@ EXCEPT !.found = f]]
    /\ Goto(c, "policy")
    /\ UNCHANGED <<storeVars, lockVars, ledgerVars, policyRead, committed, result>>

ReviewNotFound(c) ==
    /\ At(c, "load")
    /\ \A f \in finalized[call[c].world] : f.review # call[c].review
    /\ Return(c, "review_not_found")
    /\ UNCHANGED <<storeVars, lockVars, ledgerVars, call, policyRead, committed>>

(* get_admission_policy decides between a V1 and a V2 command.             *)
ReadPolicy(c) ==
    /\ At(c, "policy")
    /\ policyRead' = [policyRead EXCEPT ![c] = PolicyOf(Profile)]
    /\ Goto(c, "attempt")
    /\ UNCHANGED <<storeVars, lockVars, ledgerVars, call, committed, result>>

-----------------------------------------------------------------------------
(* The repository transaction.                                             *)

BeginPublish(c) ==
    /\ At(c, "attempt")
    /\ AcquireWorld(c, call[c].world)
    /\ Goto(c, "world_locked")
    /\ UNCHANGED <<storeVars, profileLock, ledgerVars, call, policyRead, committed, result>>

(* The transaction ends; what it raised, or the driver's error, sends the  *)
(* client to its probe.                                                    *)
Raise(c, error) ==
    /\ ReleaseAll(c)
    /\ Goto(c, "probe")
    /\ result' = [result EXCEPT ![c] = error]
    /\ UNCHANGED <<storeVars, ledgerVars, call, policyRead, committed>>

(* An exact replay returns the stored publication; a row of another        *)
(* review, or under another policy, conflicts (_validate_command_record).  *)
ReplayPublication(c) ==
    LET w == call[c].world
        existing == ExistingPublication(w, call[c].found)
        exact == \A i \in existing :
                    /\ publications[w][i].review = call[c].review
                    /\ publications[w][i].policy = policyRead[c]
    IN  /\ At(c, "world_locked")
        /\ existing # {}
        /\ ReleaseAll(c)
        /\ IF exact THEN Return(c, "published")
           ELSE Goto(c, "probe") /\ result' = [result EXCEPT ![c] = "denied"]
        /\ UNCHANGED <<storeVars, ledgerVars, call, policyRead, committed>>

LockProfile(c) ==
    /\ At(c, "world_locked")
    /\ ExistingPublication(call[c].world, call[c].found) = {}
    /\ AcquireProfile(c, Profile)
    /\ Goto(c, "profile_locked")
    /\ UNCHANGED <<storeVars, worldLock, ledgerVars, call, policyRead, committed, result>>

(* require_command_policy, the identity guard, the admission validator:    *)
(* each is a definite refusal.                                             *)
MayPublish(c) ==
    LET review == call[c].review
    IN  /\ policyRead[c] = PolicyOf(Profile)
        /\ review.guarded => GuardHolds(call[c].world)
        /\ Admitted(review, policyRead[c])

DenyPublish(c) ==
    /\ At(c, "profile_locked")
    /\ ~MayPublish(c)
    /\ Raise(c, "denied")

CheckPublish(c) ==
    /\ At(c, "profile_locked")
    /\ MayPublish(c)
    /\ Goto(c, "checked")
    /\ UNCHANGED <<storeVars, lockVars, ledgerVars, call, policyRead, committed, result>>

(* The revision is there already (raw publish): under a policy it must not *)
(* be adopted, else only the publication is recorded; the head stays.      *)
AdoptDenied(c) ==
    /\ At(c, "checked")
    /\ ExpectedRevision(call[c].world, call[c].found) \in revisions[call[c].world]
    /\ policyRead[c] # None
    /\ Raise(c, "denied")

(* COMMIT: the answer arrives, or it is lost and the client sees a driver  *)
(* error.                                                                  *)
Commit(c) ==
    /\ ReleaseAll(c)
    /\ committed' = [committed EXCEPT ![c] = TRUE]
    /\ \/ Return(c, "published")
       \/ /\ Goto(c, "probe")
          /\ result' = [result EXCEPT ![c] = "unavailable"]
    /\ UNCHANGED <<identityLog, finalized, call, policyRead>>

Record(c) ==
    publications' = [publications EXCEPT ![call[c].world] =
        Append(@, Publication(call[c].world, call[c].found, policyRead[c]))]

(* Mutant: a raw revision is adopted under any policy.                     *)
AdoptUnderPolicy(c) ==
    /\ At(c, "checked")
    /\ ExpectedRevision(call[c].world, call[c].found) \in revisions[call[c].world]
    /\ Record(c)
    /\ UNCHANGED storeVars
    /\ Commit(c)

AdoptRevision(c) ==
    /\ At(c, "checked")
    /\ ExpectedRevision(call[c].world, call[c].found) \in revisions[call[c].world]
    /\ policyRead[c] = None
    /\ Record(c)
    /\ UNCHANGED storeVars
    /\ Commit(c)

(* The compare-and-swap of the graph repository inside the transaction.    *)
PublishStale(c) ==
    /\ At(c, "checked")
    /\ ExpectedRevision(call[c].world, call[c].found) \notin revisions[call[c].world]
    /\ call[c].found.parent # head[call[c].world]
    /\ Raise(c, "stale")

(* Mutant: the head is not compared with the review's parent.              *)
PublishOverAnyHead(c) ==
    LET w == call[c].world
        r == ExpectedRevision(w, call[c].found)
    IN  /\ At(c, "checked")
        /\ r \notin revisions[w]
        /\ revisions' = [revisions EXCEPT ![w] = @ \cup {r}]
        /\ MoveHead(w, "publish", head[w], r)
        /\ profiles' = ProfileUsed(Profile, policyRead[c])
        /\ Record(c)
        /\ Commit(c)

PublishRevision(c) ==
    LET w == call[c].world
        r == ExpectedRevision(w, call[c].found)
    IN  /\ At(c, "checked")
        /\ r \notin revisions[w]
        /\ call[c].found.parent = head[w]
        /\ revisions' = [revisions EXCEPT ![w] = @ \cup {r}]
        /\ MoveHead(w, "publish", head[w], r)
        /\ profiles' = ProfileUsed(Profile, policyRead[c])
        /\ Record(c)
        /\ Commit(c)

(* A statement, the failure hook or the COMMIT fails: nothing is kept.     *)
AbortPublish(c) ==
    /\ pc[c] \in {"attempt", "world_locked", "profile_locked", "checked"}
    /\ Raise(c, "unavailable")

-----------------------------------------------------------------------------
(* The recovery probe after a failed attempt.                              *)

ProbeFound(c) ==
    /\ At(c, "probe")
    /\ PublicationsOf(call[c].world, call[c].review) # {}
    /\ Return(c, "published")
    /\ UNCHANGED <<storeVars, lockVars, ledgerVars, call, policyRead, committed>>

(* Mutant: a driver error is raised like a refusal.                        *)
ProbeFailedDefinite(c) ==
    /\ At(c, "probe")
    /\ Return(c, IF result[c] = "unavailable" THEN "stale" ELSE result[c])
    /\ UNCHANGED <<storeVars, lockVars, ledgerVars, call, policyRead, committed>>

(* The probe finds nothing, or fails: a refusal is raised again, anything  *)
(* else may or may not have happened.                                      *)
ProbeFailed(c) ==
    /\ At(c, "probe")
    /\ Return(c, IF result[c] = "unavailable" THEN "unknown" ELSE result[c])
    /\ UNCHANGED <<storeVars, lockVars, ledgerVars, call, policyRead, committed>>

(* The caller takes the answer, or the process dies: either way it may     *)
(* call again.                                                             *)
Forget(c) ==
    /\ pc' = [pc EXCEPT ![c] = "idle"]
    /\ call' = [call EXCEPT ![c] = None]
    /\ policyRead' = [policyRead EXCEPT ![c] = None]
    /\ committed' = [committed EXCEPT ![c] = FALSE]
    /\ result' = [result EXCEPT ![c] = "none"]
    /\ ReleaseAll(c)
    /\ UNCHANGED <<storeVars, ledgerVars>>

TakeAnswer(c) == At(c, "returned") /\ Forget(c)

Crash(c) == pc[c] \notin {"idle", "returned"} /\ Forget(c)

-----------------------------------------------------------------------------
Environment(w) ==
    FinalizeReview(w) \/ AppendIdentity(w) \/ RawPublish(w) \/ Rollback(w)

Lock(c) == BeginPublish(c) \/ LockProfile(c)

Step(c) ==
    \/ LookupFound(c) \/ LookupMissing(c) \/ LoadReview(c) \/ ReviewNotFound(c) \/ ReadPolicy(c)
    \/ ReplayPublication(c) \/ DenyPublish(c) \/ CheckPublish(c)
    \/ AdoptDenied(c) \/ AdoptRevision(c) \/ PublishStale(c) \/ PublishRevision(c)
    \/ ProbeFound(c) \/ ProbeFailed(c)

Next ==
    \/ \E w \in Worlds : Environment(w)
    \/ \E c \in Clients : Call(c) \/ Lock(c) \/ Step(c) \/ AbortPublish(c) \/ TakeAnswer(c) \/ Crash(c)

Spec == Init /\ [][Next]_vars

-----------------------------------------------------------------------------
(* Type correctness: rows name revisions and reviews of the model, a lock  *)
(* is held by a client whose transaction is open.                          *)
Stages ==
    {"idle", "lookup", "load", "policy", "attempt", "world_locked",
     "profile_locked", "checked", "probe", "returned"}

Row(w) ==
    [review : Reviews, op : Ops, parent : revisions[w], revision : revisions[w],
     policy : Policies \cup {None}]

TypeOK ==
    /\ pc \in [Clients -> Stages]
    /\ policyRead \in [Clients -> Policies \cup {None}]
    /\ committed \in [Clients -> BOOLEAN]
    /\ \A w \in Worlds :
          /\ head[w] \in revisions[w]
          /\ finalized[w] \subseteq [review : Reviews, parent : revisions[w]]
          /\ \A i \in 1..Len(publications[w]) : publications[w][i] \in Row(w)
          /\ worldLock[w] \in Clients =>
                pc[worldLock[w]] \in {"world_locked", "profile_locked", "checked"}
    /\ \A p \in ProfileIds :
          profileLock[p] \in Clients => pc[profileLock[p]] \in {"profile_locked", "checked"}

(* Every publication is of the revision its review plans, and that         *)
(* revision was the head once, in the place of the parent it was reviewed  *)
(* against: publish may adopt a stored revision, never an unmoved one.     *)
(* No review, operation or revision is published twice: the UNIQUE         *)
(* constraints of finalized_review_publications are never hit.             *)
PublishedOverReviewedParent ==
    \A w \in Worlds : \A i \in 1..Len(publications[w]) :
        LET p == publications[w][i]
            Again(q) == p.review = q.review \/ p.op = q.op \/ p.revision = q.revision
        IN  /\ [review |-> p.review, parent |-> p.parent] \in finalized[w]
            /\ \E e \in 1..Len(headEvents[w]) :
                  /\ headEvents[w][e].kind = "publish"
                  /\ headEvents[w][e].previous = p.parent
                  /\ headEvents[w][e].target = p.revision
            /\ \A j \in 1..i - 1 : ~Again(publications[w][j])

(* The object an active, unsuperseded override gives its subject, with no  *)
(* active decision that moves the object itself.                           *)
Settled(w, subject) ==
    LET active == {d \in identityLog[w] : d.active}
        standing == {d \in active : \A e \in active : d.id \notin e.supersedes}
        given == {d.target : d \in {x \in standing : x.kind = "override" /\ x.subject = subject}}
        moved == {d.subject : d \in {x \in active : x.kind \in Redirecting /\ x.subject # x.target}}
    IN  given \ moved

(* When a guarded review is published, the identity decision it rests on   *)
(* is still the answer of the identity log, at that instant: publish       *)
(* checks the log under the world's lock, and an append needs that lock.   *)
GuardCurrentAtPublish ==
    [][\A w \in Worlds :
          Len(publications'[w]) > Len(publications[w]) =>
              LET p == publications'[w][Len(publications'[w])]
              IN  p.review.guarded =>
                      Settled(w, Guarded.subject) = {Guarded.target}]_vars

(* Under a policy only admitted content becomes a finalized publication:   *)
(* a revision that was put there without the validator is never adopted,   *)
(* even when it is the very revision the review materializes to.           *)
ProtectedRevisionsAdmitted ==
    [][\A w \in Worlds :
          Len(publications'[w]) > Len(publications[w]) /\ PolicyOf(Profile) # None =>
              LET p == publications'[w][Len(publications'[w])]
              IN  /\ p.revision \notin revisions[w]
                  /\ p.policy = PolicyOf(Profile)
                  /\ p.review \notin Rejected]_vars

(* The client procedure and its repository give every review at most one   *)
(* effect and every caller an honest answer, through lost commits, failed  *)
(* attempts, crashes and the recovery probe.                               *)
Promise == INSTANCE PublishOnce WITH
    effective <- [w \in Worlds |->
                     {publications[w][i].review : i \in 1..Len(publications[w])}],
    asked <- [c \in Clients |->
                 IF pc[c] = "idle" THEN None
                 ELSE [world |-> call[c].world, review |-> call[c].review]],
    acted <- committed,
    answer <- [c \in Clients |->
                  IF pc[c] # "returned" THEN None
                  ELSE IF result[c] \in {"published", "unknown"} THEN result[c]
                  ELSE "refused"]

ImplementsPublishOnce == Promise!Spec
=============================================================================
