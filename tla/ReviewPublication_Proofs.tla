----------------------- MODULE ReviewPublication_Proofs -----------------------
(***************************************************************************)
(* Proofs about ReviewPublication for any number of worlds, clients,       *)
(* reviews and identity decisions: what a publication rests on, and that   *)
(* client and repository together implement PublishOnce.                   *)
(***************************************************************************)
EXTENDS ReviewPublication, TLAPS

-----------------------------------------------------------------------------
(* Types, complete enough to reason about a step.  What a row names is a   *)
(* revision some world stores.                                             *)
Stored == UNION {revisions[w] : w \in Worlds}

HeadEvent ==
    [kind : {"publish", "rollback"}, previous : Stored \cup {None}, target : Stored]

FinalizedRow == [review : Reviews, parent : Stored]

PublicationRow ==
    [review : Reviews, op : Ops, parent : Stored, revision : Stored,
     policy : Policies \cup {None}]

CallRecord == [world : Worlds, review : Reviews, found : FinalizedRow \cup {None}]

StoreTypes ==
    /\ revisions \in [Worlds -> SUBSET Stored]
    /\ head \in [Worlds -> Stored]
    /\ headEvents \in [Worlds -> Seq(HeadEvent)]
    /\ profiles \in [ProfileIds -> ProfileRow \cup {None}]
    /\ finalized \in [Worlds -> SUBSET FinalizedRow]
    /\ publications \in [Worlds -> Seq(PublicationRow)]
    /\ identityLog \in [Worlds -> SUBSET (DecisionPool \cup {Guarded})]
    /\ \A w \in Worlds :
          /\ head[w] \in revisions[w]
          /\ \A f \in finalized[w] : f.parent \in revisions[w]
          /\ \A i \in 1..Len(publications[w]) :
                /\ publications[w][i].parent \in revisions[w]
                /\ publications[w][i].revision \in revisions[w]

ClientTypes ==
    /\ worldLock \in [Worlds -> Clients \cup {Nobody}]
    /\ profileLock \in [ProfileIds -> Clients \cup {Nobody}]
    /\ pc \in [Clients -> Stages]
    /\ call \in [Clients -> CallRecord \cup {None}]
    /\ policyRead \in [Clients -> Policies \cup {None}]
    /\ committed \in [Clients -> BOOLEAN]
    /\ DOMAIN result = Clients
    /\ \A c \in Clients : pc[c] # "idle" => call[c] \in CallRecord

-----------------------------------------------------------------------------
(* The lock discipline: a lock is held by an open transaction, and an open *)
(* transaction holds the row of the world it publishes.                    *)
InTransaction == {"world_locked", "profile_locked", "checked"}

LockDiscipline ==
    /\ \A w \in Worlds : worldLock[w] \in Clients => pc[worldLock[w]] \in InTransaction
    /\ \A p \in ProfileIds :
          profileLock[p] \in Clients => pc[profileLock[p]] \in {"profile_locked", "checked"}
    /\ \A c \in Clients : pc[c] \in InTransaction => worldLock[call[c].world] = c

(* What a call has loaded and checked is still so: the review is stored,   *)
(* it is unpublished once that was seen under the lock, and the checks     *)
(* that passed would pass again.                                           *)
Loaded(c) ==
    /\ call[c].found \in finalized[call[c].world]
    /\ call[c].found.review = call[c].review

StillTrue ==
    \A c \in Clients :
        /\ pc[c] \in InTransaction \cup {"policy", "attempt"} => Loaded(c)
        /\ pc[c] \in {"profile_locked", "checked"} =>
              ExistingPublication(call[c].world, call[c].found) = {}
        /\ pc[c] = "checked" => MayPublish(c)

(* A call took effect only if it lost its answer since, or has given it;   *)
(* a failed attempt knows what it failed of.                               *)
Attempts ==
    \A c \in Clients :
        /\ committed[c] => pc[c] \in {"probe", "returned"}
        /\ pc[c] = "probe" => result[c] \in {"denied", "stale", "unavailable"}
        /\ pc[c] = "probe" /\ committed[c] => result[c] = "unavailable"

(* The profile's row was settled by the genesis revision, decisions have   *)
(* ids of their own, and no revision came into a world but as its head.    *)
ProfileSettled == Profile # None => profiles[Profile.id] \in ProfileRow

DecisionsTold ==
    \A w \in Worlds : \A d, e \in identityLog[w] : d.id = e.id => d = e

MadeHead(w, parent, revision) ==
    \E e \in 1..Len(headEvents[w]) :
        /\ headEvents[w][e].kind = "publish"
        /\ headEvents[w][e].previous = parent
        /\ headEvents[w][e].target = revision

StoredWereHead ==
    \A w \in Worlds : \A r \in revisions[w] : MadeHead(w, r.parent, r)

IInv ==
    /\ StoreTypes
    /\ ClientTypes
    /\ LockDiscipline
    /\ StillTrue
    /\ Attempts
    /\ ProfileSettled
    /\ DecisionsTold
    /\ StoredWereHead
    /\ PublishedOverReviewedParent

-----------------------------------------------------------------------------
(* The steps, by what they write.                                          *)
ClientStep(c) ==
    Call(c) \/ Lock(c) \/ Step(c) \/ AbortPublish(c) \/ TakeAnswer(c) \/ Crash(c)

(* The transaction of c ends without effect, or c stops.                   *)
EndStep(c) ==
    \/ ReplayPublication(c) \/ DenyPublish(c) \/ AdoptDenied(c) \/ PublishStale(c)
    \/ AbortPublish(c) \/ TakeAnswer(c) \/ Crash(c)

CommitStep(c) == AdoptRevision(c) \/ PublishRevision(c)

(* The client alone.                                                       *)
LocalStep(c) ==
    \/ Call(c) \/ LookupFound(c) \/ LookupMissing(c) \/ LoadReview(c) \/ ReviewNotFound(c)
    \/ ReadPolicy(c) \/ CheckPublish(c) \/ ProbeFound(c) \/ ProbeFailed(c)

LEMMA StepKinds ==
    ASSUME NEW c
    PROVE  ClientStep(c) <=> LocalStep(c) \/ Lock(c) \/ EndStep(c) \/ CommitStep(c)
BY DEF ClientStep, LocalStep, EndStep, CommitStep, Step

LEMMA LocalWrites ==
    ASSUME NEW c, LocalStep(c)
    PROVE  UNCHANGED <<storeVars, lockVars, ledgerVars>>
BY DEF LocalStep, Call, LookupFound, LookupMissing, LoadReview, ReviewNotFound, ReadPolicy,
       CheckPublish, ProbeFound, ProbeFailed, Goto, Return

LEMMA EndWrites ==
    ASSUME NEW c, EndStep(c)
    PROVE  UNCHANGED <<storeVars, ledgerVars>> /\ ReleaseAll(c)
BY DEF EndStep, ReplayPublication, DenyPublish, AdoptDenied, PublishStale, AbortPublish, TakeAnswer,
       Crash, Raise, Forget

LEMMA LockWrites ==
    ASSUME NEW c, Lock(c)
    PROVE  UNCHANGED <<storeVars, ledgerVars, call, policyRead, committed, result>>
BY DEF Lock, BeginPublish, LockProfile

(* Nobody but the environment and a commit writes what is durable.         *)
LEMMA DurableWrites ==
    ASSUME [Next]_vars
    PROVE  \/ UNCHANGED <<storeVars, ledgerVars>>
           \/ \E w \in Worlds : Environment(w)
           \/ \E c \in Clients : CommitStep(c)
<1>1. CASE UNCHANGED vars
  BY <1>1 DEF vars
<1>2. ASSUME NEW c \in Clients, ClientStep(c)
      PROVE  UNCHANGED <<storeVars, ledgerVars>> \/ CommitStep(c)
  BY <1>2, StepKinds, LocalWrites, EndWrites, LockWrites
<1> QED BY <1>1, <1>2 DEF Next, ClientStep

(* A step of one client leaves the calls and the locks of the others.      *)
LEMMA OthersUntouched ==
    ASSUME ClientTypes, NEW c \in Clients, ClientStep(c), NEW d \in Clients, d # c
    PROVE  /\ pc'[d] = pc[d]
           /\ call'[d] = call[d]
           /\ policyRead'[d] = policyRead[d]
           /\ committed'[d] = committed[d]
           /\ result'[d] = result[d]
           /\ \A w \in Worlds : worldLock'[w] = d <=> worldLock[w] = d
           /\ \A p \in ProfileIds : profileLock'[p] = d <=> profileLock[p] = d
<1> USE ReviewAssumption DEF ClientTypes
<1>1. CASE LocalStep(c)
  <2>1. worldLock' = worldLock /\ profileLock' = profileLock
    BY <1>1, LocalWrites DEF lockVars
  <2> QED BY <1>1, <2>1 DEF LocalStep, Call, LookupFound, LookupMissing, LoadReview, ReviewNotFound,
            ReadPolicy, CheckPublish, ProbeFound, ProbeFailed, Goto, Return
<1>2. CASE Lock(c)
  BY <1>2 DEF Lock, BeginPublish, LockProfile, AcquireWorld, AcquireProfile, Goto
<1>3. CASE EndStep(c)
  <2>1. ReleaseAll(c)
    BY <1>3, EndWrites
  <2>2. /\ \A w \in Worlds : worldLock'[w] = d <=> worldLock[w] = d
        /\ \A p \in ProfileIds : profileLock'[p] = d <=> profileLock[p] = d
    BY <2>1 DEF ReleaseAll
  <2> QED BY <1>3, <2>2 DEF EndStep, ReplayPublication, DenyPublish, AdoptDenied, PublishStale,
            AbortPublish, TakeAnswer, Crash, Raise, Forget, Goto, Return
<1>4. CASE CommitStep(c)
  <2>1. Commit(c)
    BY <1>4 DEF CommitStep, AdoptRevision, PublishRevision
  <2> QED BY <2>1 DEF Commit, ReleaseAll, Goto, Return
<1> QED BY <1>1, <1>2, <1>3, <1>4, StepKinds

-----------------------------------------------------------------------------
(* What a commit does, from what its call still knows to be true.          *)
Target(c) == ExpectedRevision(call[c].world, call[c].found)

HeadMove(w, kind, target) ==
    /\ head' = [head EXCEPT ![w] = target]
    /\ headEvents' = [headEvents EXCEPT ![w] =
            Append(@, [kind |-> kind, previous |-> head[w], target |-> target])]

AdoptsStored(c) ==
    /\ Target(c) \in revisions[call[c].world]
    /\ policyRead[c] = None
    /\ UNCHANGED storeVars

AddsChild(c) ==
    LET w == call[c].world
    IN  /\ Target(c) \notin revisions[w]
        /\ call[c].found.parent = head[w]
        /\ revisions' = [revisions EXCEPT ![w] = @ \cup {Target(c)}]
        /\ HeadMove(w, "publish", Target(c))
        /\ profiles' = ProfileUsed(Profile, policyRead[c])

LEMMA CallFields ==
    ASSUME ClientTypes, NEW c \in Clients, pc[c] # "idle"
    PROVE  /\ call[c] \in CallRecord
           /\ call[c].world \in Worlds
           /\ call[c].review \in Reviews
           /\ call[c].found \in FinalizedRow \cup {None}
BY DEF ClientTypes, CallRecord

LEMMA CommitEffect ==
    ASSUME NEW c, CommitStep(c)
    PROVE  /\ pc[c] = "checked"
           /\ AdoptsStored(c) \/ AddsChild(c)
           /\ publications' = [publications EXCEPT ![call[c].world] =
                 Append(@, Publication(call[c].world, call[c].found, policyRead[c]))]
           /\ Commit(c)
           /\ UNCHANGED <<finalized, identityLog, call, policyRead>>
<1>1. CASE AdoptRevision(c)
  BY <1>1 DEF AdoptRevision, Record, AdoptsStored, Target, Commit, At
<1>2. CASE PublishRevision(c)
  BY <1>2 DEF PublishRevision, Record, AddsChild, HeadMove, MoveHead, Target, Commit, At
<1> QED BY <1>1, <1>2 DEF CommitStep

LEMMA CommitRests ==
    ASSUME StoreTypes, ClientTypes, LockDiscipline, StillTrue, NEW c \in Clients, CommitStep(c)
    PROVE  LET w == call[c].world
               f == call[c].found
           IN  /\ w \in Worlds
               /\ f \in FinalizedRow /\ f \in finalized[w] /\ f.parent \in revisions[w]
               /\ f.review = call[c].review /\ f.review \in Reviews /\ f.review.op \in Ops
               /\ Target(c).parent = f.parent
               /\ Target(c) \in revisions'[w]
               /\ worldLock[w] = c
               /\ ExistingPublication(w, f) = {}
               /\ MayPublish(c)
<1> DEFINE w == call[c].world
           f == call[c].found
<1>1. pc[c] = "checked"
  BY CommitEffect
<1>2. w \in Worlds
  BY <1>1, CallFields
<1>3. f \in finalized[w] /\ f.review = call[c].review
  BY <1>1 DEF StillTrue, Loaded, InTransaction
<1>4. f \in FinalizedRow /\ f.parent \in revisions[w]
  BY <1>2, <1>3 DEF StoreTypes
<1>5. f.review \in Reviews /\ f.review.op \in Ops
  BY <1>4, ReviewAssumption DEF FinalizedRow
<1>6. worldLock[w] = c /\ ExistingPublication(w, f) = {} /\ MayPublish(c)
  BY <1>1 DEF LockDiscipline, StillTrue, InTransaction
<1>7. Target(c) \in revisions'[w]
  <2>1. CASE AdoptsStored(c)
    BY <2>1 DEF AdoptsStored, storeVars
  <2>2. CASE AddsChild(c)
    BY <1>2, <2>2 DEF AddsChild, StoreTypes
  <2> QED BY <2>1, <2>2, CommitEffect
<1>8. Target(c).parent = f.parent
  BY DEF Target, ExpectedRevision, RevisionId
<1> QED BY <1>2, <1>3, <1>4, <1>5, <1>6, <1>7, <1>8

-----------------------------------------------------------------------------
(* Every head move of the model, with what it does to the stored revisions.*)
PublishMove(w, target) ==
    /\ target.parent = head[w]
    /\ HeadMove(w, "publish", target)
    /\ revisions' = [revisions EXCEPT ![w] = @ \cup {target}]

RollbackMove(w, target) ==
    /\ target \in revisions[w]
    /\ HeadMove(w, "rollback", target)
    /\ UNCHANGED revisions

LEMMA HeadSteps ==
    ASSUME StoreTypes, ClientTypes, LockDiscipline, StillTrue, [Next]_vars
    PROVE  \/ UNCHANGED <<revisions, head, headEvents>>
           \/ \E w \in Worlds : \E target \in revisions'[w] :
                 PublishMove(w, target) \/ RollbackMove(w, target)
<1>1. CASE UNCHANGED <<storeVars, ledgerVars>>
  BY <1>1 DEF storeVars
<1>2. ASSUME NEW w \in Worlds, FinalizeReview(w) \/ AppendIdentity(w)
      PROVE  UNCHANGED <<revisions, head, headEvents>>
  BY <1>2 DEF FinalizeReview, AppendIdentity, storeVars
<1>3. ASSUME NEW w \in Worlds, RawPublish(w)
      PROVE  \E target \in revisions'[w] : PublishMove(w, target)
  <2>1. PICK op \in Ops, content \in Contents :
            LET r == RevisionId(w, head[w], op, [content |-> content, profile |-> Profile])
            IN  revisions' = [revisions EXCEPT ![w] = @ \cup {r}] /\ MoveHead(w, "publish", head[w], r)
    BY <1>3 DEF RawPublish
  <2> DEFINE r == RevisionId(w, head[w], op, [content |-> content, profile |-> Profile])
  <2>2. r.parent = head[w]
    BY DEF RevisionId
  <2>3. revisions' = [revisions EXCEPT ![w] = @ \cup {r}] /\ HeadMove(w, "publish", r)
    BY <2>1 DEF MoveHead, HeadMove
  <2>4. r \in revisions'[w]
    BY <2>3 DEF StoreTypes
  <2> HIDE DEF r
  <2> QED BY <2>2, <2>3, <2>4 DEF PublishMove
<1>4. ASSUME NEW w \in Worlds, Rollback(w)
      PROVE  \E target \in revisions'[w] : RollbackMove(w, target)
  BY <1>4 DEF Rollback, MoveHead, HeadMove, RollbackMove
<1>5. ASSUME NEW c \in Clients, CommitStep(c)
      PROVE  \/ UNCHANGED <<revisions, head, headEvents>>
             \/ \E w \in Worlds : \E target \in revisions'[w] : PublishMove(w, target)
  <2>1. call[c].world \in Worlds /\ Target(c) \in revisions'[call[c].world]
        /\ Target(c).parent = call[c].found.parent
    BY <1>5, CommitRests
  <2>2. CASE AdoptsStored(c)
    BY <2>2 DEF AdoptsStored, storeVars
  <2>3. CASE AddsChild(c)
    BY <2>1, <2>3 DEF AddsChild, PublishMove
  <2> QED BY <1>5, <2>2, <2>3, CommitEffect
<1> QED BY <1>1, <1>2, <1>3, <1>4, <1>5, DurableWrites DEF Environment

(* Nothing durable is ever forgotten.                                      *)
LEMMA StoreGrows ==
    ASSUME StoreTypes, ClientTypes, LockDiscipline, StillTrue, [Next]_vars, NEW w \in Worlds
    PROVE  /\ revisions[w] \subseteq revisions'[w]
           /\ finalized[w] \subseteq finalized'[w]
           /\ \A p, r : MadeHead(w, p, r) => MadeHead(w, p, r)'
<1>1. ASSUME UNCHANGED <<revisions, head, headEvents>>
      PROVE  /\ revisions[w] \subseteq revisions'[w]
             /\ \A p, r : MadeHead(w, p, r) => MadeHead(w, p, r)'
  BY <1>1 DEF MadeHead
<1>2. ASSUME NEW v \in Worlds, NEW target \in revisions'[v],
             PublishMove(v, target) \/ RollbackMove(v, target)
      PROVE  /\ revisions[w] \subseteq revisions'[w]
             /\ \A p, r : MadeHead(w, p, r) => MadeHead(w, p, r)'
  <2>1. revisions[w] \subseteq revisions'[w]
    BY <1>2 DEF PublishMove, RollbackMove, StoreTypes
  <2>2. /\ Len(headEvents'[w]) >= Len(headEvents[w])
        /\ \A i \in 1..Len(headEvents[w]) : headEvents'[w][i] = headEvents[w][i]
    <3>1. PICK e : headEvents' = [headEvents EXCEPT ![v] = Append(@, e)]
      BY <1>2 DEF PublishMove, RollbackMove, HeadMove
    <3>2. headEvents[w] \in Seq(HeadEvent)
      BY DEF StoreTypes
    <3>3. headEvents'[w] = headEvents[w] \/ headEvents'[w] = Append(headEvents[w], e)
      BY <3>1 DEF StoreTypes
    <3> QED BY <3>2, <3>3
  <2>3. Len(headEvents[w]) \in Nat /\ Len(headEvents'[w]) \in Nat
    BY <1>2 DEF PublishMove, RollbackMove, HeadMove, StoreTypes
  <2> QED BY <2>1, <2>2, <2>3 DEF MadeHead
<1>3. finalized[w] \subseteq finalized'[w]
  <2>1. CASE UNCHANGED <<storeVars, ledgerVars>>
    BY <2>1 DEF ledgerVars
  <2>2. ASSUME NEW v \in Worlds, Environment(v)
        PROVE  finalized[w] \subseteq finalized'[w]
    BY <2>2 DEF Environment, FinalizeReview, AppendIdentity, RawPublish, Rollback, ledgerVars, StoreTypes
  <2>3. ASSUME NEW c \in Clients, CommitStep(c)
        PROVE  finalized[w] \subseteq finalized'[w]
    BY <2>3, CommitEffect
  <2> QED BY <2>1, <2>2, <2>3, DurableWrites
<1> QED BY <1>1, <1>2, <1>3, HeadSteps

LEMMA TypesGrow ==
    ASSUME StoreTypes, ClientTypes, LockDiscipline, StillTrue, [Next]_vars
    PROVE  /\ Stored \subseteq Stored'
           /\ HeadEvent \subseteq HeadEvent'
           /\ FinalizedRow \subseteq FinalizedRow'
           /\ PublicationRow \subseteq PublicationRow'
           /\ CallRecord \subseteq CallRecord'
<1>1. Stored \subseteq Stored'
  BY StoreGrows DEF Stored
<1>2. HeadEvent \subseteq HeadEvent' /\ FinalizedRow \subseteq FinalizedRow'
  BY <1>1 DEF HeadEvent, FinalizedRow
<1>3. PublicationRow \subseteq PublicationRow'
  BY <1>1 DEF PublicationRow
<1>4. CallRecord \subseteq CallRecord'
  BY <1>2 DEF CallRecord
<1> QED BY <1>1, <1>2, <1>3, <1>4

(* The row of the profile is only ever rewritten by a use of it.           *)
LEMMA ProfileSteps ==
    ASSUME StoreTypes, ClientTypes, [Next]_vars
    PROVE  \/ UNCHANGED profiles
           \/ \E policy \in Policies \cup {None} : profiles' = ProfileUsed(Profile, policy)
<1>1. PolicyOf(Profile) \in Policies \cup {None}
  BY ReviewAssumption DEF PolicyOf, StoreTypes, ProfileRef, ProfileRow
<1>2. ASSUME NEW w \in Worlds, Environment(w)
      PROVE  UNCHANGED profiles \/ profiles' = ProfileUsed(Profile, PolicyOf(Profile))
  BY <1>2 DEF Environment, FinalizeReview, AppendIdentity, RawPublish, Rollback, storeVars
<1>3. ASSUME NEW c \in Clients, CommitStep(c)
      PROVE  UNCHANGED profiles \/ profiles' = ProfileUsed(Profile, policyRead[c])
  BY <1>3, CommitEffect DEF AdoptsStored, AddsChild, storeVars
<1>4. \A c \in Clients : policyRead[c] \in Policies \cup {None}
  BY DEF ClientTypes
<1> QED BY <1>1, <1>2, <1>3, <1>4, DurableWrites DEF storeVars

LEMMA UseKeepsPolicy ==
    ASSUME StoreTypes, ProfileSettled, NEW policy \in Policies \cup {None},
           profiles' = ProfileUsed(Profile, policy)
    PROVE  /\ profiles' \in [ProfileIds -> ProfileRow \cup {None}]
           /\ ProfileSettled'
           /\ PolicyOf(Profile)' = PolicyOf(Profile)
<1>1. CASE Profile = None
  BY <1>1 DEF ProfileUsed, StoreTypes, ProfileSettled, PolicyOf
<1>2. CASE Profile # None
  <2> DEFINE p == Profile.id
             row == [descriptor |-> Profile.descriptor,
                     policy |-> profiles[p].policy,
                     protectedUse |-> IF policy # None THEN "true" ELSE "false"]
  <2>1. Profile \in ProfileRef /\ p \in ProfileIds /\ Profile.descriptor \in Descriptors
    BY <1>2, ReviewAssumption DEF ProfileRef
  <2>2. profiles[p] \in ProfileRow /\ profiles[p] # None
    BY <1>2, NoneAssumption DEF ProfileSettled
  <2>3. profiles' = [profiles EXCEPT ![p] = row]
    BY <1>2, <2>2 DEF ProfileUsed
  <2>4. row \in ProfileRow
    BY <2>1, <2>2 DEF ProfileRow
  <2>5. row # None
    BY <2>4, NoneAssumption
  <2>6. profiles'[p] = row
    BY <2>1, <2>3 DEF StoreTypes
  <2>7. profiles' \in [ProfileIds -> ProfileRow \cup {None}]
    BY <2>3, <2>4 DEF StoreTypes
  <2>8. row.policy = profiles[p].policy
    OBVIOUS
  <2> HIDE DEF row
  <2> QED BY <1>2, <2>2, <2>4, <2>5, <2>6, <2>7, <2>8 DEF ProfileSettled, PolicyOf
<1> QED BY <1>1, <1>2

(* The policy of the profile never changes: it was settled at genesis.     *)
LEMMA PolicyFixed ==
    ASSUME StoreTypes, ClientTypes, ProfileSettled, [Next]_vars
    PROVE  /\ profiles' \in [ProfileIds -> ProfileRow \cup {None}]
           /\ ProfileSettled'
           /\ PolicyOf(Profile)' = PolicyOf(Profile)
<1>1. CASE UNCHANGED profiles
  BY <1>1 DEF StoreTypes, ProfileSettled, PolicyOf
<1> QED BY <1>1, ProfileSteps, UseKeepsPolicy

-----------------------------------------------------------------------------
(* The types of what is durable.                                           *)
LEMMA FinalizedTypes ==
    ASSUME StoreTypes, ClientTypes, LockDiscipline, StillTrue, [Next]_vars
    PROVE  /\ finalized' \in [Worlds -> SUBSET FinalizedRow']
           /\ \A w \in Worlds : \A f \in finalized'[w] : f.parent \in revisions'[w]
<1>1. ASSUME finalized' = finalized
      PROVE  /\ finalized' \in [Worlds -> SUBSET FinalizedRow']
             /\ \A w \in Worlds : \A f \in finalized'[w] : f.parent \in revisions'[w]
  BY <1>1, TypesGrow, StoreGrows DEF StoreTypes
<1>2. ASSUME NEW v \in Worlds, FinalizeReview(v)
      PROVE  /\ finalized' \in [Worlds -> SUBSET FinalizedRow']
             /\ \A w \in Worlds : \A f \in finalized'[w] : f.parent \in revisions'[w]
  <2>1. PICK review \in Reviews, parent \in revisions[v] :
            finalized' = [finalized EXCEPT ![v] = @ \cup {[review |-> review, parent |-> parent]}]
    BY <1>2 DEF FinalizeReview
  <2>2. revisions' = revisions
    BY <1>2 DEF FinalizeReview
  <2>3. [review |-> review, parent |-> parent] \in FinalizedRow
    BY DEF FinalizedRow, Stored
  <2>4. FinalizedRow \subseteq FinalizedRow'
    BY TypesGrow
  <2>5. finalized' \in [Worlds -> SUBSET FinalizedRow']
    BY <2>1, <2>3, <2>4 DEF StoreTypes
  <2>6. \A w \in Worlds : \A f \in finalized'[w] :
            f \in finalized[w] \/ (w = v /\ f = [review |-> review, parent |-> parent])
    BY <2>1 DEF StoreTypes
  <2> QED BY <2>2, <2>5, <2>6 DEF StoreTypes
<1>3. \/ finalized' = finalized
      \/ \E v \in Worlds : FinalizeReview(v)
  <2>1. ASSUME NEW w \in Worlds, Environment(w), ~FinalizeReview(w)
        PROVE  finalized' = finalized
    BY <2>1 DEF Environment, AppendIdentity, RawPublish, Rollback, ledgerVars
  <2> QED BY <2>1, DurableWrites, CommitEffect DEF ledgerVars
<1> QED BY <1>1, <1>2, <1>3

LEMMA PublicationSteps ==
    ASSUME [Next]_vars
    PROVE  publications' = publications \/ \E c \in Clients : CommitStep(c)
<1>1. ASSUME NEW w \in Worlds, Environment(w)
      PROVE  publications' = publications
  BY <1>1 DEF Environment, FinalizeReview, AppendIdentity, RawPublish, Rollback, ledgerVars
<1> QED BY <1>1, DurableWrites DEF ledgerVars

(* A commit adds one row to the publications of its world.                 *)
LEMMA CommitAppends ==
    ASSUME StoreTypes, ClientTypes, LockDiscipline, StillTrue, NEW c \in Clients, CommitStep(c)
    PROVE  LET w == call[c].world
               row == Publication(w, call[c].found, policyRead[c])
           IN  /\ w \in Worlds
               /\ Len(publications[w]) \in Nat
               /\ Len(publications'[w]) = Len(publications[w]) + 1
               /\ publications'[w][Len(publications[w]) + 1] = row
               /\ \A i \in 1..Len(publications[w]) : publications'[w][i] = publications[w][i]
               /\ \A v \in Worlds : v # w => publications'[v] = publications[v]
<1> DEFINE w == call[c].world
           row == Publication(w, call[c].found, policyRead[c])
<1>1. w \in Worlds
  BY CommitRests
<1>2. publications' = [publications EXCEPT ![w] = Append(@, row)]
  BY CommitEffect
<1>3. publications[w] \in Seq(PublicationRow)
  BY <1>1 DEF StoreTypes
<1>4. publications'[w] = Append(publications[w], row)
  BY <1>1, <1>2 DEF StoreTypes
<1>5. \A v \in Worlds : v # w => publications'[v] = publications[v]
  BY <1>1, <1>2 DEF StoreTypes
<1>6. /\ Len(publications[w]) \in Nat
      /\ Len(publications'[w]) = Len(publications[w]) + 1
      /\ publications'[w][Len(publications[w]) + 1] = row
      /\ \A i \in 1..Len(publications[w]) : publications'[w][i] = publications[w][i]
  <2> HIDE DEF row, w
  <2> QED BY <1>3, <1>4
<1> QED BY <1>1, <1>5, <1>6

LEMMA PublicationTypes ==
    ASSUME StoreTypes, ClientTypes, LockDiscipline, StillTrue, [Next]_vars
    PROVE  /\ publications' \in [Worlds -> Seq(PublicationRow')]
           /\ \A w \in Worlds : \A i \in 1..Len(publications'[w]) :
                 /\ publications'[w][i].parent \in revisions'[w]
                 /\ publications'[w][i].revision \in revisions'[w]
<1>1. \A w \in Worlds : publications[w] \in Seq(PublicationRow')
  BY TypesGrow DEF StoreTypes
<1>2. CASE publications' = publications
  BY <1>1, <1>2, StoreGrows DEF StoreTypes
<1>3. ASSUME NEW c \in Clients, CommitStep(c)
      PROVE  /\ publications' \in [Worlds -> Seq(PublicationRow')]
             /\ \A w \in Worlds : \A i \in 1..Len(publications'[w]) :
                   /\ publications'[w][i].parent \in revisions'[w]
                   /\ publications'[w][i].revision \in revisions'[w]
  <2> DEFINE w == call[c].world
             f == call[c].found
             row == Publication(w, f, policyRead[c])
  <2>1. /\ w \in Worlds
        /\ f \in FinalizedRow /\ f.parent \in revisions[w]
        /\ f.review \in Reviews /\ f.review.op \in Ops
        /\ Target(c) \in revisions'[w]
    BY <1>3, CommitRests
  <2>2. row.parent \in revisions'[w] /\ row.revision \in revisions'[w]
    BY <2>1, StoreGrows DEF Publication, Target
  <2>3. row \in PublicationRow'
    <3>1. row.parent \in Stored' /\ row.revision \in Stored'
      BY <2>1, <2>2 DEF Stored
    <3>2. policyRead[c] \in Policies \cup {None}
      BY DEF ClientTypes
    <3> QED BY <2>1, <3>1, <3>2 DEF Publication, PublicationRow
  <2>4. publications' = [publications EXCEPT ![w] = Append(@, row)]
    BY <1>3, CommitEffect
  <2>5. publications' \in [Worlds -> Seq(PublicationRow')]
    <3>1. Append(publications[w], row) \in Seq(PublicationRow')
      BY <1>1, <2>1, <2>3
    <3> QED BY <1>1, <2>4, <3>1 DEF StoreTypes
  <2>6. ASSUME NEW v \in Worlds, NEW i \in 1..Len(publications'[v])
        PROVE  publications'[v][i].parent \in revisions'[v] /\ publications'[v][i].revision \in revisions'[v]
    <3>1. CASE i \in 1..Len(publications[v]) /\ publications'[v][i] = publications[v][i]
      BY <3>1, StoreGrows DEF StoreTypes
    <3>2. CASE v = w /\ publications'[v][i] = row
      BY <2>2, <3>2
    <3> QED BY <1>3, <3>1, <3>2, <2>6, CommitAppends
  <2> QED BY <2>5, <2>6
<1> QED BY <1>2, <1>3, PublicationSteps

LEMMA HeadTypes ==
    ASSUME StoreTypes, ClientTypes, LockDiscipline, StillTrue, [Next]_vars
    PROVE  /\ revisions' \in [Worlds -> SUBSET Stored']
           /\ head' \in [Worlds -> Stored']
           /\ headEvents' \in [Worlds -> Seq(HeadEvent')]
           /\ \A w \in Worlds : head'[w] \in revisions'[w]
<1> USE DEF StoreTypes
<1>0. /\ head \in [Worlds -> Stored']
      /\ \A w \in Worlds : headEvents[w] \in Seq(HeadEvent') /\ head[w] \in revisions'[w]
  BY TypesGrow, StoreGrows
<1>1. CASE UNCHANGED <<revisions, head, headEvents>>
  BY <1>0, <1>1 DEF Stored
<1>2. ASSUME NEW v \in Worlds, NEW target \in revisions'[v],
             PublishMove(v, target) \/ RollbackMove(v, target)
      PROVE  /\ revisions' \in [Worlds -> SUBSET Stored']
             /\ head' \in [Worlds -> Stored']
             /\ headEvents' \in [Worlds -> Seq(HeadEvent')]
             /\ \A w \in Worlds : head'[w] \in revisions'[w]
  <2>1. DOMAIN revisions' = Worlds /\ revisions' = [w \in Worlds |-> revisions'[w]]
    BY <1>2 DEF PublishMove, RollbackMove
  <2>2. revisions' \in [Worlds -> SUBSET Stored']
    BY <2>1 DEF Stored
  <2>3. target \in Stored'
    BY DEF Stored
  <2>4. head' = [head EXCEPT ![v] = target]
    BY <1>2 DEF PublishMove, RollbackMove, HeadMove
  <2>5. PICK kind \in {"publish", "rollback"} :
            headEvents' = [headEvents EXCEPT ![v] =
                Append(@, [kind |-> kind, previous |-> head[v], target |-> target])]
    BY <1>2 DEF PublishMove, RollbackMove, HeadMove
  <2>6. [kind |-> kind, previous |-> head[v], target |-> target] \in HeadEvent'
    BY <1>0, <2>3 DEF HeadEvent
  <2>7. Append(headEvents[v], [kind |-> kind, previous |-> head[v], target |-> target])
          \in Seq(HeadEvent')
    BY <1>0, <2>6
  <2>8. headEvents' \in [Worlds -> Seq(HeadEvent')]
    BY <1>0, <2>5, <2>7
  <2> QED BY <1>0, <2>2, <2>3, <2>4, <2>8
<1> QED BY <1>1, <1>2, HeadSteps

LEMMA IdentitySteps ==
    ASSUME [Next]_vars
    PROVE  identityLog' = identityLog \/ \E w \in Worlds : AppendIdentity(w)
<1>1. ASSUME NEW w \in Worlds, FinalizeReview(w) \/ RawPublish(w) \/ Rollback(w)
      PROVE  identityLog' = identityLog
  BY <1>1 DEF FinalizeReview, RawPublish, Rollback, ledgerVars
<1> QED BY <1>1, DurableWrites, CommitEffect DEF ledgerVars, Environment

LEMMA IdentityStep ==
    ASSUME StoreTypes, DecisionsTold, [Next]_vars
    PROVE  /\ identityLog' \in [Worlds -> SUBSET (DecisionPool \cup {Guarded})]
           /\ DecisionsTold'
<1>1. CASE identityLog' = identityLog
  BY <1>1 DEF StoreTypes, DecisionsTold
<1>2. ASSUME NEW w \in Worlds, AppendIdentity(w)
      PROVE  /\ identityLog' \in [Worlds -> SUBSET (DecisionPool \cup {Guarded})]
             /\ DecisionsTold'
  <2>1. PICK d \in DecisionPool :
            /\ \A e \in identityLog[w] : e.id # d.id
            /\ identityLog' = [identityLog EXCEPT ![w] = @ \cup {d}]
    BY <1>2 DEF AppendIdentity
  <2> QED BY <2>1 DEF StoreTypes, DecisionsTold
<1> QED BY <1>1, <1>2, IdentitySteps

LEMMA StoreTypesStep ==
    ASSUME StoreTypes, ClientTypes, LockDiscipline, StillTrue, ProfileSettled, DecisionsTold,
           [Next]_vars
    PROVE  StoreTypes'
<1>1. finalized' \in [Worlds -> SUBSET FinalizedRow']
      /\ \A w \in Worlds : \A f \in finalized'[w] : f.parent \in revisions'[w]
  BY FinalizedTypes
<1>2. /\ publications' \in [Worlds -> Seq(PublicationRow')]
      /\ \A w \in Worlds : \A i \in 1..Len(publications'[w]) :
            /\ publications'[w][i].parent \in revisions'[w]
            /\ publications'[w][i].revision \in revisions'[w]
  BY PublicationTypes
<1>3. /\ revisions' \in [Worlds -> SUBSET Stored']
      /\ head' \in [Worlds -> Stored']
      /\ headEvents' \in [Worlds -> Seq(HeadEvent')]
      /\ \A w \in Worlds : head'[w] \in revisions'[w]
  BY HeadTypes
<1>4. profiles' \in [ProfileIds -> ProfileRow \cup {None}]
  BY PolicyFixed
<1>5. identityLog' \in [Worlds -> SUBSET (DecisionPool \cup {Guarded})]
  BY IdentityStep
<1> QED BY <1>1, <1>2, <1>3, <1>4, <1>5 DEF StoreTypes

-----------------------------------------------------------------------------
(* No stored revision came but as the head.                                *)
LEMMA StoredWereHeadStep ==
    ASSUME StoreTypes, ClientTypes, LockDiscipline, StillTrue, StoredWereHead, [Next]_vars
    PROVE  StoredWereHead'
<1>1. ASSUME NEW w \in Worlds, NEW r \in revisions[w]
      PROVE  MadeHead(w, r.parent, r)'
  BY StoreGrows DEF StoredWereHead
<1>2. ASSUME NEW v \in Worlds, NEW target \in revisions'[v], PublishMove(v, target)
      PROVE  MadeHead(v, target.parent, target)'
  <2>1. headEvents'[v] =
            Append(headEvents[v], [kind |-> "publish", previous |-> target.parent, target |-> target])
    BY <1>2 DEF PublishMove, HeadMove, StoreTypes
  <2>2. headEvents[v] \in Seq(HeadEvent)
    BY DEF StoreTypes
  <2>3. LET n == Len(headEvents[v]) + 1
        IN  /\ n \in 1..Len(headEvents'[v])
            /\ headEvents'[v][n] = [kind |-> "publish", previous |-> target.parent, target |-> target]
    BY <2>1, <2>2
  <2> QED BY <2>3 DEF MadeHead
<1>3. CASE revisions' = revisions
  BY <1>1, <1>3 DEF StoredWereHead
<1>4. ASSUME NEW v \in Worlds, NEW target \in revisions'[v], PublishMove(v, target)
      PROVE  StoredWereHead'
  <2>1. \A w \in Worlds : \A r \in revisions'[w] : r \in revisions[w] \/ (w = v /\ r = target)
    BY <1>4 DEF PublishMove, StoreTypes
  <2> QED BY <1>1, <1>2, <1>4, <2>1 DEF StoredWereHead
<1> QED BY <1>3, <1>4, HeadSteps DEF RollbackMove

(* A publication is over the parent its review was finalized against.      *)
LEMMA PublishedStep ==
    ASSUME StoreTypes, ClientTypes, LockDiscipline, StillTrue, StoredWereHead,
           PublishedOverReviewedParent, [Next]_vars
    PROVE  PublishedOverReviewedParent'
<1> DEFINE Again(p, q) == p.review = q.review \/ p.op = q.op \/ p.revision = q.revision
           Sound(w, i) ==
              LET p == publications[w][i]
              IN  /\ [review |-> p.review, parent |-> p.parent] \in finalized[w]
                  /\ MadeHead(w, p.parent, p.revision)
                  /\ \A j \in 1..i - 1 : ~Again(p, publications[w][j])
<1>1. \A w \in Worlds : \A i \in 1..Len(publications[w]) : Sound(w, i)
  BY DEF PublishedOverReviewedParent, MadeHead
<1>2. \A w \in Worlds : Len(publications[w]) \in Nat
  BY DEF StoreTypes
<1>3. ASSUME NEW w \in Worlds, NEW i \in 1..Len(publications[w]),
             \A j \in 1..Len(publications[w]) : publications'[w][j] = publications[w][j]
      PROVE  Sound(w, i)'
  <2>1. publications'[w][i] = publications[w][i]
    BY <1>3
  <2>2. \A j \in 1..i - 1 : publications'[w][j] = publications[w][j]
    BY <1>2, <1>3
  <2>3. Sound(w, i)
    BY <1>1
  <2> QED BY <2>1, <2>2, <2>3, StoreGrows
<1>4. ASSUME NEW c \in Clients, CommitStep(c), NEW w \in Worlds, w = call[c].world,
             NEW n \in Nat, n = Len(publications[w])
      PROVE  Sound(w, n + 1)'
  <2>1. PICK f : f = call[c].found
    OBVIOUS
  <2>2. PICK r : r = Target(c)
    OBVIOUS
  <2>3. PICK row : row = Publication(w, f, policyRead[c])
    OBVIOUS
  <2>4. /\ f \in FinalizedRow /\ f \in finalized[w]
        /\ ExistingPublication(w, f) = {}
        /\ r.parent = f.parent /\ r \in revisions'[w]
    BY <1>4, <2>1, <2>2, CommitRests
  <2>5. /\ publications'[w][n + 1] = row
        /\ \A j \in 1..n : publications'[w][j] = publications[w][j]
    BY <1>4, <2>1, <2>3, CommitAppends
  <2>6. row.review = f.review /\ row.op = f.review.op /\ row.parent = f.parent /\ row.revision = r
    BY <1>4, <2>1, <2>2, <2>3 DEF Publication, Target
  <2>7. [review |-> row.review, parent |-> row.parent] \in finalized'[w]
    BY <2>4, <2>6, StoreGrows DEF FinalizedRow
  <2>8. MadeHead(w, row.parent, row.revision)'
    <3>1. StoredWereHead'
      BY StoredWereHeadStep
    <3> QED BY <2>4, <2>6, <3>1 DEF StoredWereHead
  <2>9. \A j \in 1..n : ~Again(row, publications[w][j])
    BY <1>4, <2>1, <2>2, <2>4, <2>6 DEF ExistingPublication, Target
  <2>10. \A j \in 1..(n + 1) - 1 : ~Again(row, publications'[w][j])
    BY <2>5, <2>9
  <2> QED BY <2>5, <2>7, <2>8, <2>10
<1>5. \A w \in Worlds : \A i \in 1..Len(publications'[w]) : Sound(w, i)'
  <2>1. CASE publications' = publications
    BY <1>3, <2>1
  <2>2. ASSUME NEW c \in Clients, CommitStep(c), NEW w \in Worlds, NEW i \in 1..Len(publications'[w])
        PROVE  Sound(w, i)'
    <3>1. CASE w # call[c].world
      BY <1>3, <2>2, <3>1, CommitAppends
    <3>2. CASE w = call[c].world /\ i \in 1..Len(publications[w])
      BY <1>3, <2>2, <3>2, CommitAppends
    <3>3. CASE w = call[c].world /\ i = Len(publications[w]) + 1
      BY <1>2, <1>4, <2>2, <3>3
    <3>4. w = call[c].world => Len(publications'[w]) = Len(publications[w]) + 1
      BY <2>2, CommitAppends
    <3> QED BY <1>2, <2>2, <3>1, <3>2, <3>3, <3>4
  <2> QED BY <2>1, <2>2, PublicationSteps
<1> QED BY <1>5 DEF PublishedOverReviewedParent, MadeHead

-----------------------------------------------------------------------------
(* The types of the calls and the locks.                                   *)
LEMMA LoadEffect ==
    ASSUME StoreTypes, ClientTypes, NEW c \in Clients, LoadReview(c)
    PROVE  \E f \in FinalizedRow :
              /\ f \in finalized[call[c].world]
              /\ f.review = call[c].review
              /\ call' = [call EXCEPT ![c] =
                    [world |-> call[c].world, review |-> call[c].review, found |-> f]]
<1>1. PICK f \in finalized[call[c].world] :
          f.review = call[c].review /\ call' = [call EXCEPT ![c] = [call[c] EXCEPT !.found = f]]
  BY DEF LoadReview
<1>2. call[c] \in CallRecord /\ call[c].world \in Worlds
  BY CallFields DEF LoadReview, At
<1>3. [call[c] EXCEPT !.found = f] =
          [world |-> call[c].world, review |-> call[c].review, found |-> f]
  BY <1>2 DEF CallRecord
<1>4. f \in FinalizedRow
  BY <1>1, <1>2 DEF StoreTypes
<1> QED BY <1>1, <1>3, <1>4

LEMMA CallStep ==
    ASSUME StoreTypes, ClientTypes, NEW c \in Clients, ClientStep(c)
    PROVE  /\ call' \in [Clients -> CallRecord \cup {None}]
           /\ pc'[c] # "idle" => call'[c] \in CallRecord
<1> USE DEF ClientTypes, Stages
<1>1. CASE Call(c)
  <2>1. PICK w \in Worlds, review \in Reviews :
            call' = [call EXCEPT ![c] = [world |-> w, review |-> review, found |-> None]]
    BY <1>1 DEF Call
  <2>2. [world |-> w, review |-> review, found |-> None] \in CallRecord
    BY DEF CallRecord
  <2> QED BY <2>1, <2>2
<1>2. CASE LoadReview(c)
  <2>1. PICK f \in FinalizedRow :
            call' = [call EXCEPT ![c] =
                [world |-> call[c].world, review |-> call[c].review, found |-> f]]
    BY <1>2, LoadEffect
  <2>2. call[c].world \in Worlds /\ call[c].review \in Reviews
    BY <1>2, CallFields DEF LoadReview, At
  <2>3. [world |-> call[c].world, review |-> call[c].review, found |-> f] \in CallRecord
    BY <2>2 DEF CallRecord
  <2> QED BY <2>1, <2>3
<1>3. CASE \/ LookupFound(c) \/ LookupMissing(c) \/ ReviewNotFound(c) \/ ReadPolicy(c)
           \/ CheckPublish(c) \/ ProbeFound(c) \/ ProbeFailed(c) \/ Lock(c) \/ CommitStep(c)
           \/ ReplayPublication(c) \/ DenyPublish(c) \/ AdoptDenied(c) \/ PublishStale(c) \/ AbortPublish(c)
  <2>1. call' = call
    BY <1>3, LockWrites, CommitEffect DEF LookupFound, LookupMissing, ReviewNotFound, ReadPolicy,
         CheckPublish, ProbeFound, ProbeFailed, ReplayPublication, DenyPublish, AdoptDenied,
         PublishStale, AbortPublish, Raise
  <2>2. pc[c] # "idle"
    BY <1>3, CommitEffect DEF LookupFound, LookupMissing, ReviewNotFound, ReadPolicy,
         CheckPublish, ProbeFound, ProbeFailed, ReplayPublication, DenyPublish, AdoptDenied,
         PublishStale, AbortPublish, Lock, BeginPublish, LockProfile, At
  <2> QED BY <2>1, <2>2
<1>4. CASE TakeAnswer(c) \/ Crash(c)
  <2>1. call' = [call EXCEPT ![c] = None] /\ pc' = [pc EXCEPT ![c] = "idle"]
    BY <1>4 DEF TakeAnswer, Crash, Forget
  <2> QED BY <2>1
<1> QED BY <1>1, <1>2, <1>3, <1>4, StepKinds DEF LocalStep, EndStep

LEMMA ClientTypesStep ==
    ASSUME StoreTypes, ClientTypes, LockDiscipline, StillTrue, [Next]_vars
    PROVE  ClientTypes'
<1> USE DEF Stages
<1>0. call \in [Clients -> CallRecord' \cup {None}] /\ CallRecord \subseteq CallRecord'
  BY TypesGrow DEF ClientTypes
<1>1. CASE UNCHANGED <<lockVars, clientVars>>
  BY <1>0, <1>1 DEF lockVars, clientVars, ClientTypes
<1>2. ASSUME NEW c \in Clients, ClientStep(c)
      PROVE  ClientTypes'
  <2>1. /\ call' \in [Clients -> CallRecord' \cup {None}]
        /\ \A d \in Clients : pc'[d] # "idle" => call'[d] \in CallRecord'
    BY <1>0, <1>2, CallStep, OthersUntouched DEF ClientTypes
  <2>2. CASE LocalStep(c)
    <3>1. UNCHANGED <<worldLock, profileLock>>
      BY <2>2, LocalWrites DEF lockVars
    <3>2. PolicyOf(Profile) \in Policies \cup {None}
      BY ReviewAssumption DEF PolicyOf, StoreTypes, ProfileRef, ProfileRow
    <3>3. /\ pc' \in [Clients -> Stages]
          /\ policyRead' \in [Clients -> Policies \cup {None}]
          /\ committed' \in [Clients -> BOOLEAN]
          /\ DOMAIN result' = Clients
      BY <2>2, <3>2 DEF ClientTypes, LocalStep, Call, LookupFound, LookupMissing, LoadReview, ReviewNotFound,
            ReadPolicy, CheckPublish, ProbeFound, ProbeFailed, Goto, Return
    <3> QED BY <2>1, <3>1, <3>3 DEF ClientTypes
  <2>3. CASE Lock(c)
    <3>1. /\ worldLock' \in [Worlds -> Clients \cup {Nobody}]
          /\ profileLock' \in [ProfileIds -> Clients \cup {Nobody}]
          /\ pc' \in [Clients -> Stages]
      BY <2>3 DEF ClientTypes, Lock, BeginPublish, LockProfile, AcquireWorld, AcquireProfile, Goto
    <3> QED BY <2>1, <2>3, <3>1, LockWrites DEF ClientTypes
  <2>4. CASE EndStep(c) \/ CommitStep(c)
    <3>1. ReleaseAll(c)
      BY <2>4, EndWrites, CommitEffect DEF Commit
    <3>2. /\ worldLock' \in [Worlds -> Clients \cup {Nobody}]
          /\ profileLock' \in [ProfileIds -> Clients \cup {Nobody}]
      BY <3>1 DEF ClientTypes, ReleaseAll
    <3>3. /\ pc' \in [Clients -> Stages]
          /\ policyRead' \in [Clients -> Policies \cup {None}]
          /\ committed' \in [Clients -> BOOLEAN]
          /\ DOMAIN result' = Clients
      <4>1. CASE EndStep(c)
        BY <4>1 DEF ClientTypes, EndStep, ReplayPublication, DenyPublish, AdoptDenied, PublishStale,
              AbortPublish, TakeAnswer, Crash, Raise, Forget, Goto, Return
      <4>2. CASE CommitStep(c)
        BY <4>2, CommitEffect DEF ClientTypes, Commit, Goto, Return
      <4> QED BY <2>4, <4>1, <4>2
    <3> QED BY <2>1, <3>2, <3>3 DEF ClientTypes
  <2> QED BY <1>2, <2>2, <2>3, <2>4, StepKinds
<1>3. ASSUME NEW w \in Worlds, Environment(w)
      PROVE  UNCHANGED <<lockVars, clientVars>>
  BY <1>3 DEF Environment, FinalizeReview, AppendIdentity, RawPublish, Rollback
<1> QED BY <1>1, <1>2, <1>3 DEF Next, ClientStep, vars

-----------------------------------------------------------------------------
(* The locks.                                                              *)
LEMMA EnvironmentWrites ==
    ASSUME NEW w \in Worlds, Environment(w)
    PROVE  /\ UNCHANGED <<lockVars, clientVars, publications>>
           /\ worldLock[w] = Nobody
           /\ DOMAIN identityLog = Worlds =>
                 \A v \in Worlds : v # w => identityLog'[v] = identityLog[v]
BY DEF Environment, FinalizeReview, AppendIdentity, RawPublish, Rollback, Quiet, ledgerVars

LEMMA ReleasedLocks ==
    ASSUME ClientTypes, NEW c \in Clients, EndStep(c) \/ CommitStep(c)
    PROVE  /\ \A w \in Worlds : worldLock'[w] # c
           /\ \A p \in ProfileIds : profileLock'[p] # c
           /\ pc'[c] \in {"idle", "probe", "returned"}
<1>1. ReleaseAll(c)
  BY EndWrites, CommitEffect DEF Commit
<1>2. /\ \A w \in Worlds : worldLock'[w] # c
      /\ \A p \in ProfileIds : profileLock'[p] # c
  BY <1>1, ReviewAssumption DEF ReleaseAll
<1>3. pc'[c] \in {"idle", "probe", "returned"}
  <2>1. CASE EndStep(c)
    BY <2>1 DEF ClientTypes, EndStep, ReplayPublication, DenyPublish, AdoptDenied, PublishStale,
          AbortPublish, TakeAnswer, Crash, Raise, Forget, Goto, Return
  <2>2. CASE CommitStep(c)
    BY <2>2, CommitEffect DEF ClientTypes, Commit, Goto, Return
  <2> QED BY <2>1, <2>2
<1> QED BY <1>2, <1>3

(* What c itself holds after a step of its own.                            *)
LEMMA OwnLocks ==
    ASSUME ClientTypes, LockDiscipline, NEW c \in Clients, ClientStep(c)
    PROVE  /\ \A w \in Worlds : worldLock'[w] = c => pc'[c] \in InTransaction
           /\ \A p \in ProfileIds : profileLock'[p] = c => pc'[c] \in {"profile_locked", "checked"}
           /\ pc'[c] \in InTransaction => worldLock'[call'[c].world] = c
<1> USE DEF InTransaction
<1>0. /\ \A w \in Worlds : worldLock[w] = c => pc[c] \in InTransaction
      /\ \A p \in ProfileIds : profileLock[p] = c => pc[c] \in {"profile_locked", "checked"}
      /\ pc[c] \in InTransaction => worldLock[call[c].world] = c
  BY DEF LockDiscipline
<1>1. CASE CheckPublish(c)
  <2>1. UNCHANGED <<worldLock, profileLock, call>> /\ pc[c] = "profile_locked" /\ pc'[c] = "checked"
    BY <1>1 DEF CheckPublish, At, Goto, lockVars, ClientTypes
  <2> QED BY <1>0, <2>1
<1>2. CASE LocalStep(c) /\ ~CheckPublish(c)
  <2>1. UNCHANGED <<worldLock, profileLock>>
    BY <1>2, LocalWrites DEF lockVars
  <2>2. pc[c] \notin InTransaction /\ pc'[c] \notin InTransaction
    BY <1>2 DEF LocalStep, Call, LookupFound, LookupMissing, LoadReview, ReviewNotFound,
          ReadPolicy, ProbeFound, ProbeFailed, At, Goto, Return, ClientTypes
  <2> QED BY <1>0, <2>1, <2>2
<1>3. CASE BeginPublish(c)
  <2>1. call[c].world \in Worlds
    BY <1>3, CallFields DEF BeginPublish, At
  <2>2. /\ pc[c] = "attempt" /\ pc'[c] = "world_locked" /\ UNCHANGED <<profileLock, call>>
        /\ worldLock' = [worldLock EXCEPT ![call[c].world] = c]
    BY <1>3 DEF BeginPublish, At, Goto, AcquireWorld, ClientTypes
  <2> QED BY <1>0, <2>1, <2>2 DEF ClientTypes
<1>4. CASE LockProfile(c)
  <2>1. pc[c] = "world_locked" /\ pc'[c] = "profile_locked" /\ UNCHANGED <<worldLock, call>>
    BY <1>4 DEF LockProfile, At, Goto, ClientTypes
  <2> QED BY <1>0, <2>1
<1>5. CASE EndStep(c) \/ CommitStep(c)
  BY <1>5, ReleasedLocks
<1> QED BY <1>1, <1>2, <1>3, <1>4, <1>5, StepKinds DEF Lock

LEMMA LockDisciplineStep ==
    ASSUME ClientTypes, LockDiscipline, [Next]_vars
    PROVE  LockDiscipline'
<1>1. CASE UNCHANGED <<lockVars, clientVars>>
  BY <1>1 DEF lockVars, clientVars, LockDiscipline
<1>2. ASSUME NEW c \in Clients, ClientStep(c)
      PROVE  LockDiscipline'
  <2>1. ASSUME NEW d \in Clients, d # c
        PROVE  /\ \A w \in Worlds : worldLock'[w] = d => pc'[d] \in InTransaction
               /\ \A p \in ProfileIds : profileLock'[p] = d => pc'[d] \in {"profile_locked", "checked"}
               /\ pc'[d] \in InTransaction => worldLock'[call'[d].world] = d
    <3>1. ASSUME pc[d] \in InTransaction
          PROVE  call[d].world \in Worlds
      BY <3>1, CallFields DEF InTransaction
    <3> QED BY <1>2, <2>1, <3>1, OthersUntouched DEF LockDiscipline
  <2> QED BY <1>2, <2>1, OwnLocks DEF LockDiscipline
<1> QED BY <1>1, <1>2, EnvironmentWrites DEF Next, ClientStep, vars

-----------------------------------------------------------------------------
(* What a transaction has seen under the lock of its world stays so: the   *)
(* publications and the decisions of a world change in no other's step.    *)
LEMMA WritesUnderLock ==
    ASSUME StoreTypes, ClientTypes, LockDiscipline, StillTrue, [Next]_vars,
           NEW w \in Worlds,
           publications'[w] # publications[w] \/ identityLog'[w] # identityLog[w]
    PROVE  \/ worldLock[w] = Nobody
           \/ \E c \in Clients : CommitStep(c) /\ worldLock[w] = c
<1>1. ASSUME NEW v \in Worlds, Environment(v)
      PROVE  worldLock[w] = Nobody
  <2>1. DOMAIN identityLog = Worlds
    BY DEF StoreTypes
  <2> QED BY <1>1, <2>1, EnvironmentWrites
<1>2. ASSUME NEW c \in Clients, CommitStep(c)
      PROVE  worldLock[w] = c
  <2>1. identityLog' = identityLog
    BY <1>2, CommitEffect
  <2> QED BY <1>2, <2>1, CommitAppends, CommitRests
<1> QED BY <1>1, <1>2, DurableWrites DEF ledgerVars

LEMMA KeepsTrue ==
    ASSUME StoreTypes, ClientTypes, LockDiscipline, StillTrue, ProfileSettled, [Next]_vars,
           NEW d \in Clients, pc[d] # "idle",
           pc'[d] = pc[d], call'[d] = call[d], policyRead'[d] = policyRead[d],
           ~CommitStep(d)
    PROVE  /\ Loaded(d) => Loaded(d)'
           /\ pc[d] \in InTransaction /\ ExistingPublication(call[d].world, call[d].found) = {} =>
                 ExistingPublication(call[d].world, call[d].found)' = {}
           /\ pc[d] \in InTransaction /\ MayPublish(d) => MayPublish(d)'
<1>1. call[d].world \in Worlds
  BY CallFields
<1>2. Loaded(d) => Loaded(d)'
  BY <1>1, StoreGrows DEF Loaded
<1>3. ASSUME pc[d] \in InTransaction
      PROVE  /\ publications'[call[d].world] = publications[call[d].world]
             /\ identityLog'[call[d].world] = identityLog[call[d].world]
  <2>1. worldLock[call[d].world] = d /\ d # Nobody
    BY <1>3, ReviewAssumption DEF LockDiscipline
  <2> QED BY <1>1, <2>1, WritesUnderLock
<1>4. ASSUME pc[d] \in InTransaction, ExistingPublication(call[d].world, call[d].found) = {}
      PROVE  ExistingPublication(call[d].world, call[d].found)' = {}
  BY <1>3, <1>4 DEF ExistingPublication, ExpectedRevision, MaterializedPayload, RevisionId
<1>5. ASSUME pc[d] \in InTransaction, MayPublish(d)
      PROVE  MayPublish(d)'
  <2>1. PolicyOf(Profile)' = PolicyOf(Profile)
    BY PolicyFixed
  <2>2. GuardHolds(call[d].world)' = GuardHolds(call[d].world)
    BY <1>3, <1>5 DEF GuardHolds
  <2> QED BY <1>5, <2>1, <2>2 DEF MayPublish, Admitted
<1> QED BY <1>2, <1>4, <1>5

(* The part of StillTrue that concerns one client.                         *)
TrueOf(c) ==
    /\ pc[c] \in InTransaction \cup {"policy", "attempt"} => Loaded(c)
    /\ pc[c] \in {"profile_locked", "checked"} =>
          ExistingPublication(call[c].world, call[c].found) = {}
    /\ pc[c] = "checked" => MayPublish(c)

LEMMA StillTrueKept ==
    ASSUME StoreTypes, ClientTypes, LockDiscipline, StillTrue, ProfileSettled, [Next]_vars,
           NEW d \in Clients,
           pc'[d] = pc[d], call'[d] = call[d], policyRead'[d] = policyRead[d],
           ~CommitStep(d)
    PROVE  TrueOf(d)'
BY KeepsTrue DEF StillTrue, TrueOf, InTransaction

LEMMA StillTrueOwn ==
    ASSUME StoreTypes, ClientTypes, LockDiscipline, StillTrue, ProfileSettled,
           NEW c \in Clients, ClientStep(c)
    PROVE  TrueOf(c)'
<1> USE DEF InTransaction
<1>0. TrueOf(c)
  BY DEF StillTrue, TrueOf
<1>1. CASE LoadReview(c)
  <2>1. PICK f \in FinalizedRow :
            /\ f \in finalized[call[c].world]
            /\ f.review = call[c].review
            /\ call' = [call EXCEPT ![c] =
                  [world |-> call[c].world, review |-> call[c].review, found |-> f]]
    BY <1>1, LoadEffect
  <2>2. call'[c] = [world |-> call[c].world, review |-> call[c].review, found |-> f]
    BY <2>1 DEF ClientTypes
  <2>3. pc'[c] = "policy" /\ finalized' = finalized
    BY <1>1 DEF LoadReview, Goto, ledgerVars, ClientTypes
  <2>4. Loaded(c)'
    BY <2>1, <2>2, <2>3 DEF Loaded
  <2> QED BY <2>3, <2>4 DEF TrueOf
<1>2. CASE ReadPolicy(c) \/ BeginPublish(c)
  <2>1. /\ pc[c] \in {"policy", "attempt"} /\ pc'[c] \in {"attempt", "world_locked"}
        /\ call' = call /\ finalized' = finalized
    BY <1>2 DEF ReadPolicy, BeginPublish, At, Goto, ledgerVars, ClientTypes
  <2> QED BY <1>0, <2>1 DEF TrueOf, Loaded
<1>3. CASE LockProfile(c)
  <2>1. /\ pc[c] = "world_locked" /\ pc'[c] = "profile_locked"
        /\ call' = call /\ finalized' = finalized /\ publications' = publications
        /\ ExistingPublication(call[c].world, call[c].found) = {}
    BY <1>3 DEF LockProfile, At, Goto, ledgerVars, ClientTypes
  <2>2. ExistingPublication(call[c].world, call[c].found)' = {}
    BY <2>1 DEF ExistingPublication, ExpectedRevision, MaterializedPayload, RevisionId
  <2> QED BY <1>0, <2>1, <2>2 DEF TrueOf, Loaded
<1>4. CASE CheckPublish(c)
  <2>1. /\ pc[c] = "profile_locked" /\ pc'[c] = "checked"
        /\ UNCHANGED <<call, policyRead, finalized, publications, identityLog, profiles>>
        /\ MayPublish(c)
    BY <1>4 DEF CheckPublish, At, Goto, ledgerVars, storeVars, ClientTypes
  <2>2. ExistingPublication(call[c].world, call[c].found)' = {}
    BY <1>0, <2>1 DEF TrueOf, ExistingPublication, ExpectedRevision, MaterializedPayload, RevisionId
  <2>3. MayPublish(c)'
    BY <2>1 DEF MayPublish, GuardHolds, Admitted, PolicyOf
  <2> QED BY <1>0, <2>1, <2>2, <2>3 DEF TrueOf, Loaded
<1>5. CASE \/ Call(c) \/ LookupFound(c) \/ LookupMissing(c) \/ ReviewNotFound(c)
           \/ ProbeFound(c) \/ ProbeFailed(c) \/ EndStep(c) \/ CommitStep(c)
  <2>1. pc'[c] \in {"idle", "lookup", "load", "probe", "returned"}
    <3>1. CASE EndStep(c) \/ CommitStep(c)
      BY <3>1, ReleasedLocks
    <3>2. CASE ~(EndStep(c) \/ CommitStep(c))
      BY <1>5, <3>2 DEF Call, LookupFound, LookupMissing, ReviewNotFound, ProbeFound, ProbeFailed,
            Goto, Return, ClientTypes
    <3> QED BY <3>1, <3>2
  <2> QED BY <2>1 DEF TrueOf
<1> QED BY <1>1, <1>2, <1>3, <1>4, <1>5, StepKinds DEF LocalStep, Lock

LEMMA StillTrueStep ==
    ASSUME StoreTypes, ClientTypes, LockDiscipline, StillTrue, ProfileSettled, [Next]_vars
    PROVE  StillTrue'
<1>1. ASSUME NEW c \in Clients, ClientStep(c), NEW d \in Clients
      PROVE  TrueOf(d)'
  <2>1. CASE d = c
    BY <1>1, <2>1, StillTrueOwn
  <2>2. CASE d # c
    <3>1. pc'[d] = pc[d] /\ call'[d] = call[d] /\ policyRead'[d] = policyRead[d]
      BY <1>1, <2>2, OthersUntouched
    <3>2. CASE CommitStep(d)
      BY <1>1, <3>2, StepKinds, StillTrueOwn
    <3> QED BY <3>1, <3>2, StillTrueKept
  <2> QED BY <2>1, <2>2
<1>2. ASSUME UNCHANGED clientVars, NEW d \in Clients
      PROVE  TrueOf(d)'
  <2>1. CASE CommitStep(d)
    BY <2>1, StepKinds, StillTrueOwn
  <2> QED BY <1>2, <2>1, StillTrueKept DEF clientVars
<1> QED BY <1>1, <1>2, EnvironmentWrites DEF Next, ClientStep, vars, StillTrue, TrueOf

(* What a call knows of its attempt.                                       *)
LEMMA AttemptsStep ==
    ASSUME ClientTypes, Attempts, [Next]_vars
    PROVE  Attempts'
<1> DEFINE Attempt(c) ==
              /\ committed[c] => pc[c] \in {"probe", "returned"}
              /\ pc[c] = "probe" => result[c] \in {"denied", "stale", "unavailable"}
              /\ pc[c] = "probe" /\ committed[c] => result[c] = "unavailable"
<1>1. CASE UNCHANGED clientVars
  BY <1>1 DEF clientVars, Attempts
<1>2. ASSUME NEW c \in Clients, ClientStep(c)
      PROVE  Attempt(c)'
  <2>0. Attempt(c)
    BY DEF Attempts
  <2> USE DEF ClientTypes
  <2>1. CASE LocalStep(c)
    <3>1. /\ pc'[c] # "probe"
          /\ committed'[c] = committed[c]
          /\ committed[c] => pc'[c] = "returned"
      BY <2>0, <2>1 DEF LocalStep, Call, LookupFound, LookupMissing, LoadReview, ReviewNotFound,
            ReadPolicy, CheckPublish, ProbeFound, ProbeFailed, At, Goto, Return
    <3> QED BY <3>1
  <2>2. CASE Lock(c)
    <3>1. ~committed[c] /\ pc'[c] # "probe" /\ committed' = committed
      BY <2>0, <2>2, LockWrites DEF Lock, BeginPublish, LockProfile, At, Goto
    <3> QED BY <3>1
  <2>3. CASE EndStep(c)
    <3>1. CASE TakeAnswer(c) \/ Crash(c)
      BY <3>1 DEF TakeAnswer, Crash, Forget
    <3>2. CASE ~(TakeAnswer(c) \/ Crash(c))
      <4>1. ~committed[c] /\ committed' = committed
        BY <2>0, <2>3, <3>2 DEF EndStep, ReplayPublication, DenyPublish, AdoptDenied, PublishStale,
              AbortPublish, Raise, At
      <4>2. pc'[c] = "probe" => result'[c] \in {"denied", "stale", "unavailable"}
        BY <2>3, <3>2 DEF EndStep, ReplayPublication, DenyPublish, AdoptDenied, PublishStale,
              AbortPublish, Raise, Goto, Return
      <4> QED BY <4>1, <4>2
    <3> QED BY <3>1, <3>2
  <2>4. CASE CommitStep(c)
    BY <2>4, CommitEffect DEF Commit, Goto, Return
  <2> QED BY <1>2, <2>1, <2>2, <2>3, <2>4, StepKinds
<1>3. ASSUME NEW c \in Clients, ClientStep(c), NEW d \in Clients, d # c
      PROVE  Attempt(d)'
  BY <1>3, OthersUntouched DEF Attempts
<1> QED BY <1>1, <1>2, <1>3, EnvironmentWrites DEF Next, ClientStep, vars, Attempts

-----------------------------------------------------------------------------
(* The inductive invariant, and the theorems.                              *)
LEMMA InvariantInit == Init => IInv
<1> SUFFICES ASSUME Init PROVE IInv
  OBVIOUS
<1> USE DEF Init
<1>1. \A w \in Worlds : revisions[w] = {Genesis(w)} /\ head[w] = Genesis(w) /\ Genesis(w).parent = None
  BY DEF Genesis, RevisionId
<1>2. revisions \in [Worlds -> SUBSET Stored] /\ \A w \in Worlds : Genesis(w) \in Stored
  BY <1>1 DEF Stored
<1>3. PICK policy \in Policies \cup {None} :
          profiles = [p \in ProfileIds |->
              IF Profile # None /\ p = Profile.id
              THEN [descriptor |-> Profile.descriptor, policy |-> policy,
                    protectedUse |-> IF policy = None THEN "false" ELSE "true"]
              ELSE None]
  OBVIOUS
<1>4. ProfileSettled /\ profiles \in [ProfileIds -> ProfileRow \cup {None}]
  BY <1>3, ReviewAssumption DEF ProfileSettled, ProfileRow, ProfileRef
<1>5. \A w \in Worlds : headEvents[w] = <<[kind |-> "publish", previous |-> None, target |-> Genesis(w)]>>
  OBVIOUS
<1>6. headEvents \in [Worlds -> Seq(HeadEvent)]
  <2>1. \A w \in Worlds : [kind |-> "publish", previous |-> None, target |-> Genesis(w)] \in HeadEvent
    BY <1>2 DEF HeadEvent
  <2>2. ASSUME NEW w \in Worlds
        PROVE  headEvents[w] \in Seq(HeadEvent)
    <3>1. PICK e \in HeadEvent : headEvents[w] = <<e>>
      BY <2>1
    <3> HIDE DEF Init
    <3>2. <<e>> \in Seq(HeadEvent)
      OBVIOUS
    <3> QED BY <3>1, <3>2
  <2> QED BY <2>2 DEF Init
<1>7. StoredWereHead
  BY <1>1, <1>5 DEF StoredWereHead, MadeHead
<1>8. /\ finalized \in [Worlds -> SUBSET FinalizedRow]
      /\ publications \in [Worlds -> Seq(PublicationRow)]
      /\ identityLog \in [Worlds -> SUBSET (DecisionPool \cup {Guarded})]
  OBVIOUS
<1>9. StoreTypes
  BY <1>1, <1>2, <1>4, <1>6, <1>8 DEF StoreTypes
<1>10. ClientTypes
  BY DEF ClientTypes, LockInit, Stages
<1>11. LockDiscipline /\ StillTrue /\ Attempts
  BY ReviewAssumption DEF LockDiscipline, StillTrue, Attempts, LockInit, InTransaction
<1>12. DecisionsTold /\ PublishedOverReviewedParent
  BY DEF DecisionsTold, PublishedOverReviewedParent
<1> QED BY <1>4, <1>7, <1>9, <1>10, <1>11, <1>12 DEF IInv

LEMMA InvariantStep == IInv /\ [Next]_vars => IInv'
BY StoreTypesStep, ClientTypesStep, LockDisciplineStep, StillTrueStep, AttemptsStep, PolicyFixed,
   IdentityStep, StoredWereHeadStep, PublishedStep DEF IInv

LEMMA Invariance == Spec => []IInv
BY InvariantInit, InvariantStep, PTL DEF Spec

(* Rows name stored revisions and reviews of the model, and a lock is held *)
(* only by a client whose transaction is open.                             *)
THEOREM TypeCorrect == Spec => []TypeOK
<1>1. IInv => TypeOK
  <2> SUFFICES ASSUME IInv PROVE TypeOK
    OBVIOUS
  <2>1. ASSUME NEW w \in Worlds, NEW f \in finalized[w]
        PROVE  f \in [review : Reviews, parent : revisions[w]]
    BY DEF IInv, StoreTypes, FinalizedRow
  <2>2. ASSUME NEW w \in Worlds, NEW i \in 1..Len(publications[w])
        PROVE  publications[w][i] \in Row(w)
    <3>1. publications[w][i] \in PublicationRow
      BY DEF IInv, StoreTypes
    <3> QED BY <3>1 DEF IInv, StoreTypes, PublicationRow, Row
  <2> QED BY <2>1, <2>2 DEF IInv, StoreTypes, ClientTypes, LockDiscipline, InTransaction, TypeOK
<1> QED BY <1>1, Invariance, PTL

(* Every publication is of a finalized review, over the very parent it was *)
(* reviewed against, and of a revision that was head in that parent's      *)
(* place; no review, operation or revision is published twice, so the      *)
(* UNIQUE constraints of finalized_review_publications are never hit.      *)
THEOREM AlwaysPublishedOverReviewedParent == Spec => []PublishedOverReviewedParent
BY Invariance, PTL DEF IInv

(* What a step that publishes rests on.                                    *)
LEMMA PublishingStep ==
    ASSUME IInv, [Next]_vars, NEW w \in Worlds,
           Len(publications'[w]) > Len(publications[w])
    PROVE  \E c \in Clients :
              /\ CommitStep(c)
              /\ w = call[c].world
              /\ publications'[w][Len(publications'[w])] = Publication(w, call[c].found, policyRead[c])
              /\ call[c].found.review = call[c].review
              /\ call[c].review \in Reviews
              /\ MayPublish(c)
<1> USE DEF IInv
<1>1. Len(publications[w]) \in Nat
  BY DEF StoreTypes
<1>2. PICK c \in Clients : CommitStep(c)
  BY <1>1, PublicationSteps
<1>3. w = call[c].world
  BY <1>1, <1>2, CommitAppends
<1>4. publications'[w][Len(publications'[w])] = Publication(w, call[c].found, policyRead[c])
  BY <1>2, <1>3, CommitAppends
<1> QED BY <1>2, <1>3, <1>4, CommitRests

(* A guard that holds settles the subject on the guarded decision's target.*)
LEMMA GuardSettles ==
    ASSUME DecisionsTold, NEW w \in Worlds, GuardHolds(w)
    PROVE  Settled(w, Guarded.subject) = {Guarded.target}
<1> DEFINE active == {d \in identityLog[w] : d.active}
           superseded == UNION {d.supersedes : d \in active}
           standing == {d \in active : \A e \in active : d.id \notin e.supersedes}
           given == {d.target : d \in {x \in standing : x.kind = "override" /\ x.subject = Guarded.subject}}
           moved == {d.subject : d \in {x \in active : x.kind \in Redirecting /\ x.subject # x.target}}
<1>1. /\ Guarded \in active
      /\ Guarded.kind = "override"
      /\ Guarded.id \notin superseded
      /\ \A d \in active : d.kind = "override" /\ d.id # Guarded.id /\ d.id \notin superseded
                             /\ d.subject = Guarded.subject => d.target = Guarded.target
      /\ \A d \in active : d.kind \in Redirecting /\ d.subject = Guarded.target =>
                              d.target = Guarded.target
  BY DEF GuardHolds
<1>2. \A d \in active : d \in standing <=> d.id \notin superseded
  OBVIOUS
<1>3. Guarded \in standing
  BY <1>1, <1>2
<1>4. \A d \in standing : d.id = Guarded.id => d = Guarded
  BY <1>1 DEF DecisionsTold
<1>5. given = {Guarded.target}
  BY <1>1, <1>2, <1>3, <1>4
<1>6. Guarded.target \notin moved
  BY <1>1
<1>7. Settled(w, Guarded.subject) = given \ moved
  BY DEF Settled
<1> HIDE DEF given, moved
<1> QED BY <1>5, <1>6, <1>7

(* A guarded review is published only while its identity decision is the   *)
(* log's own answer.                                                       *)
THEOREM GuardAlwaysCurrent == Spec => GuardCurrentAtPublish
<1>1. IInv /\ [Next]_vars =>
        \A w \in Worlds :
          Len(publications'[w]) > Len(publications[w]) =>
              LET p == publications'[w][Len(publications'[w])]
              IN  p.review.guarded => Settled(w, Guarded.subject) = {Guarded.target}
  <2> SUFFICES ASSUME IInv, [Next]_vars, NEW w \in Worlds,
                      Len(publications'[w]) > Len(publications[w]),
                      publications'[w][Len(publications'[w])].review.guarded
               PROVE  Settled(w, Guarded.subject) = {Guarded.target}
    OBVIOUS
  <2>1. PICK c \in Clients :
              /\ w = call[c].world
              /\ publications'[w][Len(publications'[w])] = Publication(w, call[c].found, policyRead[c])
              /\ call[c].found.review = call[c].review
              /\ MayPublish(c)
    BY PublishingStep
  <2>2. call[c].review.guarded
    BY <2>1 DEF Publication
  <2>3. GuardHolds(w)
    BY <2>1, <2>2 DEF MayPublish
  <2> QED BY <2>3, GuardSettles DEF IInv
<1> QED BY <1>1, Invariance, PTL DEF Spec, GuardCurrentAtPublish

(* Under a policy nothing is published but what the validator admitted, as *)
(* a revision the world did not have, and under that very policy.          *)
THEOREM ProtectedAlwaysAdmitted == Spec => ProtectedRevisionsAdmitted
<1>1. IInv /\ [Next]_vars =>
        \A w \in Worlds :
          Len(publications'[w]) > Len(publications[w]) /\ PolicyOf(Profile) # None =>
              LET p == publications'[w][Len(publications'[w])]
              IN  /\ p.revision \notin revisions[w]
                  /\ p.policy = PolicyOf(Profile)
                  /\ p.review \notin Rejected
  <2> SUFFICES ASSUME IInv, [Next]_vars, NEW w \in Worlds,
                      Len(publications'[w]) > Len(publications[w]), PolicyOf(Profile) # None
               PROVE  LET p == publications'[w][Len(publications'[w])]
                      IN  /\ p.revision \notin revisions[w]
                          /\ p.policy = PolicyOf(Profile)
                          /\ p.review \notin Rejected
    OBVIOUS
  <2>1. PICK c \in Clients :
              /\ CommitStep(c)
              /\ w = call[c].world
              /\ publications'[w][Len(publications'[w])] = Publication(w, call[c].found, policyRead[c])
              /\ call[c].found.review = call[c].review
              /\ MayPublish(c)
    BY PublishingStep
  <2>2. policyRead[c] = PolicyOf(Profile) /\ call[c].review \notin Rejected
    BY <2>1 DEF MayPublish, Admitted
  <2>3. Target(c) \notin revisions[w]
    BY <2>1, <2>2, CommitEffect DEF AdoptsStored, AddsChild
  <2> QED BY <2>1, <2>2, <2>3 DEF Publication, Target
<1> QED BY <1>1, Invariance, PTL DEF Spec, ProtectedRevisionsAdmitted

-----------------------------------------------------------------------------
(* The refinement of PublishOnce, one client at a time.                    *)
Effective == [w \in Worlds |-> {publications[w][i].review : i \in 1..Len(publications[w])}]

AskedBy(c) ==
    IF pc[c] = "idle" THEN None
    ELSE [world |-> call[c].world, review |-> call[c].review]

AnswerTo(c) ==
    IF pc[c] # "returned" THEN None
    ELSE IF result[c] \in {"published", "unknown"} THEN result[c]
    ELSE "refused"

Asked == [c \in Clients |-> AskedBy(c)]
Answers == [c \in Clients |-> AnswerTo(c)]

(* A step of c changes no other client's part of the abstract state.       *)
LEMMA OnlyOneClient ==
    ASSUME ClientTypes, ClientTypes', NEW c \in Clients, ClientStep(c)
    PROVE  /\ Asked' = [Asked EXCEPT ![c] = AskedBy(c)']
           /\ Answers' = [Answers EXCEPT ![c] = AnswerTo(c)']
           /\ committed' = [committed EXCEPT ![c] = committed'[c]]
<1>1. ASSUME NEW d \in Clients, d # c
      PROVE  AskedBy(d)' = AskedBy(d) /\ AnswerTo(d)' = AnswerTo(d) /\ committed'[d] = committed[d]
  BY <1>1, OthersUntouched DEF AskedBy, AnswerTo
<1> QED BY <1>1 DEF Asked, Answers, ClientTypes

(* Only a commit makes a review effective, and it makes one effective that *)
(* was not.                                                                *)
LEMMA OneEffect ==
    ASSUME StoreTypes, ClientTypes, LockDiscipline, StillTrue, NEW c \in Clients, CommitStep(c)
    PROVE  /\ call[c].world \in Worlds
           /\ call[c].review \notin Effective[call[c].world]
           /\ Effective' = [Effective EXCEPT ![call[c].world] = @ \cup {call[c].review}]
<1>1. PICK w \in Worlds : w = call[c].world
  BY CommitRests
<1>2. PICK n \in Nat : n = Len(publications[w])
  BY <1>1, CommitAppends
<1>3. PICK row : row = Publication(w, call[c].found, policyRead[c])
  OBVIOUS
<1>4. /\ Len(publications'[w]) = n + 1
      /\ publications'[w][n + 1] = row
      /\ \A i \in 1..n : publications'[w][i] = publications[w][i]
      /\ \A v \in Worlds : v # w => publications'[v] = publications[v]
  BY <1>1, <1>2, <1>3, CommitAppends
<1>5. row.review = call[c].review
  BY <1>3, CommitRests DEF Publication
<1>6. {publications'[w][i].review : i \in 1..Len(publications'[w])} =
          {publications[w][i].review : i \in 1..Len(publications[w])} \cup {call[c].review}
  <2>1. \A i \in 1..n + 1 : publications'[w][i].review =
            IF i = n + 1 THEN call[c].review ELSE publications[w][i].review
    BY <1>4, <1>5
  <2>2. {publications'[w][i].review : i \in 1..n + 1} =
            {publications[w][i].review : i \in 1..n} \cup {call[c].review}
    <3>1. ASSUME NEW i \in 1..n + 1
          PROVE  publications'[w][i].review \in
                    {publications[w][j].review : j \in 1..n} \cup {call[c].review}
      BY <2>1
    <3>2. ASSUME NEW i \in 1..n
          PROVE  publications[w][i].review \in {publications'[w][j].review : j \in 1..n + 1}
      <4>1. i \in 1..n + 1 /\ publications'[w][i].review = publications[w][i].review
        BY <2>1
      <4> QED BY <4>1
    <3>3. call[c].review \in {publications'[w][j].review : j \in 1..n + 1}
      <4>1. n + 1 \in 1..n + 1
        OBVIOUS
      <4> QED BY <2>1, <4>1
    <3> QED BY <3>1, <3>2, <3>3
  <2> QED BY <1>2, <1>4, <2>2
<1>7. Effective' = [Effective EXCEPT ![w] = @ \cup {call[c].review}]
  <2>1. \A v \in Worlds : v # w => Effective'[v] = Effective[v]
    BY <1>4 DEF Effective
  <2>2. Effective'[w] = Effective[w] \cup {call[c].review}
    BY <1>6 DEF Effective
  <2> QED BY <2>1, <2>2 DEF Effective
<1>8. call[c].review \notin Effective[w]
  <2>1. ExistingPublication(w, call[c].found) = {} /\ call[c].found.review = call[c].review
    BY <1>1, CommitRests
  <2> QED BY <2>1 DEF ExistingPublication, Effective
<1> QED BY <1>1, <1>7, <1>8

(* What a publication found for a review says.                             *)
LEMMA FoundIsEffective ==
    ASSUME NEW w \in Worlds, NEW review, PublicationsOf(w, review) # {}
    PROVE  review \in Effective[w]
BY DEF PublicationsOf, Effective

LEMMA CallAsks ==
    ASSUME ClientTypes, NEW c \in Clients, pc[c] # "idle"
    PROVE  /\ Asked[c] # None
           /\ Asked[c].world = call[c].world /\ Asked[c].review = call[c].review
<1>1. Asked[c] = [world |-> call[c].world, review |-> call[c].review]
  BY DEF Asked, AskedBy
<1>2. [world |-> call[c].world, review |-> call[c].review] \in [world : Worlds, review : Reviews]
  BY CallFields
<1> QED BY <1>1, <1>2, ReviewAssumption

(* What a client step is to the callers: nothing, or a step of PublishOnce.*)
AbstractStep(c) ==
    LET said == AnswerTo(c)'
        review == call[c].review
        w == call[c].world
        Same == /\ Effective' = Effective
                /\ AskedBy(c)' = AskedBy(c)
                /\ committed'[c] = committed[c]
        Reply == /\ pc[c] \notin {"idle", "returned"}
                 /\ said \in {"published", "refused", "unknown"}
                 /\ said = "published" => review \in Effective'[w]
                 /\ said = "refused" => ~committed'[c]
    IN  \/ Same /\ said = AnswerTo(c)
        \/ Same /\ Reply
        \/ /\ pc[c] = "idle" /\ Effective' = Effective
           /\ \E v \in Worlds, asked \in Reviews : AskedBy(c)' = [world |-> v, review |-> asked]
           /\ committed'[c] = committed[c] /\ said = AnswerTo(c)
        \/ /\ pc[c] \notin {"idle", "returned"} /\ ~committed[c]
           /\ w \in Worlds /\ review \notin Effective[w]
           /\ Effective' = [Effective EXCEPT ![w] = @ \cup {review}]
           /\ committed'[c] = TRUE
           /\ AskedBy(c)' = AskedBy(c)
           /\ said = AnswerTo(c) \/ Reply
        \/ /\ AskedBy(c)' = None /\ ~committed'[c] /\ committed'[c] \in BOOLEAN
           /\ said = None /\ Effective' = Effective

LEMMA ClientImplements ==
    ASSUME IInv, NEW c \in Clients, ClientStep(c)
    PROVE  AbstractStep(c)
<1> USE DEF IInv, ClientTypes
<1>1. ASSUME UNCHANGED publications
      PROVE  Effective' = Effective
  BY <1>1 DEF Effective
<1>2. CASE Call(c)
  <2>1. PICK w \in Worlds, review \in Reviews :
            call' = [call EXCEPT ![c] = [world |-> w, review |-> review, found |-> None]]
    BY <1>2 DEF Call
  <2>2. /\ pc[c] = "idle" /\ pc'[c] = "lookup" /\ committed' = committed /\ publications' = publications
    BY <1>2 DEF Call, At, Goto, ledgerVars
  <2>3. AskedBy(c)' = [world |-> w, review |-> review]
    BY <2>1, <2>2 DEF AskedBy
  <2>4. AnswerTo(c)' = AnswerTo(c)
    BY <2>2 DEF AnswerTo
  <2> QED BY <1>1, <2>2, <2>3, <2>4 DEF AbstractStep
<1>3. CASE LookupMissing(c) \/ LoadReview(c) \/ ReadPolicy(c) \/ CheckPublish(c) \/ Lock(c)
  <2>1. /\ pc[c] \notin {"idle", "returned"} /\ pc'[c] \notin {"idle", "returned"}
        /\ committed' = committed /\ publications' = publications
    BY <1>3, LockWrites DEF LookupMissing, LoadReview, ReadPolicy, CheckPublish, Lock, BeginPublish,
         LockProfile, At, Goto, ledgerVars
  <2>2. call'[c].world = call[c].world /\ call'[c].review = call[c].review
    <3>1. CASE LoadReview(c)
      BY <3>1, LoadEffect
    <3>2. CASE ~LoadReview(c)
      BY <1>3, <3>2, LockWrites DEF LookupMissing, ReadPolicy, CheckPublish
    <3> QED BY <3>1, <3>2
  <2>3. AskedBy(c)' = AskedBy(c) /\ AnswerTo(c)' = AnswerTo(c)
    BY <2>1, <2>2 DEF AskedBy, AnswerTo
  <2> QED BY <1>1, <2>1, <2>3 DEF AbstractStep
<1>4. CASE LookupFound(c) \/ ProbeFound(c)
  <2>1. /\ pc[c] \notin {"idle", "returned"} /\ pc'[c] = "returned" /\ result'[c] = "published"
        /\ UNCHANGED <<call, committed, publications>>
        /\ PublicationsOf(call[c].world, call[c].review) # {}
    BY <1>4 DEF LookupFound, ProbeFound, At, Return, ledgerVars
  <2>2. AnswerTo(c)' = "published" /\ AskedBy(c)' = AskedBy(c)
    BY <2>1 DEF AskedBy, AnswerTo
  <2>3. call[c].review \in Effective'[call[c].world]
    BY <1>1, <2>1, CallFields, FoundIsEffective
  <2> QED BY <1>1, <2>1, <2>2, <2>3 DEF AbstractStep
<1>5. CASE ReviewNotFound(c)
  <2>1. /\ pc[c] = "load" /\ pc'[c] = "returned" /\ result'[c] = "review_not_found"
        /\ UNCHANGED <<call, committed, publications>>
    BY <1>5 DEF ReviewNotFound, At, Return, ledgerVars
  <2>2. ~committed'[c]
    BY <2>1 DEF Attempts
  <2>3. AnswerTo(c)' = "refused" /\ AskedBy(c)' = AskedBy(c)
    BY <2>1 DEF AskedBy, AnswerTo
  <2> QED BY <1>1, <2>1, <2>2, <2>3 DEF AbstractStep
<1>6. CASE ProbeFailed(c)
  <2>1. /\ pc[c] = "probe" /\ pc'[c] = "returned"
        /\ result'[c] = IF result[c] = "unavailable" THEN "unknown" ELSE result[c]
        /\ UNCHANGED <<call, committed, publications>>
    BY <1>6 DEF ProbeFailed, At, Return, ledgerVars
  <2>2. /\ result[c] \in {"denied", "stale", "unavailable"}
        /\ committed[c] => result[c] = "unavailable"
    BY <2>1 DEF Attempts
  <2>3. /\ AskedBy(c)' = AskedBy(c)
        /\ AnswerTo(c)' = IF result[c] = "unavailable" THEN "unknown" ELSE "refused"
    BY <2>1, <2>2 DEF AskedBy, AnswerTo
  <2> QED BY <1>1, <2>1, <2>2, <2>3 DEF AbstractStep
<1>7. CASE ReplayPublication(c)
  <2>1. /\ pc[c] = "world_locked" /\ UNCHANGED <<call, committed, publications>>
        /\ ExistingPublication(call[c].world, call[c].found) # {}
    BY <1>7 DEF ReplayPublication, At, ledgerVars
  <2>2. CASE pc'[c] = "probe"
    <3>1. AskedBy(c)' = AskedBy(c) /\ AnswerTo(c)' = AnswerTo(c)
      BY <2>1, <2>2 DEF AskedBy, AnswerTo
    <3> QED BY <1>1, <2>1, <3>1 DEF AbstractStep
  <2>3. CASE pc'[c] # "probe"
    <3>1. /\ pc'[c] = "returned" /\ result'[c] = "published"
          /\ \A i \in ExistingPublication(call[c].world, call[c].found) :
                publications[call[c].world][i].review = call[c].review
      BY <1>7, <2>3 DEF ReplayPublication, Return, Goto
    <3>2. call[c].world \in Worlds
      BY <2>1, CallFields
    <3>3. call[c].review \in Effective[call[c].world]
      BY <2>1, <3>1, <3>2 DEF ExistingPublication, Effective
    <3>4. AskedBy(c)' = AskedBy(c) /\ AnswerTo(c)' = "published"
      BY <2>1, <3>1 DEF AskedBy, AnswerTo
    <3> QED BY <1>1, <2>1, <3>1, <3>3, <3>4 DEF AbstractStep
  <2> QED BY <2>2, <2>3
<1>8. CASE DenyPublish(c) \/ AdoptDenied(c) \/ PublishStale(c) \/ AbortPublish(c)
  <2>1. /\ pc[c] \notin {"idle", "returned"} /\ pc'[c] = "probe"
        /\ UNCHANGED <<call, committed, publications>>
    BY <1>8 DEF DenyPublish, AdoptDenied, PublishStale, AbortPublish, Raise, At, Goto, ledgerVars
  <2>2. AskedBy(c)' = AskedBy(c) /\ AnswerTo(c)' = AnswerTo(c)
    BY <2>1 DEF AskedBy, AnswerTo
  <2> QED BY <1>1, <2>1, <2>2 DEF AbstractStep
<1>9. CASE CommitStep(c)
  <2>1. /\ pc[c] = "checked" /\ call' = call /\ committed'[c] = TRUE
        /\ \/ pc'[c] = "probe"
           \/ pc'[c] = "returned" /\ result'[c] = "published"
    BY <1>9, CommitEffect DEF Commit, Goto, Return
  <2>2. ~committed[c]
    BY <2>1 DEF Attempts
  <2>3. /\ call[c].world \in Worlds
        /\ call[c].review \notin Effective[call[c].world]
        /\ Effective' = [Effective EXCEPT ![call[c].world] = @ \cup {call[c].review}]
    BY <1>9, OneEffect
  <2>4. call[c].review \in Effective'[call[c].world]
    BY <2>3 DEF Effective
  <2>5. AskedBy(c)' = AskedBy(c)
    BY <2>1 DEF AskedBy
  <2>6. AnswerTo(c)' = AnswerTo(c) \/ AnswerTo(c)' = "published"
    BY <2>1 DEF AnswerTo
  <2> QED BY <2>1, <2>2, <2>3, <2>4, <2>5, <2>6 DEF AbstractStep
<1>10. CASE TakeAnswer(c) \/ Crash(c)
  <2>1. pc'[c] = "idle" /\ committed'[c] = FALSE /\ publications' = publications
    BY <1>10 DEF TakeAnswer, Crash, Forget, ledgerVars
  <2>2. AskedBy(c)' = None /\ AnswerTo(c)' = None
    BY <2>1 DEF AskedBy, AnswerTo
  <2> QED BY <1>1, <2>1, <2>2 DEF AbstractStep
<1> QED BY <1>2, <1>3, <1>4, <1>5, <1>6, <1>7, <1>8, <1>9, <1>10, StepKinds DEF LocalStep, EndStep

(* Client and repository together implement PublishOnce: a review takes    *)
(* effect once, and every caller's answer is honest.                       *)
THEOREM RefinesPublishOnce == Spec => ImplementsPublishOnce
<1> DEFINE Answer(c) ==
              \E said \in {"published", "refused", "unknown"} :
                /\ Asked[c] # None /\ Answers[c] = None
                /\ said = "published" => Asked[c].review \in Effective'[Asked[c].world]
                /\ said = "refused" => ~committed'[c]
                /\ Answers' = [Answers EXCEPT ![c] = said]
<1>1. Init => Promise!Init
  BY DEF Init, Promise!Init
<1>2. /\ \A c \in Clients :
            /\ Promise!Ask(c) <=>
                  \E w \in Worlds, review \in Reviews :
                    /\ Asked[c] = None
                    /\ Asked' = [Asked EXCEPT ![c] = [world |-> w, review |-> review]]
                    /\ UNCHANGED <<Effective, committed, Answers>>
            /\ Promise!Reply(c) <=> Answer(c) /\ UNCHANGED <<Effective, Asked, committed>>
            /\ Promise!Leave(c) <=>
                  /\ Asked' = [Asked EXCEPT ![c] = None]
                  /\ committed' = [committed EXCEPT ![c] = FALSE]
                  /\ Answers' = [Answers EXCEPT ![c] = None]
                  /\ UNCHANGED Effective
      /\ Promise!vars = <<Effective, Asked, committed, Answers>>
      /\ Promise!vars' = <<Effective', Asked', committed', Answers'>>
  BY DEF Promise!Ask, Promise!Reply, Promise!Answer, Promise!Leave, Promise!vars,
         Effective, Asked, AskedBy, Answers, AnswerTo
<1>3. \A c \in Clients :
          Promise!TakeEffect(c) <=>
              /\ Asked[c] # None /\ Answers[c] = None
              /\ ~committed[c]
              /\ Asked[c].review \notin Effective[Asked[c].world]
              /\ Effective' = [Effective EXCEPT ![Asked[c].world] = @ \cup {Asked[c].review}]
              /\ committed' = [committed EXCEPT ![c] = TRUE]
              /\ UNCHANGED Asked
              /\ UNCHANGED Answers \/ Answer(c)
  BY DEF Promise!TakeEffect, Promise!Answer, Effective, Asked, AskedBy, Answers, AnswerTo
<1>4. ASSUME IInv, IInv', NEW c \in Clients, ClientStep(c)
      PROVE  Promise!Next \/ UNCHANGED Promise!vars
  <2> DEFINE said == AnswerTo(c)'
             review == call[c].review
             w == call[c].world
             Same == /\ Effective' = Effective
                     /\ AskedBy(c)' = AskedBy(c)
                     /\ committed'[c] = committed[c]
             Reply == /\ pc[c] \notin {"idle", "returned"}
                      /\ said \in {"published", "refused", "unknown"}
                      /\ said = "published" => review \in Effective'[w]
                      /\ said = "refused" => ~committed'[c]
  <2>0. ClientTypes /\ ClientTypes'
    BY <1>4 DEF IInv
  <2>1. /\ Asked' = [Asked EXCEPT ![c] = AskedBy(c)']
        /\ Answers' = [Answers EXCEPT ![c] = said]
        /\ committed' = [committed EXCEPT ![c] = committed'[c]]
    BY <1>4, <2>0, OnlyOneClient
  <2>2. /\ Asked[c] = AskedBy(c) /\ Answers[c] = AnswerTo(c)
        /\ Asked = [Asked EXCEPT ![c] = AskedBy(c)]
        /\ Answers = [Answers EXCEPT ![c] = AnswerTo(c)]
        /\ committed = [committed EXCEPT ![c] = committed[c]]
    BY <2>0 DEF Asked, Answers, ClientTypes
  <2>3. ASSUME pc[c] \notin {"idle", "returned"}
        PROVE  /\ Asked[c] # None /\ Answers[c] = None
               /\ Asked[c].world = w /\ Asked[c].review = review
    BY <2>0, <2>3, CallAsks DEF Answers, AnswerTo
  <2>4. Reply => Answer(c)
    BY <2>1, <2>3
  <2>5. CASE Same /\ said = AnswerTo(c)
    BY <1>2, <2>1, <2>2, <2>5
  <2>6. CASE Same /\ Reply
    <3>1. UNCHANGED <<Effective, Asked, committed>>
      BY <2>1, <2>2, <2>6
    <3>2. Promise!Reply(c)
      BY <1>2, <2>4, <2>6, <3>1
    <3> QED BY <3>2 DEF Promise!Next
  <2>7. CASE /\ pc[c] = "idle" /\ Effective' = Effective
             /\ \E v \in Worlds, asked \in Reviews : AskedBy(c)' = [world |-> v, review |-> asked]
             /\ committed'[c] = committed[c] /\ said = AnswerTo(c)
    <3>1. Asked[c] = None
      BY <2>2, <2>7 DEF AskedBy
    <3>2. UNCHANGED <<Effective, committed, Answers>>
      BY <2>1, <2>2, <2>7
    <3>3. PICK v \in Worlds, asked \in Reviews :
              AskedBy(c)' = [world |-> v, review |-> asked]
      BY <2>7
    <3>4. Asked' = [Asked EXCEPT ![c] = [world |-> v, review |-> asked]]
      BY <2>1, <3>3
    <3>5. Promise!Ask(c)
      BY <1>2, <3>1, <3>2, <3>4
    <3> QED BY <3>5 DEF Promise!Next
  <2>8. CASE /\ pc[c] \notin {"idle", "returned"} /\ ~committed[c]
             /\ w \in Worlds /\ review \notin Effective[w]
             /\ Effective' = [Effective EXCEPT ![w] = @ \cup {review}]
             /\ committed'[c] = TRUE
             /\ AskedBy(c)' = AskedBy(c)
             /\ said = AnswerTo(c) \/ Reply
    <3>1. UNCHANGED Asked /\ committed' = [committed EXCEPT ![c] = TRUE]
      BY <2>1, <2>2, <2>8
    <3>2. UNCHANGED Answers \/ Answer(c)
      <4>1. CASE said = AnswerTo(c)
        BY <2>1, <2>2, <4>1
      <4>2. CASE Reply
        BY <2>4, <4>2
      <4> QED BY <2>8, <4>1, <4>2
    <3>3. Promise!TakeEffect(c)
      BY <1>3, <2>3, <2>8, <3>1, <3>2
    <3> QED BY <3>3 DEF Promise!Next
  <2>9. CASE /\ AskedBy(c)' = None /\ ~committed'[c] /\ committed'[c] \in BOOLEAN
             /\ said = None /\ Effective' = Effective
    <3>1. committed'[c] = FALSE
      BY <2>9
    <3>2. Promise!Leave(c)
      BY <1>2, <2>1, <2>9, <3>1
    <3> QED BY <3>2 DEF Promise!Next
  <2>10. AbstractStep(c)
    BY <1>4, ClientImplements
  <2> QED BY <2>5, <2>6, <2>7, <2>8, <2>9, <2>10 DEF AbstractStep
<1>5. ASSUME UNCHANGED <<clientVars, publications>>
      PROVE  UNCHANGED Promise!vars
  <2>1. Effective' = Effective /\ Asked' = Asked /\ Answers' = Answers /\ committed' = committed
    BY <1>5 DEF clientVars, Effective, Asked, AskedBy, Answers, AnswerTo
  <2> QED BY <1>2, <2>1
<1>6. IInv /\ IInv' /\ [Next]_vars => [Promise!Next]_(Promise!vars)
  <2> SUFFICES ASSUME IInv, IInv', [Next]_vars
               PROVE  Promise!Next \/ UNCHANGED Promise!vars
    OBVIOUS
  <2>1. CASE UNCHANGED vars
    BY <1>5, <2>1 DEF vars, ledgerVars
  <2> QED BY <1>4, <1>5, <2>1, EnvironmentWrites DEF Next, ClientStep
<1> QED BY <1>1, <1>6, InvariantStep, Invariance, PTL DEF Spec, ImplementsPublishOnce, Promise!Spec
===============================================================================
