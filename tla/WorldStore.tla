----------------------------- MODULE WorldStore -----------------------------
(***************************************************************************)
(* The durable world graph kept in PostgreSQL: per world, the immutable    *)
(* graph revisions, the head that names one of them and the log of head    *)
(* moves; per semantic profile, the row of publication_admission_profiles  *)
(* that fences the registration of an admission policy from the first use  *)
(* of the profile.  The modules that run transactions on this store are    *)
(* WorldGraph (publish, rollback, register) and ReviewPublication.         *)
(*                                                                         *)
(* Simplifications:                                                        *)
(*  - A revision id is the SHA-256 of the record it is computed from; it   *)
(*    is modelled as that record (compute_revision_id is injective), so    *)
(*    "the id exists with another payload" cannot happen and the branch    *)
(*    that raises ImmutableRevisionConflictError is left out.              *)
(*  - Timestamps are left out: they are neither hashed nor compared.       *)
(*  - SELECT ... FOR UPDATE on the worlds row and the advisory lock of a   *)
(*    profile are held from the statement to the end of the transaction;   *)
(*    every other statement reads committed data (READ COMMITTED), and a   *)
(*    transaction's writes become visible together, when it commits.       *)
(***************************************************************************)
EXTENDS GraphStores, Naturals, Sequences, FiniteSets

CONSTANTS
    Ops,            \* operation ids
    Contents,       \* graph payloads, their semantic profile apart
    ProfileIds,     \* (profile_id, profile_revision) pairs
    Descriptors,    \* descriptor digests a payload may claim for a profile
    Policies,       \* admission policies an operator may register
    Nobody          \* owner of a free lock

VARIABLES
    revisions,      \* graph_revisions: the revisions stored for each world
    head,           \* world_graph_heads: head_revision_id, or None
    headEvents,     \* world_graph_head_events, in commit order
    profiles,       \* publication_admission_profiles, or None for no row
    worldLock,      \* transaction that holds the worlds row FOR UPDATE
    profileLock     \* transaction that holds the profile's advisory lock

storeVars == <<revisions, head, headEvents, profiles>>
lockVars  == <<worldLock, profileLock>>

(* SemanticProfileRef: the profile a payload names and the digest of its   *)
(* descriptor.                                                             *)
ProfileRef == [id : ProfileIds, descriptor : Descriptors]

Payload == [content : Contents, profile : ProfileRef \cup {None}]

RevisionId(w, parent, op, payload) ==
    [world |-> w, parent |-> parent, op |-> op, payload |-> payload]

ProfileRow == [descriptor : Descriptors,
               policy : Policies \cup {None},
               protectedUse : {"null", "true", "false"}]

ASSUME NoneAssumption ==
    /\ None \notin Policies
    /\ None \notin ProfileRef
    /\ None \notin ProfileRow

StoreInit ==
    /\ revisions = [w \in Worlds |-> {}]
    /\ head = [w \in Worlds |-> None]
    /\ headEvents = [w \in Worlds |-> <<>>]
    /\ profiles = [p \in ProfileIds |-> None]

LockInit ==
    /\ worldLock = [w \in Worlds |-> Nobody]
    /\ profileLock = [p \in ProfileIds |-> Nobody]

-----------------------------------------------------------------------------
(* Locks.                                                                  *)

(* Mutant: the worlds row is read without FOR UPDATE.                      *)
AcquireWorldUnlocked(owner, w) ==
    /\ owner # Nobody
    /\ UNCHANGED worldLock

AcquireWorld(owner, w) ==
    /\ worldLock[w] = Nobody
    /\ worldLock' = [worldLock EXCEPT ![w] = owner]

(* Mutant: record_profile_use and register skip the advisory lock.         *)
AcquireProfileUnlocked(owner, ref) ==
    /\ owner # Nobody
    /\ UNCHANGED profileLock

AcquireProfile(owner, ref) ==
    IF ref = None
    THEN UNCHANGED profileLock
    ELSE /\ profileLock[ref.id] = Nobody
         /\ profileLock' = [profileLock EXCEPT ![ref.id] = owner]

(* The end of a transaction, by commit or by rollback, frees its locks.    *)
ReleaseAll(owner) ==
    /\ worldLock' = [w \in Worlds |->
                        IF worldLock[w] = owner THEN Nobody ELSE worldLock[w]]
    /\ profileLock' = [p \in ProfileIds |->
                        IF profileLock[p] = owner THEN Nobody ELSE profileLock[p]]

-----------------------------------------------------------------------------
(* The admission-policy row of a profile.                                  *)

ProfileConflict(ref) ==
    /\ ref # None
    /\ profiles[ref.id] # None
    /\ profiles[ref.id].descriptor # ref.descriptor

PolicyOf(ref) ==
    IF ref = None \/ profiles[ref.id] = None THEN None ELSE profiles[ref.id].policy

(* The row that record_profile_use leaves: a first use inserts it, with    *)
(* the policy the transaction read under the profile's lock.               *)
ProfileUsed(ref, policy) ==
    IF ref = None
    THEN profiles
    ELSE [profiles EXCEPT ![ref.id] =
            [descriptor |-> ref.descriptor,
             policy |-> IF @ = None THEN policy ELSE @.policy,
             protectedUse |-> IF policy # None THEN "true" ELSE "false"]]

(* The row that register inserts.                                          *)
RegisteredRow(ref, policy) ==
    [descriptor |-> ref.descriptor, policy |-> policy, protectedUse |-> "null"]

-----------------------------------------------------------------------------
(* Head moves.                                                             *)

MoveHead(w, kind, previous, target) ==
    /\ head' = [head EXCEPT ![w] = target]
    /\ headEvents' = [headEvents EXCEPT ![w] =
            Append(@, [kind |-> kind, previous |-> previous, target |-> target])]

=============================================================================
