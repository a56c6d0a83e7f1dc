----------------------------- MODULE WorldGraph -----------------------------
(***************************************************************************)
(* PostgresWorldGraphRepository and PostgresPublicationAdmissionRepository *)
(* as concurrent transactions of client processes on WorldStore.           *)
(*                                                                         *)
(*   publish_revision  lock world; lock profile and record its use; read   *)
(*                     the head; insert the revision unless it exists;     *)
(*                     move the head                                       *)
(*   rollback_head     lock world; the target must exist; move the head    *)
(*   register          lock profile; the profile must be unused            *)
(*                                                                         *)
(* A statement may fail and so may the COMMIT; either undoes everything.   *)
(* What the calls return is left out: no step here depends on it.  How a   *)
(* caller copes with a lost answer is ReviewPublication's subject.         *)
(***************************************************************************)
EXTENDS WorldStore

CONSTANTS
    Clients,        \* threads and processes that call the repositories
    MaxHeadEvents   \* bound: per world, its head moves, done or under way

ASSUME WorldGraphAssumption ==
    /\ MaxHeadEvents \in [Worlds -> Nat]
    /\ Nobody \notin Clients

VARIABLES
    pc,             \* per client, how far its transaction has come
    call,           \* per client, the command it executes
    policyRead,     \* per client, the policy read under the profile's lock
    headRead        \* per client, the head read under the world's lock

txVars == <<pc, call, policyRead, headRead>>
vars == <<storeVars, lockVars, txVars>>

Init ==
    /\ StoreInit
    /\ LockInit
    /\ pc = [c \in Clients |-> "idle"]
    /\ call = [c \in Clients |-> None]
    /\ policyRead = [c \in Clients |-> None]
    /\ headRead = [c \in Clients |-> None]

(* The transaction of c ends, by COMMIT or by ROLLBACK.                    *)
End(c) ==
    /\ pc' = [pc EXCEPT ![c] = "idle"]
    /\ call' = [call EXCEPT ![c] = None]
    /\ policyRead' = [policyRead EXCEPT ![c] = None]
    /\ headRead' = [headRead EXCEPT ![c] = None]
    /\ ReleaseAll(c)

Refuse(c) == End(c) /\ UNCHANGED storeVars

-----------------------------------------------------------------------------
(* Calls.  The parent a caller names is a revision it read at some time.   *)

AllRevisions == UNION {revisions[w] : w \in Worlds}

Known(w) == revisions[w] \cup {None}

PublishCommand(w) ==
    [kind : {"publish"}, world : {w}, parent : Known(w), expected : Known(w),
     op : Ops, payload : Payload]

RollbackCommand(w) ==
    [kind : {"rollback"}, world : {w}, target : AllRevisions]

RegisterCommand == [kind : {"register"}, ref : ProfileRef, policy : Policies]

Running(w) == {c \in Clients : pc[c] # "idle" /\ call[c].kind # "register" /\ call[c].world = w}

MayMoveHead(w) == Len(headEvents[w]) + Cardinality(Running(w)) < MaxHeadEvents[w]

Begin(c, command) ==
    /\ pc[c] = "idle"
    /\ pc' = [pc EXCEPT ![c] = "called"]
    /\ call' = [call EXCEPT ![c] = command]
    /\ UNCHANGED <<storeVars, lockVars, policyRead, headRead>>

CallPublish(c) ==
    \E w \in Worlds : MayMoveHead(w) /\ \E command \in PublishCommand(w) : Begin(c, command)

CallRollback(c) ==
    \E w \in Worlds : MayMoveHead(w) /\ \E command \in RollbackCommand(w) : Begin(c, command)

CallRegister(c) == \E command \in RegisterCommand : Begin(c, command)

-----------------------------------------------------------------------------
(* publish_revision and rollback_head take the world's row first.          *)

LockWorld(c) ==
    /\ pc[c] = "called"
    /\ call[c].kind \in {"publish", "rollback"}
    /\ AcquireWorld(c, call[c].world)
    /\ pc' = [pc EXCEPT ![c] = "world_locked"]
    /\ UNCHANGED <<storeVars, profileLock, call, policyRead, headRead>>

(* record_profile_use: the lock, and the policy read under it.             *)
RecordProfileUse(c) ==
    /\ pc[c] = "world_locked"
    /\ call[c].kind = "publish"
    /\ AcquireProfile(c, call[c].payload.profile)
    /\ pc' = [pc EXCEPT ![c] = "profile_locked"]
    /\ policyRead' = [policyRead EXCEPT ![c] = PolicyOf(call[c].payload.profile)]
    /\ UNCHANGED <<storeVars, worldLock, call, headRead>>

PublishProfileDenied(c) ==
    /\ pc[c] = "profile_locked"
    /\ ProfileConflict(call[c].payload.profile)
    /\ Refuse(c)

ReadHead(c) ==
    /\ \/ pc[c] = "profile_locked" /\ ~ProfileConflict(call[c].payload.profile)
       \/ pc[c] = "world_locked" /\ call[c].kind = "rollback"
    /\ pc' = [pc EXCEPT ![c] = "head_read"]
    /\ headRead' = [headRead EXCEPT ![c] = head[call[c].world]]
    /\ UNCHANGED <<storeVars, lockVars, call, policyRead>>

(* Mutant: the parent the revision is derived from is not compared.        *)
HeadMatchesExpectedOnly(c) == call[c].expected = headRead[c]

HeadMatches(c) == call[c].expected = headRead[c] /\ call[c].parent = headRead[c]

PublishStale(c) ==
    /\ pc[c] = "head_read"
    /\ call[c].kind = "publish"
    /\ ~HeadMatches(c)
    /\ Refuse(c)

(* The insert, or the reuse of a revision the world already has (a replay  *)
(* after a rollback), and the head move.                                   *)
PublishCommit(c) ==
    LET w == call[c].world
        r == RevisionId(w, call[c].parent, call[c].op, call[c].payload)
    IN  /\ pc[c] = "head_read"
        /\ call[c].kind = "publish"
        /\ HeadMatches(c)
        /\ revisions' = [revisions EXCEPT ![w] = @ \cup {r}]
        /\ MoveHead(w, "publish", headRead[c], r)
        /\ profiles' = ProfileUsed(call[c].payload.profile, policyRead[c])
        /\ End(c)

RollbackNotFound(c) ==
    /\ pc[c] = "head_read"
    /\ call[c].kind = "rollback"
    /\ call[c].target \notin revisions[call[c].world]
    /\ Refuse(c)

RollbackCommit(c) ==
    /\ pc[c] = "head_read"
    /\ call[c].kind = "rollback"
    /\ call[c].target \in revisions[call[c].world]
    /\ MoveHead(call[c].world, "rollback", headRead[c], call[c].target)
    /\ UNCHANGED <<revisions, profiles>>
    /\ End(c)

-----------------------------------------------------------------------------
(* register: the policy of a profile nobody has used yet.                  *)

LockProfile(c) ==
    /\ pc[c] = "called"
    /\ call[c].kind = "register"
    /\ AcquireProfile(c, call[c].ref)
    /\ pc' = [pc EXCEPT ![c] = "register_locked"]
    /\ UNCHANGED <<storeVars, worldLock, call, policyRead, headRead>>

RegisterExisting(c) ==
    /\ pc[c] = "register_locked"
    /\ profiles[call[c].ref.id] # None
    /\ ~ProfileConflict(call[c].ref)
    /\ PolicyOf(call[c].ref) = call[c].policy
    /\ Refuse(c)

(* Another descriptor, another policy, or a profile already in use.        *)
RegisterDenied(c) ==
    /\ pc[c] = "register_locked"
    /\ profiles[call[c].ref.id] # None
    /\ ProfileConflict(call[c].ref) \/ PolicyOf(call[c].ref) # call[c].policy
    /\ Refuse(c)

(* Mutant: only a registered policy, not an earlier use, is in the way.    *)
RegisterAfterUse(c) ==
    /\ pc[c] = "register_locked"
    /\ PolicyOf(call[c].ref) = None
    /\ profiles' = [profiles EXCEPT ![call[c].ref.id] = RegisteredRow(call[c].ref, call[c].policy)]
    /\ UNCHANGED <<revisions, head, headEvents>>
    /\ End(c)

RegisterCommit(c) ==
    /\ pc[c] = "register_locked"
    /\ profiles[call[c].ref.id] = None
    /\ profiles' = [profiles EXCEPT ![call[c].ref.id] = RegisteredRow(call[c].ref, call[c].policy)]
    /\ UNCHANGED <<revisions, head, headEvents>>
    /\ End(c)

(* A statement or the COMMIT itself fails: PostgreSQL rolls back.          *)
Abort(c) ==
    /\ pc[c] # "idle"
    /\ Refuse(c)

-----------------------------------------------------------------------------
Lock(c) == LockWorld(c) \/ RecordProfileUse(c) \/ LockProfile(c)

Step(c) ==
    \/ PublishProfileDenied(c) \/ ReadHead(c) \/ PublishStale(c) \/ PublishCommit(c)
    \/ RollbackNotFound(c) \/ RollbackCommit(c)
    \/ RegisterExisting(c) \/ RegisterDenied(c) \/ RegisterCommit(c)

Next == \E c \in Clients :
    \/ CallPublish(c) \/ CallRollback(c) \/ CallRegister(c)
    \/ Lock(c) \/ Step(c)
    \/ Abort(c)

Spec == Init /\ [][Next]_vars

-----------------------------------------------------------------------------
(* Type correctness of the store, the locks and the running transactions.  *)
Stages == {"idle", "called", "world_locked", "profile_locked", "head_read", "register_locked"}

Revision ==
    [world : Worlds, parent : AllRevisions \cup {None}, op : Ops, payload : Payload]

HeadEvent ==
    [kind : {"publish", "rollback"},
     previous : AllRevisions \cup {None}, target : AllRevisions]

Command == RegisterCommand \cup UNION {PublishCommand(w) \cup RollbackCommand(w) : w \in Worlds}

TypeOK ==
    /\ revisions \in [Worlds -> SUBSET Revision]
    /\ head \in [Worlds -> AllRevisions \cup {None}]
    /\ headEvents \in [Worlds -> Seq(HeadEvent)]
    /\ profiles \in [ProfileIds -> ProfileRow \cup {None}]
    /\ worldLock \in [Worlds -> Clients \cup {Nobody}]
    /\ profileLock \in [ProfileIds -> Clients \cup {Nobody}]
    /\ pc \in [Clients -> Stages]
    /\ call \in [Clients -> Command \cup {None}]
    /\ policyRead \in [Clients -> Policies \cup {None}]
    /\ headRead \in [Clients -> AllRevisions \cup {None}]
    /\ \A c \in Clients :
          /\ pc[c] # "idle" => call[c] \in Command
          /\ pc[c] = "register_locked" => call[c].kind = "register"
          /\ pc[c] \in {"world_locked", "profile_locked", "head_read"} =>
                call[c].kind \in {"publish", "rollback"}

(* The head-event log of a world is one unbroken history: each move starts *)
(* where the one before it ended and the head is where the last one ended. *)
(* Two transactions that both read the head before either moved it (a lost *)
(* update: _publish_revision_in_transaction, rollback_head) break it.      *)
HistoryUnbroken ==
    \A w \in Worlds :
        LET log == headEvents[w]
            Before(i) == IF i = 1 THEN None ELSE log[i - 1].target
        IN  /\ \A i \in 1..Len(log) : log[i].previous = Before(i)
            /\ head[w] = Before(Len(log) + 1)

(* Every revision hangs from stored revisions of its own world, and so do  *)
(* the head and everything the log names: no crash, lost answer, rollback  *)
(* or cross-world id leaves a head that get_revision cannot load.          *)
AncestryClosed ==
    \A w \in Worlds :
        /\ \A r \in revisions[w] : r.world = w /\ r.parent \in Known(w)
        /\ head[w] \in Known(w)
        /\ \A i \in 1..Len(headEvents[w]) : headEvents[w][i].target \in revisions[w]

(* A revision is only ever published as the child of the head it replaces: *)
(* the compare-and-swap of publish_revision compares both parents.         *)
PublishedOverParent ==
    \A w \in Worlds : \A i \in 1..Len(headEvents[w]) :
        LET e == headEvents[w][i]
        IN  e.kind = "publish" => e.target.parent = e.previous

(* The fence: a policy is registered only for a profile that no committed  *)
(* revision of any world carries, and a registered policy never changes.   *)
PolicyBeforeFirstUse ==
    [][\A p \in ProfileIds :
          LET policy == IF profiles[p] = None THEN None ELSE profiles[p].policy
              policy2 == IF profiles'[p] = None THEN None ELSE profiles'[p].policy
          IN  policy2 # policy =>
                /\ policy = None
                /\ \A w \in Worlds : \A r \in revisions'[w] :
                      r.payload.profile # None => r.payload.profile.id # p]_vars

(* Every stored use of a profile, in any world, is on its row, under the   *)
(* row's descriptor; and a profile whose first use was unprotected has no  *)
(* policy.  record_profile_use reads the policy before it writes the row,  *)
(* so a registration between the two would be forgotten without the lock.  *)
UsesFenced ==
    /\ \A w \in Worlds : \A r \in revisions[w] :
          LET ref == r.payload.profile
          IN  ref # None =>
                /\ profiles[ref.id] # None
                /\ profiles[ref.id].descriptor = ref.descriptor
                /\ profiles[ref.id].protectedUse # "null"
    /\ \A p \in ProfileIds :
          profiles[p] # None /\ profiles[p].protectedUse = "false" =>
            profiles[p].policy = None

(* The detailed store implements an abstract one in which a head moves in  *)
(* one step, to a new child of itself or back to a stored revision.        *)
Register == INSTANCE VersionedHead WITH revision <- revisions, current <- head

ImplementsVersionedHead == Register!Spec
=============================================================================
