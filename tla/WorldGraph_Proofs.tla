-------------------------- MODULE WorldGraph_Proofs --------------------------
(***************************************************************************)
(* Proofs about the two world graph repositories: WorldGraph, for any      *)
(* number of worlds, clients and profiles, and MemoryWorld, for any number *)
(* of worlds and threads.                                                  *)
(***************************************************************************)
EXTENDS WorldGraph, MemoryWorld, SequenceTheorems, FiniteSetTheorems, TLAPS

-----------------------------------------------------------------------------
(* The lock discipline: what a transaction holds at each of its stages.    *)
HoldsWorld ==
    \A c \in Clients :
        pc[c] \in {"world_locked", "profile_locked", "head_read"} => worldLock[call[c].world] = c

UsedProfile(c) ==
    IF call[c].kind = "publish" THEN call[c].payload.profile
    ELSE IF call[c].kind = "register" THEN call[c].ref
    ELSE None

HoldsProfile ==
    \A c \in Clients :
        /\ pc[c] \in {"profile_locked", "head_read", "register_locked"} /\ UsedProfile(c) # None =>
              profileLock[UsedProfile(c).id] = c
        /\ pc[c] = "profile_locked" => call[c].kind = "publish"

(* What a transaction has read under its locks is still so.                *)
ReadsCurrent ==
    \A c \in Clients :
        /\ pc[c] = "head_read" => headRead[c] = head[call[c].world]
        /\ pc[c] \in {"profile_locked", "head_read"} /\ call[c].kind = "publish" =>
              policyRead[c] = PolicyOf(call[c].payload.profile)
        /\ pc[c] = "head_read" /\ call[c].kind = "publish" =>
              ~ProfileConflict(call[c].payload.profile)

-----------------------------------------------------------------------------
(* Commands are told apart by their kind, and carry what the kind needs.   *)
LEMMA CommandKinds ==
    ASSUME NEW m \in Command
    PROVE  /\ m.kind \in {"publish", "rollback", "register"}
           /\ m.kind = "publish" =>
                /\ m.world \in Worlds
                /\ m.parent \in Known(m.world)
                /\ m.expected \in Known(m.world)
                /\ m.op \in Ops
                /\ m.payload \in Payload
           /\ m.kind = "rollback" => m.world \in Worlds /\ m.target \in AllRevisions
           /\ m.kind = "register" => m.ref \in ProfileRef /\ m.policy \in Policies
BY DEF Command, PublishCommand, RollbackCommand, RegisterCommand

(* The revisions a step adds never make a command of another client ill-   *)
(* typed: all types only grow with the stored revisions.                   *)
LEMMA TypesGrow ==
    ASSUME TypeOK, revisions' \in [Worlds -> SUBSET Revision'],
           \A w \in Worlds : revisions[w] \subseteq revisions'[w]
    PROVE  /\ AllRevisions \subseteq AllRevisions'
           /\ Revision \subseteq Revision'
           /\ HeadEvent \subseteq HeadEvent'
           /\ Command \subseteq Command'
<1>1. AllRevisions \subseteq AllRevisions'
  BY DEF AllRevisions
<1>2. Revision \subseteq Revision' /\ HeadEvent \subseteq HeadEvent'
  BY <1>1 DEF Revision, HeadEvent
<1>3. Command \subseteq Command'
  <2>1. \A w \in Worlds : PublishCommand(w) \subseteq PublishCommand(w)'
    BY DEF PublishCommand, Known
  <2>2. \A w \in Worlds : RollbackCommand(w) \subseteq RollbackCommand(w)'
    BY <1>1 DEF RollbackCommand
  <2>3. RegisterCommand = RegisterCommand'
    BY DEF RegisterCommand
  <2> QED BY <2>1, <2>2, <2>3 DEF Command
<1> QED BY <1>1, <1>2, <1>3

-----------------------------------------------------------------------------
(* The store and the transactions are well typed in every reachable state. *)
LEMMA TypeInit == Init => TypeOK
BY DEF Init, TypeOK, StoreInit, LockInit, Stages

LEMMA EndTypes ==
    ASSUME TypeOK, NEW c \in Clients, End(c)
    PROVE  /\ worldLock' \in [Worlds -> Clients \cup {Nobody}]
           /\ profileLock' \in [ProfileIds -> Clients \cup {Nobody}]
           /\ pc' \in [Clients -> Stages]
           /\ policyRead' \in [Clients -> Policies \cup {None}]
           /\ \A d \in Clients : pc'[d] # "idle" => pc'[d] = pc[d] /\ call'[d] = call[d]
           /\ \A d \in Clients : call'[d] = call[d] \/ call'[d] = None
           /\ \A d \in Clients : headRead'[d] = headRead[d] \/ headRead'[d] = None
           /\ DOMAIN call' = Clients /\ DOMAIN headRead' = Clients
           /\ call' = [d \in Clients |-> call'[d]]
           /\ headRead' = [d \in Clients |-> headRead'[d]]
BY DEF TypeOK, End, ReleaseAll, Stages

LEMMA RefuseTypes ==
    ASSUME TypeOK, NEW c \in Clients, Refuse(c)
    PROVE  TypeOK'
<1>1. UNCHANGED storeVars /\ End(c)
  BY DEF Refuse
<1>2. AllRevisions' = AllRevisions /\ Revision' = Revision /\ HeadEvent' = HeadEvent
  BY <1>1 DEF storeVars, AllRevisions, Revision, HeadEvent
<1>3. Command' = Command
  BY <1>1 DEF storeVars, AllRevisions, Command, PublishCommand, RollbackCommand, RegisterCommand, Known
<1> QED
  BY <1>1, <1>2, <1>3, EndTypes DEF TypeOK, storeVars

LEMMA TypeStep == TypeOK /\ [Next]_vars => TypeOK'
<1> SUFFICES ASSUME TypeOK, [Next]_vars PROVE TypeOK'
  OBVIOUS
<1> USE DEF Stages
<1>same. ASSUME UNCHANGED storeVars
         PROVE  /\ AllRevisions' = AllRevisions /\ Revision' = Revision
                /\ HeadEvent' = HeadEvent /\ Command' = Command
  BY <1>same DEF storeVars, AllRevisions, Revision, HeadEvent, Command, PublishCommand,
                 RollbackCommand, RegisterCommand, Known
<1>1. CASE UNCHANGED vars
  <2>1. UNCHANGED storeVars
    BY <1>1 DEF vars
  <2> QED BY <1>1, <2>1, <1>same DEF vars, storeVars, lockVars, txVars, TypeOK
<1>2. ASSUME NEW c \in Clients, NEW command \in Command, Begin(c, command) PROVE TypeOK'
  <2>1. UNCHANGED storeVars
    BY <1>2 DEF Begin
  <2> QED BY <1>2, <2>1, <1>same DEF Begin, storeVars, lockVars, TypeOK
<1>3. ASSUME NEW c \in Clients, CallPublish(c) \/ CallRollback(c) \/ CallRegister(c) PROVE TypeOK'
  <2>1. \E command \in Command : Begin(c, command)
    BY <1>3 DEF CallPublish, CallRollback, CallRegister, Command
  <2> QED BY <2>1, <1>2
<1>4. ASSUME NEW c \in Clients, LockWorld(c) PROVE TypeOK'
  <2>1. UNCHANGED storeVars
    BY <1>4 DEF LockWorld
  <2> QED BY <1>4, <2>1, <1>same DEF LockWorld, AcquireWorld, storeVars, TypeOK
<1>5. ASSUME NEW c \in Clients, RecordProfileUse(c) PROVE TypeOK'
  <2>1. UNCHANGED storeVars
    BY <1>5 DEF RecordProfileUse
  <2>2. call[c].payload.profile \in ProfileRef \cup {None}
    BY <1>5, CommandKinds DEF RecordProfileUse, TypeOK, Payload
  <2>3. PolicyOf(call[c].payload.profile) \in Policies \cup {None}
    BY <2>2 DEF PolicyOf, TypeOK, ProfileRef, ProfileRow
  <2>4. profileLock' \in [ProfileIds -> Clients \cup {Nobody}]
    BY <1>5, <2>2 DEF RecordProfileUse, AcquireProfile, TypeOK
  <2> QED BY <1>5, <2>1, <2>3, <2>4, <1>same DEF RecordProfileUse, storeVars, TypeOK
<1>6. ASSUME NEW c \in Clients, ReadHead(c) PROVE TypeOK'
  <2>1. UNCHANGED storeVars
    BY <1>6 DEF ReadHead
  <2>2. call[c].kind \in {"publish", "rollback", "register"} /\ call[c] \in Command
    BY <1>6, CommandKinds DEF ReadHead, TypeOK
  <2> QED BY <1>6, <2>1, <2>2, <1>same, CommandKinds DEF ReadHead, storeVars, lockVars, TypeOK
<1>7. ASSUME NEW c \in Clients, LockProfile(c) PROVE TypeOK'
  <2>1. UNCHANGED storeVars
    BY <1>7 DEF LockProfile
  <2> QED BY <1>7, <2>1, <1>same DEF LockProfile, AcquireProfile, storeVars, TypeOK
<1>8. ASSUME NEW c \in Clients, PublishCommit(c) PROVE TypeOK'
  <2> DEFINE w == call[c].world
             r == RevisionId(w, call[c].parent, call[c].op, call[c].payload)
  <2>1. /\ w \in Worlds /\ call[c].parent \in Known(w)
        /\ call[c].op \in Ops /\ call[c].payload \in Payload
    BY <1>8, CommandKinds DEF PublishCommit, TypeOK
  <2>2. /\ revisions' = [revisions EXCEPT ![w] = @ \cup {r}]
        /\ head' = [head EXCEPT ![w] = r]
        /\ headEvents' = [headEvents EXCEPT ![w] =
                Append(@, [kind |-> "publish", previous |-> headRead[c], target |-> r])]
        /\ profiles' = ProfileUsed(call[c].payload.profile, policyRead[c])
        /\ End(c)
    BY <1>8 DEF PublishCommit, MoveHead
  <2>3. \A v \in Worlds : revisions[v] \subseteq revisions'[v]
    BY <2>2 DEF TypeOK
  <2>4. AllRevisions \subseteq AllRevisions' /\ r \in AllRevisions'
    BY <2>1, <2>2, <2>3 DEF AllRevisions, TypeOK
  <2>5. revisions' \in [Worlds -> SUBSET Revision']
    <3>1. call[c].parent \in AllRevisions' \cup {None}
      BY <2>1, <2>4 DEF Known, AllRevisions
    <3>2. r \in Revision'
      BY <2>1, <3>1 DEF RevisionId, Revision
    <3>3. Revision \subseteq Revision'
      BY <2>4 DEF Revision
    <3> QED BY <3>2, <3>3, <2>2 DEF TypeOK
  <2>6. HeadEvent \subseteq HeadEvent' /\ Command \subseteq Command'
    BY <2>3, <2>5, TypesGrow
  <2>7. head' \in [Worlds -> AllRevisions' \cup {None}]
    BY <2>2, <2>4 DEF TypeOK
  <2>8. headEvents' \in [Worlds -> Seq(HeadEvent')]
    <3>1. [kind |-> "publish", previous |-> headRead[c], target |-> r] \in HeadEvent'
      BY <2>4 DEF HeadEvent, TypeOK
    <3>2. \A v \in Worlds : headEvents[v] \in Seq(HeadEvent')
      BY <2>6 DEF TypeOK
    <3>3. Append(headEvents[w], [kind |-> "publish", previous |-> headRead[c], target |-> r])
            \in Seq(HeadEvent')
      BY <3>1, <3>2, <2>1
    <3> QED BY <3>2, <3>3, <2>2 DEF TypeOK
  <2>9. profiles' \in [ProfileIds -> ProfileRow \cup {None}]
    <3>1. call[c].payload.profile \in ProfileRef \cup {None}
      BY <2>1 DEF Payload
    <3> QED BY <3>1, <2>2 DEF ProfileUsed, TypeOK, ProfileRef, ProfileRow
  <2> QED BY <2>2, <2>4, <2>5, <2>6, <2>7, <2>8, <2>9, EndTypes DEF TypeOK
<1>9. ASSUME NEW c \in Clients, RollbackCommit(c) PROVE TypeOK'
  <2> DEFINE w == call[c].world
             e == [kind |-> "rollback", previous |-> headRead[c], target |-> call[c].target]
  <2>1. w \in Worlds /\ call[c].target \in AllRevisions
    BY <1>9, CommandKinds DEF RollbackCommit, TypeOK
  <2>2. /\ UNCHANGED <<revisions, profiles>>
        /\ head' = [head EXCEPT ![w] = call[c].target]
        /\ headEvents' = [headEvents EXCEPT ![w] = Append(@, e)]
        /\ End(c)
    BY <1>9 DEF RollbackCommit, MoveHead
  <2>3. /\ AllRevisions' = AllRevisions /\ Revision' = Revision
        /\ HeadEvent' = HeadEvent /\ Command' = Command
    BY <2>2 DEF AllRevisions, Revision, HeadEvent, Command, PublishCommand,
                RollbackCommand, RegisterCommand, Known
  <2>4. e \in HeadEvent
    BY <2>1, <1>9 DEF HeadEvent, TypeOK
  <2> QED BY <2>1, <2>2, <2>3, <2>4, EndTypes DEF TypeOK
<1>10. ASSUME NEW c \in Clients, RegisterCommit(c) PROVE TypeOK'
  <2>1. UNCHANGED <<revisions, head, headEvents>> /\ End(c)
    BY <1>10 DEF RegisterCommit
  <2>2. /\ AllRevisions' = AllRevisions /\ Revision' = Revision
        /\ HeadEvent' = HeadEvent /\ Command' = Command
    BY <2>1 DEF AllRevisions, Revision, HeadEvent, Command, PublishCommand,
                RollbackCommand, RegisterCommand, Known
  <2>3. profiles' \in [ProfileIds -> ProfileRow \cup {None}]
    <3>1. profiles' = [profiles EXCEPT ![call[c].ref.id] = RegisteredRow(call[c].ref, call[c].policy)]
      BY <1>10 DEF RegisterCommit
    <3>2. call[c].ref \in ProfileRef /\ call[c].policy \in Policies
      BY <1>10, CommandKinds DEF RegisterCommit, TypeOK
    <3> QED BY <3>1, <3>2 DEF RegisteredRow, ProfileRow, ProfileRef, TypeOK
  <2> QED BY <2>1, <2>2, <2>3, EndTypes DEF TypeOK
<1>11. ASSUME NEW c \in Clients,
              \/ PublishProfileDenied(c) \/ PublishStale(c) \/ RollbackNotFound(c)
              \/ RegisterExisting(c) \/ RegisterDenied(c) \/ Abort(c)
       PROVE  TypeOK'
  <2>1. Refuse(c)
    BY <1>11 DEF PublishProfileDenied, PublishStale, RollbackNotFound, RegisterExisting,
                 RegisterDenied, Abort
  <2> QED BY <2>1, RefuseTypes
<1> QED BY <1>1, <1>3, <1>4, <1>5, <1>6, <1>7, <1>8, <1>9, <1>10, <1>11 DEF Next, Step, Lock

-----------------------------------------------------------------------------
(* A step of one client leaves the transactions of the others alone.       *)
LEMMA OthersUntouched ==
    ASSUME TypeOK, NEW c \in Clients,
           CallPublish(c) \/ CallRollback(c) \/ CallRegister(c) \/ Lock(c) \/ Step(c) \/ Abort(c),
           NEW d \in Clients, d # c
    PROVE  /\ pc'[d] = pc[d]
           /\ call'[d] = call[d]
           /\ policyRead'[d] = policyRead[d]
           /\ headRead'[d] = headRead[d]
           /\ \A w \in Worlds : worldLock[w] = d => worldLock'[w] = d
           /\ \A p \in ProfileIds : profileLock[p] = d => profileLock'[p] = d
<1> USE WorldGraphAssumption DEF TypeOK, lockVars
<1>1. CASE CallPublish(c) \/ CallRollback(c) \/ CallRegister(c)
  BY <1>1 DEF CallPublish, CallRollback, CallRegister, Begin
<1>2. CASE Lock(c)
  BY <1>2 DEF Lock, LockWorld, RecordProfileUse, LockProfile, AcquireWorld, AcquireProfile
<1>3. CASE ReadHead(c)
  BY <1>3 DEF ReadHead
<1>4. CASE (Step(c) /\ ~ReadHead(c)) \/ Abort(c)
  <2>1. End(c)
    BY <1>4 DEF Step, Abort, PublishProfileDenied, PublishStale, PublishCommit, RollbackNotFound,
                RollbackCommit, RegisterExisting, RegisterDenied, RegisterCommit, Refuse
  <2> QED BY <2>1 DEF End, ReleaseAll
<1> QED BY <1>1, <1>2, <1>3, <1>4

(* The locks are held in every reachable state.                            *)
LEMMA LocksInit == Init => HoldsWorld /\ HoldsProfile
BY DEF Init, HoldsWorld, HoldsProfile

LEMMA LocksStep ==
    ASSUME TypeOK, HoldsWorld, HoldsProfile, [Next]_vars
    PROVE  HoldsWorld' /\ HoldsProfile'
<1>1. CASE UNCHANGED vars
  BY <1>1 DEF vars, lockVars, txVars, HoldsWorld, HoldsProfile, UsedProfile
<1>2. ASSUME NEW c \in Clients,
             CallPublish(c) \/ CallRollback(c) \/ CallRegister(c) \/ Lock(c) \/ Step(c) \/ Abort(c)
      PROVE  HoldsWorld' /\ HoldsProfile'
  <2>1. ASSUME NEW d \in Clients, d # c
        PROVE  /\ pc'[d] \in {"world_locked", "profile_locked", "head_read"} =>
                     worldLock'[call'[d].world] = d
               /\ pc'[d] \in {"profile_locked", "head_read", "register_locked"} /\ UsedProfile(d)' # None =>
                     profileLock'[UsedProfile(d)'.id] = d
               /\ pc'[d] = "profile_locked" => call'[d].kind = "publish"
    <3>1. pc'[d] = pc[d] /\ call'[d] = call[d] /\ UsedProfile(d)' = UsedProfile(d)
      BY <1>2, <2>1, OthersUntouched DEF UsedProfile
    <3>2. ASSUME pc[d] \in {"world_locked", "profile_locked", "head_read"}
          PROVE  worldLock'[call[d].world] = d
      <4>1. call[d].world \in Worlds
        BY <3>2, CommandKinds DEF TypeOK
      <4> QED BY <1>2, <2>1, <3>2, <4>1, OthersUntouched DEF HoldsWorld
    <3>3. ASSUME pc[d] \in {"profile_locked", "head_read", "register_locked"}, UsedProfile(d) # None
          PROVE  profileLock'[UsedProfile(d).id] = d
      <4>1. UsedProfile(d).id \in ProfileIds
        BY <3>3, CommandKinds DEF TypeOK, UsedProfile, Payload, ProfileRef
      <4> QED BY <1>2, <2>1, <3>3, <4>1, OthersUntouched DEF HoldsProfile
    <3> QED BY <3>1, <3>2, <3>3 DEF HoldsProfile
  <2>2. /\ pc'[c] \in {"world_locked", "profile_locked", "head_read"} =>
              worldLock'[call'[c].world] = c
        /\ pc'[c] \in {"profile_locked", "head_read", "register_locked"} /\ UsedProfile(c)' # None =>
              profileLock'[UsedProfile(c)'.id] = c
        /\ pc'[c] = "profile_locked" => call'[c].kind = "publish"
    <3> USE DEF TypeOK, Stages
    <3>1. CASE CallPublish(c) \/ CallRollback(c) \/ CallRegister(c)
      <4>1. pc'[c] = "called"
        BY <3>1 DEF CallPublish, CallRollback, CallRegister, Begin
      <4> QED BY <4>1
    <3>2. CASE LockWorld(c)
      <4>1. call[c].world \in Worlds
        BY <3>2, CommandKinds DEF LockWorld
      <4> QED BY <3>2, <4>1 DEF LockWorld, AcquireWorld
    <3>3. CASE RecordProfileUse(c)
      <4>1. UsedProfile(c)' = call[c].payload.profile /\ call[c].payload.profile \in ProfileRef \cup {None}
        BY <3>3, CommandKinds DEF RecordProfileUse, UsedProfile, Payload
      <4>2. UsedProfile(c)' # None => profileLock'[UsedProfile(c)'.id] = c
        BY <3>3, <4>1 DEF RecordProfileUse, AcquireProfile, ProfileRef
      <4> QED BY <3>3, <4>2 DEF RecordProfileUse, HoldsWorld
    <3>4. CASE LockProfile(c)
      <4>1. UsedProfile(c)' = call[c].ref /\ call[c].ref \in ProfileRef
        BY <3>4, CommandKinds DEF LockProfile, UsedProfile
      <4>2. profileLock'[UsedProfile(c)'.id] = c
        BY <3>4, <4>1, NoneAssumption DEF LockProfile, AcquireProfile, ProfileRef
      <4> QED BY <3>4, <4>2 DEF LockProfile
    <3>5. CASE ReadHead(c)
      <4>1. UsedProfile(c)' = UsedProfile(c)
        BY <3>5 DEF ReadHead, UsedProfile
      <4>2. pc[c] = "world_locked" => UsedProfile(c) = None
        BY <3>5 DEF ReadHead, UsedProfile
      <4> QED BY <3>5, <4>1, <4>2 DEF ReadHead, lockVars, HoldsWorld, HoldsProfile
    <3>6. CASE (Step(c) /\ ~ReadHead(c)) \/ Abort(c)
      <4>1. pc'[c] = "idle"
        BY <3>6 DEF Step, Abort, PublishProfileDenied, PublishStale, PublishCommit, RollbackNotFound,
                    RollbackCommit, RegisterExisting, RegisterDenied, RegisterCommit, Refuse, End
      <4> QED BY <4>1
    <3> QED BY <1>2, <3>1, <3>2, <3>3, <3>4, <3>5, <3>6 DEF Lock
  <2> QED BY <2>1, <2>2 DEF HoldsWorld, HoldsProfile, UsedProfile
<1> QED BY <1>1, <1>2 DEF Next

-----------------------------------------------------------------------------
(* Only the holder of a world's row moves its head, and only the holder of *)
(* a profile's lock writes the profile's row.                              *)
LEMMA WritesUnderLocks ==
    ASSUME TypeOK, HoldsWorld, HoldsProfile, NEW c \in Clients,
           CallPublish(c) \/ CallRollback(c) \/ CallRegister(c) \/ Lock(c) \/ Step(c) \/ Abort(c)
    PROVE  /\ \A w \in Worlds : head'[w] # head[w] => worldLock[w] = c
           /\ \A p \in ProfileIds : profiles'[p] # profiles[p] => profileLock[p] = c
<1>1. CASE UNCHANGED <<head, profiles>>
  BY <1>1
<1>2. CASE PublishCommit(c)
  <2>1. /\ call[c].world \in Worlds
        /\ UsedProfile(c) = call[c].payload.profile
        /\ UsedProfile(c) \in ProfileRef \cup {None}
    BY <1>2, CommandKinds DEF PublishCommit, TypeOK, UsedProfile, Payload
  <2>2. \A w \in Worlds : head'[w] # head[w] => w = call[c].world
    BY <1>2, <2>1 DEF PublishCommit, MoveHead, TypeOK
  <2>3. \A p \in ProfileIds : profiles'[p] # profiles[p] =>
            UsedProfile(c) # None /\ p = UsedProfile(c).id
    BY <1>2, <2>1 DEF PublishCommit, ProfileUsed, TypeOK, ProfileRef
  <2> QED BY <1>2, <2>2, <2>3 DEF PublishCommit, HoldsWorld, HoldsProfile
<1>3. CASE RollbackCommit(c)
  <2>1. call[c].world \in Worlds
    BY <1>3, CommandKinds DEF RollbackCommit, TypeOK
  <2>2. \A w \in Worlds : head'[w] # head[w] => w = call[c].world
    BY <1>3, <2>1 DEF RollbackCommit, MoveHead, TypeOK
  <2> QED BY <1>3, <2>2 DEF RollbackCommit, HoldsWorld
<1>4. CASE RegisterCommit(c)
  <2>1. UsedProfile(c) = call[c].ref /\ call[c].ref \in ProfileRef
    BY <1>4, CommandKinds DEF RegisterCommit, TypeOK, UsedProfile
  <2>2. \A p \in ProfileIds : profiles'[p] # profiles[p] => p = UsedProfile(c).id
    BY <1>4, <2>1 DEF RegisterCommit, TypeOK, ProfileRef
  <2> QED BY <1>4, <2>1, <2>2, NoneAssumption DEF RegisterCommit, HoldsProfile
<1>5. CASE \/ CallPublish(c) \/ CallRollback(c) \/ CallRegister(c) \/ Lock(c) \/ ReadHead(c)
           \/ PublishProfileDenied(c) \/ PublishStale(c) \/ RollbackNotFound(c)
           \/ RegisterExisting(c) \/ RegisterDenied(c) \/ Abort(c)
  <2>1. UNCHANGED <<head, profiles>>
    BY <1>5 DEF CallPublish, CallRollback, CallRegister, Begin, Lock, LockWorld, RecordProfileUse,
                LockProfile, ReadHead, PublishProfileDenied, PublishStale, RollbackNotFound,
                RegisterExisting, RegisterDenied, Abort, Refuse, storeVars
  <2> QED BY <2>1
<1> QED BY <1>2, <1>3, <1>4, <1>5 DEF Step

LEMMA ReadsInit == Init => ReadsCurrent
BY DEF Init, ReadsCurrent

LEMMA ReadsStep ==
    ASSUME TypeOK, HoldsWorld, HoldsProfile, ReadsCurrent, [Next]_vars
    PROVE  ReadsCurrent'
<1>1. CASE UNCHANGED vars
  BY <1>1 DEF vars, storeVars, txVars, ReadsCurrent, PolicyOf, ProfileConflict
<1>2. ASSUME NEW c \in Clients,
             CallPublish(c) \/ CallRollback(c) \/ CallRegister(c) \/ Lock(c) \/ Step(c) \/ Abort(c)
      PROVE  ReadsCurrent'
  <2> DEFINE Current(d) ==
        /\ pc[d] = "head_read" => headRead[d] = head[call[d].world]
        /\ pc[d] \in {"profile_locked", "head_read"} /\ call[d].kind = "publish" =>
              policyRead[d] = PolicyOf(call[d].payload.profile)
        /\ pc[d] = "head_read" /\ call[d].kind = "publish" =>
              ~ProfileConflict(call[d].payload.profile)
  <2>1. ASSUME NEW d \in Clients, d # c
        PROVE  Current(d)'
    <3>1. /\ pc'[d] = pc[d] /\ call'[d] = call[d]
          /\ policyRead'[d] = policyRead[d] /\ headRead'[d] = headRead[d]
      BY <1>2, <2>1, OthersUntouched
    <3>2. Current(d)
      BY DEF ReadsCurrent
    <3>3. ASSUME pc[d] = "head_read"
          PROVE  head'[call[d].world] = head[call[d].world]
      <4>1. call[d].world \in Worlds
        BY <3>3, CommandKinds DEF TypeOK
      <4>2. worldLock[call[d].world] = d
        BY <3>3 DEF HoldsWorld
      <4> QED BY <1>2, <2>1, <4>1, <4>2, WritesUnderLocks
    <3>4. ASSUME pc[d] \in {"profile_locked", "head_read"}, call[d].kind = "publish"
          PROVE  /\ PolicyOf(call[d].payload.profile)' = PolicyOf(call[d].payload.profile)
                 /\ ProfileConflict(call[d].payload.profile)' = ProfileConflict(call[d].payload.profile)
      <4> DEFINE ref == call[d].payload.profile
      <4>1. ref = UsedProfile(d) /\ ref \in ProfileRef \cup {None} /\ ref' = ref
        BY <3>1, <3>4, CommandKinds DEF TypeOK, UsedProfile, Payload
      <4>2. CASE ref = None
        BY <4>1, <4>2 DEF PolicyOf, ProfileConflict
      <4>3. CASE ref # None
        <5>1. ref.id \in ProfileIds /\ profileLock[ref.id] = d
          BY <3>4, <4>1, <4>3 DEF HoldsProfile, ProfileRef
        <5>2. profiles'[ref.id] = profiles[ref.id]
          BY <1>2, <2>1, <5>1, WritesUnderLocks
        <5> QED BY <4>1, <5>2 DEF PolicyOf, ProfileConflict
      <4> QED BY <4>2, <4>3
    <3> QED BY <3>1, <3>2, <3>3, <3>4
  <2>2. Current(c)'
    <3>1. CASE RecordProfileUse(c)
      <4>1. pc'[c] = "profile_locked" /\ call' = call /\ profiles' = profiles
            /\ policyRead'[c] = PolicyOf(call[c].payload.profile)
        BY <3>1 DEF RecordProfileUse, storeVars, TypeOK
      <4> QED BY <4>1 DEF PolicyOf
    <3>2. CASE ReadHead(c)
      <4>1. /\ pc'[c] = "head_read" /\ call' = call /\ profiles' = profiles /\ head' = head
            /\ policyRead' = policyRead /\ headRead'[c] = head[call[c].world]
            /\ call[c].kind = "publish" =>
                  pc[c] = "profile_locked" /\ ~ProfileConflict(call[c].payload.profile)
        BY <3>2 DEF ReadHead, storeVars, TypeOK
      <4> QED BY <4>1 DEF PolicyOf, ProfileConflict, ReadsCurrent
    <3>3. CASE ~(RecordProfileUse(c) \/ ReadHead(c))
      <4>1. pc'[c] \notin {"profile_locked", "head_read"}
        BY <1>2, <3>3 DEF CallPublish, CallRollback, CallRegister, Begin, Lock, LockWorld,
               LockProfile, Step, Abort, PublishProfileDenied, PublishStale, PublishCommit,
               RollbackNotFound, RollbackCommit, RegisterExisting, RegisterDenied,
               RegisterCommit, Refuse, End, TypeOK
      <4> QED BY <4>1
    <3> QED BY <3>1, <3>2, <3>3
  <2> QED BY <2>1, <2>2 DEF ReadsCurrent
<1> QED BY <1>1, <1>2 DEF Next

-----------------------------------------------------------------------------
(* The two steps that move a head, in the form the invariants need: one    *)
(* event, whose predecessor is the head, is appended to one world's log.   *)
HeadMove(w, kind, target) ==
    /\ head' = [head EXCEPT ![w] = target]
    /\ headEvents' = [headEvents EXCEPT ![w] =
            Append(@, [kind |-> kind, previous |-> head[w], target |-> target])]

LEMMA CommitMovesHead ==
    ASSUME TypeOK, ReadsCurrent, NEW c \in Clients, PublishCommit(c) \/ RollbackCommit(c)
    PROVE  \E w \in Worlds, target \in AllRevisions' :
              \/ /\ HeadMove(w, "publish", target)
                 /\ target.parent = head[w]
                 /\ target.world = w
                 /\ head[w] \in Known(w)
                 /\ revisions' = [revisions EXCEPT ![w] = @ \cup {target}]
              \/ /\ HeadMove(w, "rollback", target)
                 /\ target \in revisions[w]
                 /\ revisions' = revisions
<1>1. CASE PublishCommit(c)
  <2> DEFINE w == call[c].world
             r == RevisionId(w, call[c].parent, call[c].op, call[c].payload)
  <2>1. w \in Worlds /\ call[c].parent \in Known(w)
    BY <1>1, CommandKinds DEF PublishCommit, TypeOK
  <2>2. headRead[c] = head[w] /\ call[c].parent = head[w]
    BY <1>1 DEF PublishCommit, ReadsCurrent, HeadMatches
  <2>3. HeadMove(w, "publish", r) /\ revisions' = [revisions EXCEPT ![w] = @ \cup {r}]
    BY <1>1, <2>2 DEF PublishCommit, MoveHead, HeadMove
  <2>4. r \in AllRevisions'
    BY <2>1, <2>3 DEF AllRevisions, TypeOK
  <2>5. r.parent = head[w] /\ r.world = w /\ head[w] \in Known(w)
    BY <2>1, <2>2 DEF RevisionId
  <2> QED BY <2>1, <2>3, <2>4, <2>5
<1>2. CASE RollbackCommit(c)
  <2> DEFINE w == call[c].world
  <2>1. w \in Worlds /\ call[c].target \in revisions[w] /\ revisions' = revisions
    BY <1>2, CommandKinds DEF RollbackCommit, TypeOK
  <2>2. headRead[c] = head[w]
    BY <1>2 DEF RollbackCommit, ReadsCurrent
  <2>3. HeadMove(w, "rollback", call[c].target)
    BY <1>2, <2>2 DEF RollbackCommit, MoveHead, HeadMove
  <2>4. call[c].target \in AllRevisions'
    BY <2>1 DEF AllRevisions
  <2> QED BY <2>1, <2>3, <2>4
<1> QED BY <1>1, <1>2

LEMMA OtherStepsMoveNoHead ==
    ASSUME TypeOK, NEW c \in Clients,
           CallPublish(c) \/ CallRollback(c) \/ CallRegister(c) \/ Lock(c) \/ Step(c) \/ Abort(c),
           ~PublishCommit(c), ~RollbackCommit(c)
    PROVE  UNCHANGED <<revisions, head, headEvents>>
BY DEF CallPublish, CallRollback, CallRegister, Begin, Lock, LockWorld, RecordProfileUse, LockProfile,
       Step, ReadHead, PublishProfileDenied, PublishStale, RollbackNotFound, RegisterExisting,
       RegisterDenied, RegisterCommit, Abort, Refuse, storeVars

HistoryInv == HistoryUnbroken /\ AncestryClosed /\ PublishedOverParent

LEMMA HistoryStep ==
    ASSUME TypeOK, ReadsCurrent, HistoryInv, [Next]_vars
    PROVE  HistoryInv'
<1>1. CASE UNCHANGED <<revisions, head, headEvents>>
  BY <1>1 DEF HistoryInv, HistoryUnbroken, AncestryClosed, PublishedOverParent, Known
<1>2. ASSUME NEW c \in Clients, PublishCommit(c) \/ RollbackCommit(c)
      PROVE  HistoryInv'
  <2>1. PICK w \in Worlds, target \in AllRevisions' :
              \/ /\ HeadMove(w, "publish", target)
                 /\ target.parent = head[w]
                 /\ target.world = w
                 /\ head[w] \in Known(w)
                 /\ revisions' = [revisions EXCEPT ![w] = @ \cup {target}]
              \/ /\ HeadMove(w, "rollback", target)
                 /\ target \in revisions[w]
                 /\ revisions' = revisions
    BY <1>2, CommitMovesHead
  <2>2. PICK kind \in {"publish", "rollback"} :
          HeadMove(w, kind, target) /\ (kind = "publish" => target.parent = head[w])
    BY <2>1
  <2>3. \A v \in Worlds : revisions[v] \subseteq revisions'[v] /\ Known(v) \subseteq Known(v)'
    <3>1. CASE revisions' = revisions
      BY <3>1 DEF Known
    <3>2. CASE revisions' = [revisions EXCEPT ![w] = @ \cup {target}]
      <4>1. \A v \in Worlds : revisions[v] \subseteq revisions'[v]
        BY <3>2 DEF TypeOK
      <4> QED BY <4>1 DEF Known
    <3> QED BY <2>1, <3>1, <3>2
  <2>4. target \in revisions'[w]
    BY <2>1 DEF TypeOK
  <2> DEFINE e == [kind |-> kind, previous |-> head[w], target |-> target]
  <2>5. /\ headEvents[w] \in Seq(HeadEvent)
        /\ Len(headEvents'[w]) = Len(headEvents[w]) + 1
        /\ \A i \in 1..Len(headEvents[w]) : headEvents'[w][i] = headEvents[w][i]
        /\ headEvents'[w][Len(headEvents[w]) + 1] = e
        /\ Len(headEvents[w]) \in Nat
        /\ head'[w] = target
    BY <2>2 DEF HeadMove, TypeOK
  <2>6. \A v \in Worlds : v # w => headEvents'[v] = headEvents[v] /\ head'[v] = head[v]
    BY <2>2 DEF HeadMove, TypeOK
  <2>7. HistoryUnbroken'
    <3> DEFINE Before(log, i) == IF i = 1 THEN None ELSE log[i - 1].target
               Unbroken(log, h) ==
                  /\ \A i \in 1..Len(log) : log[i].previous = Before(log, i)
                  /\ h = Before(log, Len(log) + 1)
    <3>1. \A v \in Worlds : Unbroken(headEvents[v], head[v])
      BY DEF HistoryInv, HistoryUnbroken
    <3>2. Unbroken(headEvents'[w], head'[w])
      <4>1. \A i \in 1..Len(headEvents[w]) : Before(headEvents'[w], i) = Before(headEvents[w], i)
        BY <2>5
      <4>2. Before(headEvents'[w], Len(headEvents[w]) + 1) = Before(headEvents[w], Len(headEvents[w]) + 1)
        BY <2>5
      <4>3. Before(headEvents'[w], Len(headEvents'[w]) + 1) = target
        BY <2>5
      <4>4. e.previous = Before(headEvents[w], Len(headEvents[w]) + 1)
        BY <3>1
      <4>5. \A i \in 1..Len(headEvents'[w]) : i \in 1..Len(headEvents[w]) \/ i = Len(headEvents[w]) + 1
        BY <2>5
      <4>6. ASSUME NEW i \in 1..Len(headEvents'[w])
            PROVE  headEvents'[w][i].previous = Before(headEvents'[w], i)
        <5>1. CASE i \in 1..Len(headEvents[w])
          <6>1. headEvents'[w][i] = headEvents[w][i]
            BY <2>5, <5>1
          <6>2. headEvents[w][i].previous = Before(headEvents[w], i)
            BY <3>1, <5>1
          <6> HIDE DEF Before
          <6> QED BY <6>1, <6>2, <4>1, <5>1
        <5>2. CASE i = Len(headEvents[w]) + 1
          <6>1. headEvents'[w][i] = e
            BY <2>5, <5>2
          <6> HIDE DEF Before
          <6> QED BY <6>1, <4>2, <4>4, <5>2
        <5> QED BY <4>5, <5>1, <5>2
      <4>7. head'[w] = Before(headEvents'[w], Len(headEvents'[w]) + 1)
        <5> HIDE DEF Before
        <5> QED BY <2>5, <4>3
      <4> QED BY <4>6, <4>7
    <3>3. \A v \in Worlds : v # w => Unbroken(headEvents'[v], head'[v])
      BY <2>6, <3>1
    <3>4. \A v \in Worlds : Unbroken(headEvents'[v], head'[v])
      BY <3>2, <3>3
    <3> QED BY <3>4 DEF HistoryUnbroken
  <2>8. AncestryClosed'
    <3>1. \A v \in Worlds : \A r \in revisions'[v] : r.world = v /\ r.parent \in Known(v)'
      <4>1. CASE revisions' = revisions
        BY <4>1, <2>3 DEF HistoryInv, AncestryClosed
      <4>2. CASE /\ revisions' = [revisions EXCEPT ![w] = @ \cup {target}]
                 /\ target.world = w /\ target.parent \in Known(w)
        <5>1. \A v \in Worlds : \A r \in revisions'[v] : r \in revisions[v] \/ (v = w /\ r = target)
          BY <4>2 DEF TypeOK
        <5> QED BY <4>2, <5>1, <2>3 DEF HistoryInv, AncestryClosed
      <4> QED BY <2>1, <4>1, <4>2
    <3>2. \A v \in Worlds : head'[v] \in Known(v)'
      BY <2>3, <2>4, <2>5, <2>6 DEF HistoryInv, AncestryClosed, Known
    <3>3. \A v \in Worlds : \A i \in 1..Len(headEvents'[v]) : headEvents'[v][i].target \in revisions'[v]
      BY <2>3, <2>4, <2>5, <2>6 DEF HistoryInv, AncestryClosed
    <3> QED BY <3>1, <3>2, <3>3 DEF AncestryClosed
  <2>9. PublishedOverParent'
    <3>1. ASSUME NEW v \in Worlds, v # w, NEW i \in 1..Len(headEvents'[v]),
                 headEvents'[v][i].kind = "publish"
          PROVE  headEvents'[v][i].target.parent = headEvents'[v][i].previous
      BY <3>1, <2>6 DEF HistoryInv, PublishedOverParent
    <3>2. ASSUME NEW i \in 1..Len(headEvents'[w]), headEvents'[w][i].kind = "publish"
          PROVE  headEvents'[w][i].target.parent = headEvents'[w][i].previous
      <4>1. CASE i \in 1..Len(headEvents[w])
        BY <3>2, <4>1, <2>5 DEF HistoryInv, PublishedOverParent
      <4>2. CASE i = Len(headEvents[w]) + 1
        <5>1. headEvents'[w][i] = e
          BY <2>5, <4>2
        <5> QED BY <3>2, <5>1, <2>2
      <4> QED BY <2>5, <4>1, <4>2
    <3> QED BY <3>1, <3>2 DEF PublishedOverParent
  <2> QED BY <2>7, <2>8, <2>9 DEF HistoryInv
<1>3. CASE UNCHANGED vars
  BY <1>1, <1>3 DEF vars, storeVars
<1> QED BY <1>1, <1>2, <1>3, OtherStepsMoveNoHead DEF Next

-----------------------------------------------------------------------------
(* The steps that write the row of a profile, in the form the fence needs. *)
UseProfile(w, r) ==
    LET ref == r.payload.profile
    IN  /\ ~ProfileConflict(ref)
        /\ profiles' = ProfileUsed(ref, PolicyOf(ref))
        /\ revisions' = [revisions EXCEPT ![w] = @ \cup {r}]

RegisterPolicy(ref, policy) ==
    /\ profiles[ref.id] = None
    /\ profiles' = [profiles EXCEPT ![ref.id] = RegisteredRow(ref, policy)]
    /\ revisions' = revisions

LEMMA ProfileSteps ==
    ASSUME TypeOK, ReadsCurrent, [Next]_vars
    PROVE  \/ \E w \in Worlds, r \in Revision' : UseProfile(w, r)
           \/ \E ref \in ProfileRef, policy \in Policies : RegisterPolicy(ref, policy)
           \/ UNCHANGED <<revisions, profiles>>
<1>1. CASE UNCHANGED vars
  BY <1>1 DEF vars, storeVars
<1>2. ASSUME NEW c \in Clients, PublishCommit(c)
      PROVE  \E w \in Worlds, r \in Revision' : UseProfile(w, r)
  <2> DEFINE w == call[c].world
             r == RevisionId(w, call[c].parent, call[c].op, call[c].payload)
  <2>1. w \in Worlds
    BY <1>2, CommandKinds DEF PublishCommit, TypeOK
  <2>2. /\ revisions' = [revisions EXCEPT ![w] = @ \cup {r}]
        /\ profiles' = ProfileUsed(r.payload.profile, policyRead[c])
    BY <1>2 DEF PublishCommit, RevisionId
  <2>3. /\ policyRead[c] = PolicyOf(r.payload.profile)
        /\ ~ProfileConflict(r.payload.profile)
    BY <1>2 DEF PublishCommit, ReadsCurrent, RevisionId
  <2>4. r \in Revision'
    <3>1. TypeOK'
      BY TypeStep
    <3>2. revisions'[w] \subseteq Revision'
      BY <3>1, <2>1 DEF TypeOK
    <3> QED BY <2>1, <2>2, <3>2 DEF TypeOK
  <2> QED BY <2>1, <2>2, <2>3, <2>4 DEF UseProfile
<1>3. ASSUME NEW c \in Clients, RegisterCommit(c)
      PROVE  \E ref \in ProfileRef, policy \in Policies : RegisterPolicy(ref, policy)
  <2>1. call[c].ref \in ProfileRef /\ call[c].policy \in Policies
    BY <1>3, CommandKinds DEF RegisterCommit, TypeOK
  <2> QED BY <1>3, <2>1 DEF RegisterCommit, RegisterPolicy
<1>4. ASSUME NEW c \in Clients,
             CallPublish(c) \/ CallRollback(c) \/ CallRegister(c) \/ Lock(c) \/ Step(c) \/ Abort(c),
             ~PublishCommit(c), ~RegisterCommit(c)
      PROVE  UNCHANGED <<revisions, profiles>>
  BY <1>4 DEF CallPublish, CallRollback, CallRegister, Begin, Lock, LockWorld, RecordProfileUse,
         LockProfile, Step, ReadHead, PublishProfileDenied, PublishStale, RollbackNotFound,
         RollbackCommit, RegisterExisting, RegisterDenied, Abort, Refuse, storeVars
<1> QED BY <1>1, <1>2, <1>3, <1>4 DEF Next

(* What a use leaves on the row: nothing is lost of an earlier use, and    *)
(* the policy stays the one that was read.                                 *)
LEMMA UseKeepsRow ==
    ASSUME TypeOK, UsesFenced, NEW w \in Worlds, NEW r \in Revision', UseProfile(w, r),
           NEW p \in ProfileIds
    PROVE  /\ r.payload.profile # None /\ p = r.payload.profile.id =>
                /\ profiles'[p] # None
                /\ profiles'[p].descriptor = r.payload.profile.descriptor
                /\ profiles'[p].protectedUse \in {"true", "false"}
                /\ profiles[p] # None => profiles[p].descriptor = profiles'[p].descriptor
                /\ profiles'[p].policy = PolicyOf(r.payload.profile)
                /\ profiles'[p].protectedUse = "false" => profiles'[p].policy = None
           /\ r.payload.profile = None \/ p # r.payload.profile.id => profiles'[p] = profiles[p]
<1> DEFINE ref == r.payload.profile
<1>1. ref \in ProfileRef \cup {None}
  BY DEF Revision, Payload
<1>2. CASE ref = None
  BY <1>2 DEF UseProfile, ProfileUsed
<1>3. CASE ref # None /\ p # ref.id
  BY <1>1, <1>3 DEF UseProfile, ProfileUsed, TypeOK, ProfileRef
<1>4. CASE ref # None /\ p = ref.id
  <2>1. profiles'[p] = [descriptor |-> ref.descriptor,
                        policy |-> IF profiles[p] = None THEN PolicyOf(ref) ELSE profiles[p].policy,
                        protectedUse |-> IF PolicyOf(ref) # None THEN "true" ELSE "false"]
    BY <1>4 DEF UseProfile, ProfileUsed, TypeOK
  <2>2. profiles'[p] \in ProfileRow
    <3>1. PolicyOf(ref) \in Policies \cup {None}
      BY <1>1, <1>4 DEF PolicyOf, TypeOK, ProfileRow
    <3>2. profiles[p] # None => profiles[p].policy \in Policies \cup {None}
      BY DEF TypeOK, ProfileRow
    <3>3. ref.descriptor \in Descriptors
      BY <1>1, <1>4 DEF ProfileRef
    <3> QED BY <2>1, <3>1, <3>2, <3>3 DEF ProfileRow
  <2>3. profiles'[p] # None
    BY <2>2, NoneAssumption
  <2>4. profiles[p] # None => profiles[p].descriptor = ref.descriptor /\ profiles[p].policy = PolicyOf(ref)
    BY <1>4 DEF UseProfile, ProfileConflict, PolicyOf
  <2> QED BY <1>4, <2>1, <2>3, <2>4
<1> QED BY <1>2, <1>3, <1>4

(* A registration finds no use of its profile.                             *)
LEMMA RegisterBeforeUse ==
    ASSUME TypeOK, UsesFenced, NEW ref \in ProfileRef, NEW policy \in Policies,
           RegisterPolicy(ref, policy)
    PROVE  /\ \A w \in Worlds : \A r \in revisions[w] :
                 r.payload.profile # None => r.payload.profile.id # ref.id
           /\ profiles'[ref.id] = RegisteredRow(ref, policy)
           /\ \A p \in ProfileIds : p # ref.id => profiles'[p] = profiles[p]
BY DEF RegisterPolicy, UsesFenced, TypeOK, ProfileRef

LEMMA FenceStep ==
    ASSUME TypeOK, ReadsCurrent, UsesFenced, [Next]_vars
    PROVE  UsesFenced'
<1>1. CASE UNCHANGED <<revisions, profiles>>
  BY <1>1 DEF UsesFenced
<1>2. ASSUME NEW w \in Worlds, NEW r \in Revision', UseProfile(w, r)
      PROVE  UsesFenced'
  <2>1. ASSUME NEW v \in Worlds, NEW q \in revisions'[v], q.payload.profile # None
        PROVE  /\ profiles'[q.payload.profile.id] # None
               /\ profiles'[q.payload.profile.id].descriptor = q.payload.profile.descriptor
               /\ profiles'[q.payload.profile.id].protectedUse # "null"
    <3>1. q \in Revision'
      BY <2>1, TypeStep DEF TypeOK
    <3>2. q.payload.profile.id \in ProfileIds
      BY <2>1, <3>1 DEF Revision, Payload, ProfileRef
    <3>3. q \in revisions[v] \/ q = r
      BY <1>2, <2>1 DEF UseProfile, TypeOK
    <3>4. q \in revisions[v] =>
              /\ profiles[q.payload.profile.id] # None
              /\ profiles[q.payload.profile.id].descriptor = q.payload.profile.descriptor
              /\ profiles[q.payload.profile.id].protectedUse # "null"
      BY <2>1 DEF UsesFenced
    <3> QED BY <1>2, <2>1, <3>2, <3>3, <3>4, UseKeepsRow
  <2>2. ASSUME NEW p \in ProfileIds, profiles'[p] # None, profiles'[p].protectedUse = "false"
        PROVE  profiles'[p].policy = None
    BY <1>2, <2>2, UseKeepsRow DEF UsesFenced
  <2> QED BY <2>1, <2>2 DEF UsesFenced
<1>3. ASSUME NEW ref \in ProfileRef, NEW policy \in Policies, RegisterPolicy(ref, policy)
      PROVE  UsesFenced'
  <2>1. revisions' = revisions
    BY <1>3 DEF RegisterPolicy
  <2>2. ASSUME NEW v \in Worlds, NEW q \in revisions[v], q.payload.profile # None
        PROVE  profiles'[q.payload.profile.id] = profiles[q.payload.profile.id]
    <3>1. q.payload.profile.id \in ProfileIds
      BY <2>2 DEF TypeOK, Revision, Payload, ProfileRef
    <3> QED BY <1>3, <2>2, <3>1, RegisterBeforeUse
  <2>3. ASSUME NEW p \in ProfileIds, profiles'[p] # None, profiles'[p].protectedUse = "false"
        PROVE  profiles'[p].policy = None
    <3>1. CASE p = ref.id
      <4>1. profiles'[p] = RegisteredRow(ref, policy)
        BY <1>3, <3>1, RegisterBeforeUse
      <4>2. RegisteredRow(ref, policy).protectedUse = "null"
        BY DEF RegisteredRow
      <4> QED BY <2>3, <4>1, <4>2
    <3>2. CASE p # ref.id
      <4>1. profiles'[p] = profiles[p]
        BY <1>3, <3>2, RegisterBeforeUse
      <4> QED BY <2>3, <4>1 DEF UsesFenced
    <3> QED BY <3>1, <3>2
  <2> QED BY <2>1, <2>2, <2>3 DEF UsesFenced
<1> QED BY <1>1, <1>2, <1>3, ProfileSteps

-----------------------------------------------------------------------------
(* The inductive invariant, and the theorems.                              *)
IInv == TypeOK /\ HoldsWorld /\ HoldsProfile /\ ReadsCurrent /\ HistoryInv /\ UsesFenced

LEMMA InvariantInit == Init => IInv
<1>1. Init => HistoryInv
  BY DEF Init, StoreInit, HistoryInv, HistoryUnbroken, AncestryClosed, PublishedOverParent, Known
<1>2. Init => UsesFenced
  BY DEF Init, StoreInit, UsesFenced
<1> QED BY <1>1, <1>2, TypeInit, LocksInit, ReadsInit DEF IInv

LEMMA InvariantStep == IInv /\ [Next]_vars => IInv'
BY TypeStep, LocksStep, ReadsStep, HistoryStep, FenceStep DEF IInv

LEMMA Invariance == Spec => []IInv
BY InvariantInit, InvariantStep, PTL DEF Spec

(* Every reachable state is well typed.                                    *)
THEOREM TypeCorrect == Spec => []TypeOK
BY Invariance, PTL DEF IInv

(* No head move is ever lost: the head-event log of every world is one     *)
(* unbroken chain that ends at the head.                                   *)
THEOREM NoLostHeadMove == Spec => []HistoryUnbroken
BY Invariance, PTL DEF IInv, HistoryInv

(* Heads, parents and log entries always name stored revisions of their    *)
(* own world.                                                              *)
THEOREM AncestryAlwaysClosed == Spec => []AncestryClosed
BY Invariance, PTL DEF IInv, HistoryInv

(* Every publication was made over the head it names as its parent.        *)
THEOREM PublishIsCompareAndSwap == Spec => []PublishedOverParent
BY Invariance, PTL DEF IInv, HistoryInv

(* Every stored use of a profile is on its row, in whatever world it was   *)
(* made, and an unprotected first use is never forgotten.                  *)
THEOREM UsesAlwaysFenced == Spec => []UsesFenced
BY Invariance, PTL DEF IInv

(* A policy is only ever registered before the first use of its profile.   *)
THEOREM PolicyAlwaysBeforeFirstUse == Spec => PolicyBeforeFirstUse
<1> DEFINE Policy(row) == IF row = None THEN None ELSE row.policy
           Fenced(p) ==
              Policy(profiles'[p]) # Policy(profiles[p]) =>
                /\ Policy(profiles[p]) = None
                /\ \A w \in Worlds : \A r \in revisions'[w] :
                      r.payload.profile # None => r.payload.profile.id # p
<1>1. IInv /\ [Next]_vars => \A p \in ProfileIds : Fenced(p)
  <2> SUFFICES ASSUME IInv, [Next]_vars, NEW p \in ProfileIds
               PROVE  Fenced(p)
    OBVIOUS
  <2> USE DEF IInv
  <2>1. CASE UNCHANGED <<revisions, profiles>>
    BY <2>1
  <2>2. ASSUME NEW w \in Worlds, NEW r \in Revision', UseProfile(w, r)
        PROVE  Policy(profiles'[p]) = Policy(profiles[p])
    <3>1. CASE r.payload.profile # None /\ p = r.payload.profile.id
      <4>1. Policy(profiles[p]) = PolicyOf(r.payload.profile)
        BY <3>1 DEF PolicyOf
      <4> QED BY <2>2, <3>1, <4>1, UseKeepsRow
    <3>2. CASE ~(r.payload.profile # None /\ p = r.payload.profile.id)
      BY <2>2, <3>2, UseKeepsRow
    <3> QED BY <3>1, <3>2
  <2>3. ASSUME NEW ref \in ProfileRef, NEW policy \in Policies, RegisterPolicy(ref, policy)
        PROVE  Fenced(p)
    <3>1. CASE p # ref.id
      BY <2>3, <3>1, RegisterBeforeUse
    <3>2. CASE p = ref.id
      BY <2>3, <3>2, RegisterBeforeUse DEF RegisterPolicy
    <3> QED BY <3>1, <3>2
  <2> QED BY <2>1, <2>2, <2>3, ProfileSteps
<1>2. (\A p \in ProfileIds : Fenced(p)) =>
        \A p \in ProfileIds :
          LET policy == IF profiles[p] = None THEN None ELSE profiles[p].policy
              policy2 == IF profiles'[p] = None THEN None ELSE profiles'[p].policy
          IN  policy2 # policy =>
                /\ policy = None
                /\ \A w \in Worlds : \A r \in revisions'[w] :
                      r.payload.profile # None => r.payload.profile.id # p
  OBVIOUS
<1> HIDE DEF Fenced
<1> QED BY <1>1, <1>2, Invariance, PTL DEF Spec, PolicyBeforeFirstUse

(* The lock-based transactions implement the atomic versioned head.        *)
THEOREM RefinesVersionedHead == Spec => ImplementsVersionedHead
<1>1. Init => Register!Init
  BY DEF Init, StoreInit, Register!Init
<1>2. IInv /\ [Next]_vars => [Register!Next]_<<revisions, head>>
  <2> SUFFICES ASSUME IInv, [Next]_vars
               PROVE  [Register!Next]_<<revisions, head>>
    OBVIOUS
  <2>1. CASE UNCHANGED vars
    BY <2>1 DEF vars, storeVars
  <2>2. ASSUME NEW c \in Clients, PublishCommit(c) \/ RollbackCommit(c)
        PROVE  Register!Next
    <3>1. PICK w \in Worlds, target \in AllRevisions' :
              \/ /\ HeadMove(w, "publish", target)
                 /\ target.parent = head[w]
                 /\ target.world = w
                 /\ head[w] \in Known(w)
                 /\ revisions' = [revisions EXCEPT ![w] = @ \cup {target}]
              \/ /\ HeadMove(w, "rollback", target)
                 /\ target \in revisions[w]
                 /\ revisions' = revisions
      BY <2>2, CommitMovesHead DEF IInv
    <3>2. target \in revisions'[w]
      BY <3>1 DEF IInv, TypeOK
    <3>3. Register!Publish(w) \/ Register!Rollback(w)
      BY <3>1, <3>2 DEF Register!Publish, Register!Rollback, HeadMove
    <3> QED BY <3>3 DEF Register!Next
  <2>3. CASE UNCHANGED <<revisions, head, headEvents>>
    BY <2>3
  <2> QED BY <2>1, <2>2, <2>3, OtherStepsMoveNoHead DEF Next, IInv
<1> QED BY <1>1, <1>2, Invariance, PTL DEF Spec, ImplementsVersionedHead, Register!Spec

-----------------------------------------------------------------------------
(* What the invariant of the store in memory says.  A unit is at one of    *)
(* these stages, and writes in those of Writing.                           *)
UnitStages == {"idle", "locking", "deciding", "sources", "history", "graph", "receipt", "ending"}
Writing == {"sources", "history", "graph", "receipt", "ending"}
World(c) == unit[c].request.world
Op(c) == unit[c].request.op
Child(c) == unit[c].child

StoreTypes ==
    /\ DOMAIN heads = Worlds
    /\ DOMAIN receipts = Beginnings \X (Worlds \cup Ids)
    /\ DOMAIN records = Indexes
    /\ held \in [Locks -> Threads \cup {None}]
    /\ doing \in [Threads -> UnitStages]
    /\ wants \in [Threads -> Seq(Locks)]
    /\ DOMAIN unit = Threads /\ DOMAIN undo = Threads

(* Reviews and heads are of their own world.                               *)
OwnWorld ==
    /\ DOMAIN reviews = DOMAIN Reviews
    /\ \A r \in DOMAIN Reviews : reviews[r] # None => reviews[r].world = Reviews[r].world
    /\ \A w \in Worlds : heads[w] # None => heads[w].world = w

(* What a thread was called with, and the child that it would publish.     *)
IsCall(c) ==
    LET q == unit[c].request IN
    /\ q \in Requests
    /\ Child(c) = GraphRevision(q.world, Child(c).parent, q.id, Child(c).graph)
    /\ q.op \in Beginnings => Child(c).parent = None /\ Child(c).graph = q.graph
    /\ q.op \in {"publish", "withdraw"} => Child(c).parent # None
    /\ q.op = "publish" => Child(c).parent.world = q.world

(* A unit has the lock or is still to take it.                             *)
Takes(c, l) == held[l] = c \/ \E i \in 1..Len(wants[c]) : wants[c][i] = l

(* The one world a unit takes is its own, and it decides and writes under  *)
(* its lock, a withdrawal under the one lock of all withdrawals too.       *)
UnitsLock ==
    \A c \in Threads :
        /\ doing[c] = "idle" => \A l \in Locks : held[l] # c
        /\ doing[c] # "locking" => wants[c] = <<>>
        /\ doing[c] # "idle" =>
              /\ IsCall(c)
              /\ \A l \in Worlds : held[l] = c => l = World(c)
              /\ \A i \in 1..Len(wants[c]) : wants[c][i] \in Worlds => wants[c][i] = World(c)
              /\ Takes(c, World(c))
              /\ Op(c) = "withdraw" => Takes(c, "withdrawals")

(* What the dictionaries hold for one world, and what they held before     *)
(* withdrawals of other worlds failed.                                     *)
Rows(w) == {x \in rows : x.world = w}
Stored(w) == {r \in graphs : r.world = w}
Lost(w) == {r \in lost : r.world = w}
Revs(w) == Stored(w) \cup Lost(w)
Recs(i, w) == {p \in records[i] : p.revision.world = w}
Gone(w) == {x \in withdrawals : x.world = w}

(* A world began once, and its receipt is found by its id too, unless two  *)
(* worlds have that id: whether another has it is looked at under the lock *)
(* of one world alone.                                                     *)
Numbered(w) ==
    /\ \A k \in Beginnings : receipts[<<k, w>>] # None =>
          /\ IsReceipt(receipts[<<k, w>>], k, w)
          /\ OfOneWorld(k, receipts[<<k, w>>].id) =>
                receipts[<<k, receipts[<<k, w>>].id>>] = receipts[<<k, w>>]
    /\ \A k, l \in Beginnings :
          receipts[<<k, w>>] # None /\ receipts[<<l, w>>] # None => k = l

(* What StoreCoherent says of a world with this head, these revisions,     *)
(* records and withdrawals.                                                *)
Sound(w, at, revs, recs, gone) ==
    /\ at # None => at \in revs
    /\ \A r \in revs : r.parent # None => r.parent \in revs
    /\ \A i \in Indexes : \A p \in recs[i] :
          p.revision \in revs /\ \A j \in Indexes : p \in recs[j]
    /\ \A x \in gone : x.revision \in revs
    /\ \A k \in Beginnings :
          receipts[<<k, w>>] # None => receipts[<<k, w>>].revision \in revs

(* The rows that the receipt of a world names are stored.                  *)
Filled(w) ==
    \A k \in Beginnings :
        receipts[<<k, w>>] # None => Effective(receipts[<<k, w>>]) \subseteq Rows(w)

(* The revisions, the records and the withdrawals that a world is left     *)
(* with when it has no head: none, or those that are lost.                 *)
Headless(w) ==
    /\ \A r \in Lost(w) : r.parent # None => r.parent \in Lost(w)
    /\ \A i \in Indexes : \A p \in Recs(i, w) :
          p.revision \in Lost(w) /\ \A j \in Indexes : p \in Recs(j, w)
    /\ \A x \in Gone(w) : x.revision \in Lost(w)

AllRecs(w) == [i \in Indexes |-> Recs(i, w)]

(* What a unit has written so far, and that what it saved puts its world   *)
(* back: before an adoption or an initialization the world was empty.  A   *)
(* child that has not settled may be gone, with a withdrawal that failed   *)
(* elsewhere; the unit will not end then.                                  *)
BeginningOK(c) ==
    LET w == World(c)
        q == unit[c].request
    IN  /\ undo[c].head = None /\ undo[c].revisions = {} /\ undo[c].receipt = None
        /\ Headless(w)
        /\ IF doing[c] \in {"receipt", "ending"}
           THEN heads[w] = Child(c) /\ Stored(w) \subseteq {Child(c)}
           ELSE heads[w] = None /\ Stored(w) = {}
        /\ \A k \in Beginnings : receipts[<<k, w>>] =
              IF doing[c] = "ending" /\ k = q.op THEN Receipt(k, w, q.id, q.rows, q.graph) ELSE None
        /\ doing[c] # "sources" => Written(q, Sources) \subseteq Rows(w)
        /\ doing[c] \in {"graph", "receipt", "ending"} => q.rows \subseteq Rows(w)

(* A repair writes rows and the receipt, the graph it leaves alone; undone *)
(* it puts back what is lost by then.                                      *)
RepairOK(c) ==
    LET w == World(c)
        s == undo[c].receipt
        fixed == [s EXCEPT !.form = "v4", !.targets = unit[c].request.targets]
    IN  /\ doing[c] \in {"sources", "receipt", "ending"}
        /\ s # None /\ IsReceipt(s, "adoption", w)
        /\ heads[w] = undo[c].head
        /\ Stored(w) \subseteq undo[c].revisions /\ undo[c].revisions \subseteq Revs(w)
        /\ Sound(w, heads[w], Revs(w), AllRecs(w), Gone(w))
        /\ Effective(s) \subseteq {x \in undo[c].rows : x.world = w}
        /\ receipts[<<"adoption", w>>] = IF doing[c] = "ending" THEN fixed ELSE s
        /\ doing[c] # "sources" => Effective(fixed) \subseteq Rows(w)

(* Without its child and its record, the world is as it was.               *)
Before(c) == (Stored(World(c)) \ {Child(c)}) \cup Lost(World(c))

PublicationOK(c) ==
    LET w == World(c)
        mine == RecordOf(c)
    IN  /\ doing[c] \in {"graph", "receipt", "ending"}
        /\ Filled(w)
        /\ Child(c).parent \in Before(c)
        /\ IF doing[c] = "graph" THEN heads[w] = undo[c].head /\ Child(c) \notin Stored(w)
           ELSE heads[w] = Child(c) /\ undo[c].head = Child(c).parent
        /\ Sound(w, undo[c].head, Before(c), [i \in Indexes |-> Recs(i, w) \ {mine}], Gone(w))
        /\ DOMAIN undo[c].records = Indexes
        /\ \A i \in Indexes : mine \notin undo[c].records[i]
        /\ \A i \in Indexes : mine \in Recs(i, w) <=> doing[c] = "ending"

(* Without its child and its receipt, too.                                 *)
Saved(c) == {r \in undo[c].revisions : r.world = World(c)}

WithdrawalOK(c) ==
    LET w == World(c)
        id == unit[c].request.id
        before == Saved(c) \cup Lost(w)
        mine == [world |-> w, id |-> id, revision |-> Child(c)]
    IN  /\ doing[c] \in {"graph", "receipt", "ending"}
        /\ Filled(w)
        /\ Child(c).parent \in before
        /\ IF doing[c] = "graph" THEN heads[w] = undo[c].head /\ Stored(w) = Saved(c)
           ELSE /\ heads[w] = Child(c) /\ Stored(w) = Saved(c) \cup {Child(c)}
                /\ undo[c].head = Child(c).parent
        /\ Sound(w, undo[c].head, before, AllRecs(w), {x \in Gone(w) : x.id # id})
        /\ \A x \in Gone(w) : x.id = id => doing[c] = "ending" /\ x = mine

(* No unit is in the middle of its writes to the world.                    *)
Quiet(w) == held[w] = None \/ doing[held[w]] \notin Writing

(* A world that no unit writes to is whole; one that a unit writes to is   *)
(* what that unit has made of it so far.                                   *)
WorldOK(w) ==
    /\ Numbered(w)
    /\ Quiet(w) => Sound(w, heads[w], Revs(w), AllRecs(w), Gone(w)) /\ Filled(w)
    /\ \A c \in Threads : held[w] = c /\ doing[c] \in Writing =>
          CASE Op(c) \in Beginnings -> BeginningOK(c)
            [] Op(c) = "repair" -> RepairOK(c)
            [] Op(c) = "publish" -> PublicationOK(c)
            [] Op(c) = "withdraw" -> WithdrawalOK(c)

StoreInv == StoreTypes /\ OwnWorld /\ UnitsLock /\ \A w \in Worlds : WorldOK(w)

(* What the invariant of a world says is kept by steps that leave its part *)
(* of the store, or add rows to it.                                        *)
KeptBut(v) ==
    /\ heads'[v] = heads[v]
    /\ Gone(v)' = Gone(v)
    /\ \A i \in Indexes : Recs(i, v)' = Recs(i, v)
    /\ \A k \in Beginnings :
          /\ receipts'[<<k, v>>] = receipts[<<k, v>>]
          /\ receipts[<<k, v>>] # None /\ OfOneWorld(k, receipts[<<k, v>>].id) =>
                receipts'[<<k, receipts[<<k, v>>].id>>] = receipts[<<k, receipts[<<k, v>>].id>>]
    /\ Rows(v) \subseteq Rows(v)'

SameGraph(v) == Stored(v)' = Stored(v) /\ Lost(v)' = Lost(v) /\ Revs(v)' = Revs(v)

Kept(v) == KeptBut(v) /\ SameGraph(v)

Same(c) == doing'[c] = doing[c] /\ unit'[c] = unit[c] /\ undo'[c] = undo[c]

LEMMA KeptWhole ==
    ASSUME NEW v \in Worlds, WorldOK(v), KeptBut(v)
    PROVE  /\ Numbered(v)' /\ AllRecs(v)' = AllRecs(v)
           /\ Filled(v) => Filled(v)'
           /\ \A at, revs, recs, gone :
                 Sound(v, at, revs, recs, gone) =>
                 (\A k \in Beginnings :
                    receipts'[<<k, v>>] # None => receipts'[<<k, v>>].revision \in revs)
<1>1. Numbered(v)'
  <2>1. /\ \A k \in Beginnings : receipts'[<<k, v>>] = receipts[<<k, v>>]
        /\ Numbered(v)
    BY DEF WorldOK, KeptBut
  <2>2. ASSUME NEW k \in Beginnings, receipts[<<k, v>>] # None
        PROVE  /\ IsReceipt(receipts'[<<k, v>>], k, v)
               /\ OfOneWorld(k, receipts'[<<k, v>>].id) =>
                     receipts'[<<k, receipts'[<<k, v>>].id>>] = receipts'[<<k, v>>]
    BY <2>1, <2>2 DEF Numbered, KeptBut
  <2> QED
    BY <2>1, <2>2 DEF Numbered
<1>2. AllRecs(v)' = AllRecs(v)
  BY DEF AllRecs, KeptBut
<1>3. Filled(v) => Filled(v)'
  BY DEF Filled, KeptBut
<1>4. QED
  BY <1>1, <1>2, <1>3 DEF Sound, KeptBut

LEMMA KeptQuiet ==
    ASSUME NEW v \in Worlds, WorldOK(v), KeptBut(v), Revs(v)' = Revs(v),
           Quiet(v), Quiet(v)', None \notin Threads
    PROVE  WorldOK(v)'
<1>1. Sound(v, heads[v], Revs(v), AllRecs(v), Gone(v)) /\ Filled(v)
  BY DEF WorldOK
<1>2. Sound(v, heads[v], Revs(v), AllRecs(v), Gone(v))'
  <2>1. /\ heads'[v] = heads[v] /\ Revs(v)' = Revs(v) /\ Gone(v)' = Gone(v)
        /\ AllRecs(v)' = AllRecs(v)
    BY KeptWhole DEF KeptBut
  <2>2. \A k \in Beginnings : receipts'[<<k, v>>] = receipts[<<k, v>>]
    BY DEF KeptBut
  <2> QED
    BY <1>1, <2>1, <2>2 DEF Sound
<1>3. ASSUME NEW c \in Threads, held'[v] = c, doing'[c] \in Writing PROVE FALSE
  BY <1>3 DEF Quiet
<1> QED
  BY <1>1, <1>2, <1>3, KeptWhole DEF WorldOK

(* The graph of a world may also lose what had not settled, or pass from   *)
(* what is stored to what is lost, as far as the unit at work allows.      *)
GraphKept(v, c) ==
    /\ Stored(v)' \subseteq Stored(v)
    /\ Op(c) \in Beginnings => Lost(v)' = Lost(v)
    /\ Op(c) = "repair" => Revs(v)' = Revs(v)
    /\ Op(c) = "publish" => Before(c)' = Before(c)
    /\ Op(c) = "withdraw" => SameGraph(v)

LEMMA UnitKept ==
    ASSUME StoreTypes, NEW v \in Worlds, WorldOK(v), KeptBut(v), None \notin Threads,
           held'[v] = held[v], \A c \in Threads : held[v] = c => Same(c),
           UnitsLock, \A c \in Threads : doing[c] \in Writing => doing[c] # "idle",
           \A c \in Threads : held[v] = c /\ doing[c] \in Writing => GraphKept(v, c),
           Quiet(v) => Revs(v)' = Revs(v)
    PROVE  WorldOK(v)'
<1>a. /\ heads'[v] = heads[v] /\ Gone(v)' = Gone(v)
      /\ AllRecs(v)' = AllRecs(v) /\ Rows(v) \subseteq Rows(v)'
      /\ \A i \in Indexes : Recs(i, v)' = Recs(i, v)
      /\ \A k \in Beginnings : receipts'[<<k, v>>] = receipts[<<k, v>>]
  BY KeptWhole DEF KeptBut
<1>1. CASE \E c \in Threads : held[v] = c /\ doing[c] \in Writing
  <2>1. PICK c \in Threads : held[v] = c /\ doing[c] \in Writing
    BY <1>1
  <2>2. ~Quiet(v)' /\ World(c) = v /\ Same(c)
    BY <2>1 DEF Quiet, UnitsLock, Same
  <2>3. World(c)' = World(c) /\ Op(c)' = Op(c) /\ Child(c)' = Child(c) /\ RecordOf(c)' = RecordOf(c)
    BY <2>2 DEF Same, World, Op, Child, RecordOf
  <2>g. GraphKept(v, c)
    BY <2>1
  <2>4. Op(c) \in Beginnings /\ BeginningOK(c) => BeginningOK(c)'
    <3> SUFFICES ASSUME Op(c) \in Beginnings, BeginningOK(c) PROVE BeginningOK(c)'
      OBVIOUS
    <3>1. Lost(v)' = Lost(v) /\ Stored(v)' \subseteq Stored(v)
      BY <2>g DEF GraphKept
    <3> QED
      BY <1>a, <2>2, <2>3, <3>1 DEF BeginningOK, Headless, Same
  <2>5. Op(c) = "repair" /\ RepairOK(c) => RepairOK(c)'
    <3> SUFFICES ASSUME Op(c) = "repair", RepairOK(c) PROVE RepairOK(c)'
      OBVIOUS
    <3>1. Revs(v)' = Revs(v) /\ Stored(v)' \subseteq Stored(v)
      BY <2>g DEF GraphKept
    <3> QED
      BY <1>a, <2>2, <2>3, <3>1 DEF RepairOK, Same, Sound, Beginnings
  <2>6. Op(c) = "publish" /\ PublicationOK(c) => PublicationOK(c)'
    <3> SUFFICES ASSUME Op(c) = "publish", PublicationOK(c) PROVE PublicationOK(c)'
      OBVIOUS
    <3>1. Filled(v)'
      BY <2>2, KeptWhole DEF PublicationOK
    <3>2. Before(c)' = Before(c) /\ Stored(v)' \subseteq Stored(v)
      BY <2>g DEF GraphKept
    <3>3. Sound(v, undo[c].head, Before(c), [i \in Indexes |-> Recs(i, v) \ {RecordOf(c)}], Gone(v))'
      <4>1. [i \in Indexes |-> Recs(i, v)' \ {RecordOf(c)'}]
               = [i \in Indexes |-> Recs(i, v) \ {RecordOf(c)}]
        BY <1>a, <2>3
      <4> QED
        BY <1>a, <2>2, <2>3, <3>2, <4>1 DEF PublicationOK, Sound, Same
    <3> QED
      BY <1>a, <2>2, <2>3, <3>1, <3>2, <3>3 DEF PublicationOK, Same
  <2>7. Op(c) = "withdraw" /\ WithdrawalOK(c) => WithdrawalOK(c)'
    <3> SUFFICES ASSUME Op(c) = "withdraw", WithdrawalOK(c) PROVE WithdrawalOK(c)'
      OBVIOUS
    <3>1. Filled(v)'
      BY <2>2, KeptWhole DEF WithdrawalOK
    <3>2. Stored(v)' = Stored(v) /\ Lost(v)' = Lost(v) /\ Saved(c)' = Saved(c)
      BY <2>2, <2>3, <2>g DEF GraphKept, SameGraph, Saved, Same
    <3> QED
      BY <1>a, <2>2, <2>3, <3>1, <3>2 DEF WithdrawalOK, Same, Sound
  <2>8. \A d \in Threads : held'[v] = d => d = c
    BY <2>1
  <2>9. CASE Op(c) \in Beginnings
    BY <2>1, <2>2, <2>3, <2>4, <2>8, <2>9, KeptWhole DEF WorldOK, Beginnings, Same
  <2>10. CASE Op(c) = "repair"
    BY <2>1, <2>2, <2>3, <2>5, <2>8, <2>10, KeptWhole DEF WorldOK, Beginnings, Same
  <2>11. CASE Op(c) = "publish"
    BY <2>1, <2>2, <2>3, <2>6, <2>8, <2>11, KeptWhole DEF WorldOK, Beginnings, Same
  <2>12. CASE Op(c) = "withdraw"
    BY <2>1, <2>2, <2>3, <2>7, <2>8, <2>12, KeptWhole DEF WorldOK, Beginnings, Same
  <2> QED
    BY <2>1, <2>2, <2>9, <2>10, <2>11, <2>12, MemoryAssumption DEF UnitsLock, IsCall, Op
<1>2. CASE \A c \in Threads : ~(held[v] = c /\ doing[c] \in Writing)
  <2>1. held[v] \in Threads \cup {None}
    BY DEF StoreTypes, Locks
  <2>2. Quiet(v) /\ Quiet(v)'
    BY <1>2, <2>1 DEF Quiet, Same
  <2> QED
    BY <2>2, KeptQuiet
<1> QED
  BY <1>1, <1>2

LEMMA KeptUnit ==
    ASSUME StoreTypes, NEW v \in Worlds, WorldOK(v), Kept(v), None \notin Threads, held'[v] = held[v],
           \A c \in Threads : held[v] = c => Same(c),
           UnitsLock, \A c \in Threads : doing[c] \in Writing => doing[c] # "idle"
    PROVE  WorldOK(v)'
<1>1. KeptBut(v) /\ SameGraph(v) /\ Stored(v)' = Stored(v) /\ Lost(v)' = Lost(v) /\ Revs(v)' = Revs(v)
  BY DEF Kept, SameGraph, Revs
<1>2. ASSUME NEW c \in Threads, held[v] = c, doing[c] \in Writing PROVE GraphKept(v, c)
  <2>1. World(c) = v /\ World(c)' = v /\ Child(c)' = Child(c)
    BY <1>2 DEF UnitsLock, Same, World, Child
  <2>2. Before(c)' = Before(c)
    BY <1>1, <2>1 DEF Before
  <2> QED
    BY <1>1, <2>2 DEF GraphKept
<1> QED
  BY <1>1, <1>2, UnitKept
-----------------------------------------------------------------------------
(* Steps of a unit past its locks.                                         *)
Active(c) == doing[c] = "deciding" \/ doing[c] \in Writing

Leaves(c) ==
    /\ held' = [l \in Locks |-> IF held[l] = c THEN None ELSE held[l]]
    /\ doing' = [doing EXCEPT ![c] = "idle"] /\ unit' = [unit EXCEPT ![c] = None]
    /\ undo' = [undo EXCEPT ![c] = None] /\ wants' = wants

Moves(c) ==
    /\ held' = held /\ unit' = unit /\ wants' = wants
    /\ \E stage \in Writing : doing' = [doing EXCEPT ![c] = stage]
    /\ undo' = undo \/ \E saved : undo' = [undo EXCEPT ![c] = saved]

LEMMA ActiveHolds ==
    ASSUME UnitsLock, NEW c \in Threads, Active(c)
    PROVE  /\ held[World(c)] = c /\ World(c) \in Worlds /\ IsCall(c) /\ wants[c] = <<>>
           /\ unit[c].request \in Requests
           /\ \A l \in Worlds : held[l] = c => l = World(c)
           /\ Op(c) = "withdraw" => held["withdrawals"] = c
<1>1. doing[c] # "idle" /\ doing[c] # "locking"
  BY DEF Active, Writing
<1>2. wants[c] = <<>> /\ IsCall(c)
  BY <1>1 DEF UnitsLock
<1>3. World(c) \in Worlds
  BY <1>2, MemoryAssumption DEF IsCall, World
<1>4. \A l \in Locks : Takes(c, l) => held[l] = c
  BY <1>2 DEF Takes
<1>5. World(c) \in Locks /\ "withdrawals" \in Locks
  BY <1>3 DEF Locks
<1> QED
  BY <1>1, <1>2, <1>3, <1>4, <1>5 DEF UnitsLock, IsCall

LEMMA UnitKeepsLocks ==
    ASSUME StoreTypes, UnitsLock, NEW c \in Threads, Active(c), Leaves(c) \/ Moves(c)
    PROVE  /\ UnitsLock'
           /\ held' \in [Locks -> Threads \cup {None}] /\ doing' \in [Threads -> UnitStages]
           /\ wants' \in [Threads -> Seq(Locks)]
           /\ DOMAIN unit' = Threads /\ DOMAIN undo' = Threads
           /\ Moves(c) => held'[World(c)] = c /\ doing'[c] \in Writing
           /\ Leaves(c) => held'[World(c)] = None
<1>1. CASE Leaves(c)
  <2>1. /\ held' \in [Locks -> Threads \cup {None}] /\ doing' \in [Threads -> UnitStages]
        /\ wants' \in [Threads -> Seq(Locks)]
        /\ DOMAIN unit' = Threads /\ DOMAIN undo' = Threads
    BY <1>1 DEF Leaves, StoreTypes, UnitStages
  <2>2. ASSUME NEW d \in Threads PROVE UnitsLock!(d)'
    <3>1. CASE d = c
      BY <1>1, <3>1, MemoryAssumption, ActiveHolds DEF Leaves, StoreTypes
    <3>2. CASE d # c
      <4>1. doing'[d] = doing[d] /\ unit'[d] = unit[d] /\ wants'[d] = wants[d]
        BY <1>1, <3>2 DEF Leaves, StoreTypes
      <4>2. \A l \in Locks : held'[l] = d <=> held[l] = d
        BY <1>1, <3>2, MemoryAssumption DEF Leaves, StoreTypes
      <4>3. IsCall(d)' <=> IsCall(d)
        BY <4>1 DEF IsCall, Child
      <4>4. World(d)' = World(d) /\ Worlds \subseteq Locks
        BY <4>1 DEF World, Locks
      <4>5. IsCall(d) => World(d) \in Worlds
        BY MemoryAssumption DEF IsCall, World
      <4>6. Op(d)' = Op(d) /\ "withdrawals" \in Locks /\ \A l \in Locks : Takes(d, l)' <=> Takes(d, l)
        BY <4>1, <4>2 DEF Op, Locks, Takes
      <4> QED
        BY <4>1, <4>2, <4>3, <4>4, <4>5, <4>6 DEF UnitsLock
    <3> QED
      BY <3>1, <3>2
  <2>3. ~Moves(c)
    BY <1>1 DEF Leaves, Moves, StoreTypes, Writing
  <2>4. held'[World(c)] = None
    BY <1>1, ActiveHolds DEF Leaves, Locks
  <2> QED
    BY <2>1, <2>2, <2>3, <2>4 DEF UnitsLock
<1>2. CASE Moves(c)
  <2>1. /\ held' \in [Locks -> Threads \cup {None}] /\ doing' \in [Threads -> UnitStages]
        /\ wants' \in [Threads -> Seq(Locks)]
        /\ DOMAIN unit' = Threads /\ DOMAIN undo' = Threads
    BY <1>2 DEF Moves, StoreTypes, UnitStages, Writing
  <2>2. doing'[c] \in Writing /\ \A d \in Threads : d # c => doing'[d] = doing[d]
    BY <1>2 DEF Moves, StoreTypes
  <2>3. \A d \in Threads : /\ World(d)' = World(d) /\ (IsCall(d)' <=> IsCall(d))
                          /\ Op(d)' = Op(d) /\ \A l : Takes(d, l)' <=> Takes(d, l)
    BY <1>2 DEF Moves, World, IsCall, Child, Op, Takes
  <2>4. UnitsLock'
    <3>1. held' = held /\ wants' = wants /\ wants[c] = <<>> /\ doing[c] # "idle"
      BY <1>2, ActiveHolds DEF Moves, Active, Writing
    <3>2. doing'[c] # "idle" /\ doing'[c] # "locking"
      BY <2>2 DEF Writing
    <3> QED
      BY <2>2, <2>3, <3>1, <3>2 DEF UnitsLock
  <2>5. ~Leaves(c)
    BY <1>2 DEF Leaves, Moves, StoreTypes, Writing
  <2> QED
    BY <1>2, <2>1, <2>2, <2>4, <2>5, ActiveHolds DEF Moves
<1> QED
  BY <1>1, <1>2

LEMMA OtherWorlds ==
    ASSUME StoreInv, NEW c \in Threads, Active(c), Leaves(c) \/ Moves(c),
           NEW v \in Worlds, v # World(c), Kept(v)
    PROVE  WorldOK(v)'
<1>1. held[v] # c
  BY ActiveHolds DEF StoreInv
<1>2. held'[v] = held[v]
  BY <1>1 DEF Leaves, Moves, Locks
<1>3. \A d \in Threads : held[v] = d => Same(d)
  BY <1>1 DEF Leaves, Moves, Same, StoreInv, StoreTypes
<1> QED
  BY <1>2, <1>3, KeptUnit, MemoryAssumption DEF StoreInv, Writing

LEMMA LeftWhole ==
    ASSUME StoreInv, NEW c \in Threads, Active(c), Leaves(c), NEW w, w = World(c),
           Numbered(w)', Filled(w)', Sound(w, heads[w], Revs(w), AllRecs(w), Gone(w))'
    PROVE  WorldOK(w)'
BY UnitKeepsLocks, MemoryAssumption DEF WorldOK, StoreInv

LEMMA LeftWriting ==
    ASSUME StoreInv, NEW c \in Threads, Active(c), Moves(c), NEW w, w = World(c),
           Numbered(w)',
           \/ Op(c) \in Beginnings /\ BeginningOK(c)'
           \/ Op(c) = "repair" /\ RepairOK(c)'
           \/ Op(c) = "publish" /\ PublicationOK(c)'
           \/ Op(c) = "withdraw" /\ WithdrawalOK(c)'
    PROVE  WorldOK(w)'
<1>1. held'[w] = c /\ doing'[c] \in Writing /\ Op(c)' = Op(c)
  BY UnitKeepsLocks DEF StoreInv, Moves, Op
<1>2. ~Quiet(w)'
  BY <1>1, MemoryAssumption DEF Quiet
<1> QED
  BY <1>1, <1>2 DEF WorldOK, Beginnings
-----------------------------------------------------------------------------
(* Calls under one lock.                                                   *)
LEMMA UnitsAlone ==
    ASSUME StoreInv, UNCHANGED units
    PROVE  /\ UnitsLock'
           /\ held' \in [Locks -> Threads \cup {None}] /\ doing' \in [Threads -> UnitStages]
           /\ wants' \in [Threads -> Seq(Locks)]
           /\ DOMAIN unit' = Threads /\ DOMAIN undo' = Threads
           /\ \A v \in Worlds : Kept(v) => WorldOK(v)'
           /\ \A v \in Worlds : Quiet(v)' <=> Quiet(v)
<1>1. UnitsLock'
  BY DEF StoreInv, UnitsLock, IsCall, World, Child, Op, Takes, units
<1>2. ASSUME NEW v \in Worlds, Kept(v) PROVE WorldOK(v)'
  BY <1>2, KeptUnit, MemoryAssumption DEF StoreInv, Same, units, Writing
<1> QED
  BY <1>1, <1>2 DEF StoreInv, StoreTypes, units, Quiet

LEMMA PutKeeps ==
    ASSUME StoreInv, NEW new, rows' = rows \cup new,
           UNCHANGED <<graphs, heads, reviews, records, receipts, withdrawals, lost, units>>
    PROVE  StoreInv'
<1>1. \A v \in Worlds : Kept(v)
  BY DEF Kept, KeptBut, SameGraph, Stored, Lost, Revs, Recs, Gone, Rows
<1> QED
  BY <1>1, UnitsAlone DEF StoreInv, StoreTypes, OwnWorld

LEMMA FinalizeKeeps ==
    ASSUME StoreInv, FinalizeReview
    PROVE  StoreInv'
<1>1. \A v \in Worlds : Kept(v)
  BY DEF Kept, KeptBut, SameGraph, Stored, Lost, Revs, Recs, Gone, Rows, FinalizeReview
<1>2. OwnWorld'
  BY MemoryAssumption DEF OwnWorld, FinalizeReview, StoreInv
<1> QED
  BY <1>1, <1>2, UnitsAlone DEF StoreInv, StoreTypes, FinalizeReview

(* A publication changes the graph of its own world.                       *)
LEMMA PublishedWorlds ==
    ASSUME StoreTypes, NEW child, Published(child),
           UNCHANGED <<rows, records, receipts, withdrawals, lost>>,
           NEW v \in Worlds
    PROVE  /\ DOMAIN heads' = Worlds
           /\ child.world # v => Kept(v)
           /\ child.world = v =>
                /\ heads[v] = child.parent /\ heads'[v] = child
                /\ Stored(v)' = Stored(v) \cup {child} /\ Lost(v)' = Lost(v)
                /\ Revs(v)' = Revs(v) \cup {child} /\ Gone(v)' = Gone(v)
                /\ AllRecs(v)' = AllRecs(v) /\ Rows(v)' = Rows(v)
                /\ \A i \in Indexes : Recs(i, v)' = Recs(i, v)
BY DEF StoreTypes, Published, Kept, KeptBut, SameGraph, Stored, Lost, Revs, Recs, Gone, Rows, AllRecs

LEMMA RawKeeps ==
    ASSUME StoreInv, PublishRaw
    PROVE  StoreInv'
<1>1. PICK w \in Worlds, x \in Raw :
        /\ held[w] = None
        /\ Published(GraphRevision(w, heads[w], x[1], x[2]))
        /\ UNCHANGED <<rows, reviews, records, receipts, withdrawals, lost, units>>
  BY DEF PublishRaw
<1> DEFINE child == GraphRevision(w, heads[w], x[1], x[2])
<1>2. child.world = w /\ child.parent = heads[w]
  BY DEF GraphRevision
<1>3. WorldOK(w)'
  <2>1. /\ heads'[w] = child /\ Revs(w)' = Revs(w) \cup {child} /\ Gone(w)' = Gone(w)
        /\ AllRecs(w)' = AllRecs(w) /\ Rows(w)' = Rows(w)
    BY <1>1, <1>2, PublishedWorlds DEF StoreInv
  <2>2. Quiet(w) /\ Quiet(w)'
    BY <1>1 DEF Quiet, units
  <2>3. WorldOK(w) /\ \A c \in Threads : held[w] # c
    BY <1>1, MemoryAssumption DEF StoreInv
  <2>4. Sound(w, heads[w], Revs(w), AllRecs(w), Gone(w)) /\ Filled(w) /\ Numbered(w)
    BY <2>2, <2>3 DEF WorldOK
  <2>5. receipts' = receipts
    BY <1>1
  <2>6. Sound(w, heads[w], Revs(w), AllRecs(w), Gone(w))'
    BY <1>2, <2>1, <2>4, <2>5 DEF Sound
  <2>7. Filled(w)' /\ Numbered(w)'
    BY <2>1, <2>4, <2>5 DEF Filled, Numbered
  <2> QED
    BY <1>1, <2>3, <2>6, <2>7 DEF WorldOK, units
<1>4. ASSUME NEW v \in Worlds, v # w PROVE WorldOK(v)'
  BY <1>1, <1>2, <1>4, PublishedWorlds, UnitsAlone DEF StoreInv
<1>5. OwnWorld'
  BY <1>1, <1>2 DEF OwnWorld, StoreInv, Published, StoreTypes
<1> QED
  BY <1>1, <1>3, <1>4, <1>5, UnitsAlone DEF StoreInv, StoreTypes, Published

LEMMA RollbackKeeps ==
    ASSUME StoreInv, RollbackHead
    PROVE  StoreInv'
<1>1. PICK r \in graphs :
        /\ held[r.world] = None
        /\ heads' = [heads EXCEPT ![r.world] = r]
        /\ UNCHANGED <<rows, graphs, reviews, records, receipts, withdrawals, lost, units>>
  BY DEF RollbackHead
<1>2. ASSUME NEW v \in Worlds, v # r.world PROVE WorldOK(v)'
  <2>1. Kept(v)
    BY <1>1, <1>2 DEF Kept, KeptBut, SameGraph, Stored, Lost, Revs, Recs, Gone, Rows
  <2> QED
    BY <1>1, <2>1, UnitsAlone
<1>3. ASSUME NEW v \in Worlds, v = r.world PROVE WorldOK(v)'
  <2>1. /\ heads'[v] = r /\ SameGraph(v) /\ Gone(v)' = Gone(v)
        /\ AllRecs(v)' = AllRecs(v) /\ Rows(v)' = Rows(v) /\ receipts' = receipts
        /\ r \in Revs(v)
    BY <1>1, <1>3 DEF StoreInv, StoreTypes, SameGraph, Stored, Lost, Revs, Recs, Gone, Rows, AllRecs
  <2>2. Quiet(v) /\ Quiet(v)' /\ \A c \in Threads : held'[v] # c
    BY <1>1, <1>3, MemoryAssumption DEF Quiet, units
  <2>3. Sound(v, heads[v], Revs(v), AllRecs(v), Gone(v)) /\ Filled(v) /\ Numbered(v)
    BY <2>2 DEF WorldOK, StoreInv
  <2>4. Sound(v, heads[v], Revs(v), AllRecs(v), Gone(v))'
    BY <2>1, <2>3 DEF Sound, SameGraph
  <2>5. Filled(v)' /\ Numbered(v)'
    BY <2>1, <2>3 DEF Filled, Numbered
  <2> QED
    BY <2>2, <2>4, <2>5 DEF WorldOK
<1>4. OwnWorld'
  BY <1>1 DEF OwnWorld, StoreInv, StoreTypes
<1> QED
  BY <1>1, <1>2, <1>3, <1>4, UnitsAlone DEF StoreInv, StoreTypes

-----------------------------------------------------------------------------
(* Receipts: an adoption and an initialization are indexed by ids of their *)
(* own, so that storing one leaves the others.                             *)
LEMMA OwnIds ==
    ASSUME NEW kind, NEW id, NEW w, <<kind, id, w>> \in Owners
    PROVE  id \in Ids /\ id \notin Worlds
<1>1. \A o \in Owners : o[2] \in Ids
  BY DEF Owners, Ids
<1>2. id \in Ids
  BY <1>1
<1> QED
  BY <1>2, MemoryAssumption

Stores(kind, w, id, s) ==
    receipts' = [receipts EXCEPT ![<<kind, w>>] = s, ![<<kind, id>>] = s]

LEMMA StoredReceipt ==
    ASSUME StoreTypes, NEW w \in Worlds, NEW kind \in Beginnings, NEW id, <<kind, id, w>> \in Owners,
           NEW s, Stores(kind, w, id, s)
    PROVE  /\ DOMAIN receipts' = Beginnings \X (Worlds \cup Ids)
           /\ receipts'[<<kind, w>>] = s /\ receipts'[<<kind, id>>] = s
           /\ \A k \in Beginnings : k # kind => receipts'[<<k, w>>] = receipts[<<k, w>>]
<1>1. DOMAIN receipts' = Beginnings \X (Worlds \cup Ids)
  BY DEF StoreTypes, Stores
<1>2. \A x \in DOMAIN receipts :
        receipts'[x] = IF x \in {<<kind, w>>, <<kind, id>>} THEN s ELSE receipts[x]
  BY DEF Stores
<1>3. id \in Ids /\ id \notin Worlds
  BY OwnIds
<1>4. receipts'[<<kind, w>>] = s /\ receipts'[<<kind, id>>] = s
  BY <1>2, <1>3 DEF StoreTypes
<1>5. ASSUME NEW k \in Beginnings, k # kind PROVE receipts'[<<k, w>>] = receipts[<<k, w>>]
  <2>1. <<k, w>> \in DOMAIN receipts
    BY DEF StoreTypes
  <2> QED
    BY <1>2, <1>5, <2>1
<1> QED
  BY <1>1, <1>4, <1>5

KeepsReceipts(v) ==
    \A k \in Beginnings :
        /\ receipts'[<<k, v>>] = receipts[<<k, v>>]
        /\ receipts[<<k, v>>] # None /\ OfOneWorld(k, receipts[<<k, v>>].id) =>
              receipts'[<<k, receipts[<<k, v>>].id>>] = receipts[<<k, receipts[<<k, v>>].id>>]

LEMMA OtherReceipts ==
    ASSUME StoreTypes, NEW w \in Worlds, NEW kind \in Beginnings, NEW id, <<kind, id, w>> \in Owners,
           \A x \in DOMAIN receipts : x \notin {<<kind, w>>, <<kind, id>>} => receipts'[x] = receipts[x],
           NEW v \in Worlds, v # w, Numbered(v)
    PROVE  KeepsReceipts(v)
<1> SUFFICES ASSUME NEW k \in Beginnings
             PROVE  /\ receipts'[<<k, v>>] = receipts[<<k, v>>]
                    /\ receipts[<<k, v>>] # None /\ OfOneWorld(k, receipts[<<k, v>>].id) =>
                         receipts'[<<k, receipts[<<k, v>>].id>>] = receipts[<<k, receipts[<<k, v>>].id>>]
  BY DEF KeepsReceipts
<1>1. <<k, v>> \in DOMAIN receipts
  BY DEF StoreTypes
<1>2. receipts[<<k, v>>] # None => <<k, receipts[<<k, v>>].id, v>> \in Owners
  BY DEF Numbered, IsReceipt
<1>3. id \notin Worlds
  BY OwnIds
<1>4. <<k, v>> \notin {<<kind, w>>, <<kind, id>>}
  BY <1>3
<1>5. ASSUME receipts[<<k, v>>] # None, OfOneWorld(k, receipts[<<k, v>>].id)
      PROVE  /\ <<k, receipts[<<k, v>>].id>> \in DOMAIN receipts
             /\ <<k, receipts[<<k, v>>].id>> \notin {<<kind, w>>, <<kind, id>>}
  <2>1. PICK own : own = receipts[<<k, v>>].id
    OBVIOUS
  <2>2. <<k, own, v>> \in Owners
    BY <1>2, <1>5, <2>1
  <2>3. own \in Ids /\ own \notin Worlds
    BY <2>2, OwnIds
  <2>4. k = kind => own # id
    BY <1>5, <2>1, <2>2 DEF OfOneWorld
  <2> QED
    BY <2>1, <2>3, <2>4 DEF StoreTypes
<1> QED
  BY <1>1, <1>4, <1>5

(* A receipt with another form or other targets is a receipt.              *)
Targets == {{}} \cup {q.targets : q \in {q \in Requests : q.op = "repair"}}
                \cup {s.targets : s \in Standing}

LEMMA ReceiptForms ==
    ASSUME NEW s, NEW kind, NEW w, IsReceipt(s, kind, w), NEW form \in {"v2", "v3", "v4"},
           NEW targets \in Targets,
           NEW t, t = [kind |-> s.kind, world |-> s.world, id |-> s.id, rows |-> s.rows,
                       form |-> form, targets |-> targets, revision |-> s.revision]
    PROVE  IsReceipt(t, kind, w)
<1>1. /\ t.kind = s.kind /\ t.world = s.world /\ t.id = s.id /\ t.rows = s.rows
      /\ t.revision = s.revision
  OBVIOUS
<1>2. t \in Receipts
  <2>1. s \in Receipts
    BY DEF IsReceipt
  <2> QED
    BY <2>1 DEF Receipts, Targets
<1> QED
  BY <1>1, <1>2 DEF IsReceipt

LEMMA ReceiptIsSomething ==
    ASSUME NEW s, NEW kind, NEW w, IsReceipt(s, kind, w)
    PROVE  /\ s # None /\ s.targets \in Targets /\ s.kind = kind /\ s.world = w
           /\ s = [kind |-> s.kind, world |-> s.world, id |-> s.id, rows |-> s.rows,
                   form |-> s.form, targets |-> s.targets, revision |-> s.revision]
<1>1. s \in Receipts
  BY DEF IsReceipt
<1>2. s # None
  BY <1>1, MemoryAssumption
<1>3. s.targets \in Targets
  BY <1>1 DEF Receipts, Targets
<1>4. s = [kind |-> s.kind, world |-> s.world, id |-> s.id, rows |-> s.rows,
           form |-> s.form, targets |-> s.targets, revision |-> s.revision]
  BY <1>1 DEF Receipts
<1> QED
  BY <1>2, <1>3, <1>4 DEF IsReceipt

LEMMA PromoteKeeps ==
    ASSUME StoreInv, PromoteReceipt
    PROVE  StoreInv'
<1>1. PICK w \in Worlds :
        LET receipt == receipts[<<"adoption", w>>]
            promoted == [receipt EXCEPT !.form = "v3"]
        IN  /\ {l \in {w, "sources", "contributions", "identity"} : held[l] # None} = {}
            /\ receipt # None
            /\ receipts' = [receipts EXCEPT ![<<"adoption", w>>] = promoted,
                                            ![<<"adoption", receipt.id>>] = promoted]
            /\ UNCHANGED <<rows, graphs, heads, reviews, records, withdrawals, lost, units>>
  BY DEF PromoteReceipt
<1> DEFINE receipt == receipts[<<"adoption", w>>]
           promoted == [receipt EXCEPT !.form = "v3"]
<1>2. held[w] = None
  BY <1>1
<1>3. WorldOK(w) /\ Quiet(w) /\ Quiet(w)' /\ \A c \in Threads : held'[w] # c
  BY <1>1, <1>2, MemoryAssumption DEF StoreInv, Quiet, units
<1>4. /\ Numbered(w) /\ Filled(w)
      /\ Sound(w, heads[w], Revs(w), AllRecs(w), Gone(w))
  BY <1>3 DEF WorldOK
<1>5. IsReceipt(receipt, "adoption", w)
  BY <1>1, <1>4 DEF Numbered, Beginnings
<1>6. /\ IsReceipt(promoted, "adoption", w) /\ promoted.id = receipt.id
      /\ promoted.revision = receipt.revision /\ Effective(promoted) = Effective(receipt)
  <2>1. promoted = [kind |-> receipt.kind, world |-> receipt.world, id |-> receipt.id,
                    rows |-> receipt.rows, form |-> "v3", targets |-> receipt.targets,
                    revision |-> receipt.revision]
    BY <1>5, ReceiptIsSomething
  <2>2. IsReceipt(promoted, "adoption", w)
    BY <1>5, <2>1, ReceiptForms, ReceiptIsSomething
  <2> QED
    BY <2>1, <2>2 DEF Effective, Repaired
<1>7. <<"adoption", receipt.id, w>> \in Owners /\ "adoption" \in Beginnings
  BY <1>5 DEF IsReceipt, Beginnings
<1>0. /\ receipts' = [receipts EXCEPT ![<<"adoption", w>>] = promoted,
                                      ![<<"adoption", receipt.id>>] = promoted]
      /\ receipt = receipts[<<"adoption", w>>] /\ receipt # None
  BY <1>1
<1> HIDE DEF receipt, promoted
<1>s. PICK id, s : id = receipt.id /\ s = promoted
  OBVIOUS
<1>k. Stores("adoption", w, id, s) /\ <<"adoption", id, w>> \in Owners
  BY <1>0, <1>7, <1>s DEF Stores
<1>8. /\ receipts'[<<"adoption", w>>] = promoted /\ receipts'[<<"adoption", receipt.id>>] = promoted
      /\ receipts'[<<"initialization", w>>] = receipts[<<"initialization", w>>]
      /\ receipts[<<"initialization", w>>] = None
      /\ DOMAIN receipts' = DOMAIN receipts
  <2>1. receipts[<<"initialization", w>>] = None
    BY <1>0, <1>4 DEF Numbered, Beginnings
  <2>2. "initialization" \in Beginnings /\ "initialization" # "adoption"
    BY DEF Beginnings
  <2>3. StoreTypes
    BY DEF StoreInv
  <2>4. /\ DOMAIN receipts' = Beginnings \X (Worlds \cup Ids)
        /\ receipts'[<<"adoption", w>>] = promoted /\ receipts'[<<"adoption", receipt.id>>] = promoted
        /\ \A k \in Beginnings : k # "adoption" => receipts'[<<k, w>>] = receipts[<<k, w>>]
    <3>1. /\ DOMAIN receipts' = Beginnings \X (Worlds \cup Ids)
          /\ receipts'[<<"adoption", w>>] = s /\ receipts'[<<"adoption", id>>] = s
          /\ \A k \in Beginnings : k # "adoption" => receipts'[<<k, w>>] = receipts[<<k, w>>]
      BY <1>7, <1>k, <2>3, StoredReceipt
    <3> QED
      BY <1>s, <3>1
  <2> QED
    BY <2>1, <2>2, <2>3, <2>4 DEF StoreTypes
<1>9. WorldOK(w)'
  <2>1. /\ heads' = heads /\ SameGraph(w) /\ Gone(w)' = Gone(w) /\ AllRecs(w)' = AllRecs(w)
        /\ Rows(w)' = Rows(w)
    BY <1>1 DEF SameGraph, Stored, Lost, Revs, Gone, AllRecs, Recs, Rows
  <2>2. Numbered(w)'
    BY <1>6, <1>8 DEF Numbered, Beginnings
  <2>3. Filled(w)'
    BY <1>0, <1>4, <1>6, <1>8, <2>1 DEF Filled, Beginnings
  <2>4. Sound(w, heads[w], Revs(w), AllRecs(w), Gone(w))'
    BY <1>0, <1>4, <1>6, <1>8, <2>1 DEF Sound, Beginnings, SameGraph
  <2> QED
    BY <1>3, <2>2, <2>3, <2>4 DEF WorldOK
<1>10. ASSUME NEW v \in Worlds, v # w PROVE WorldOK(v)'
  <2>1. Numbered(v)
    BY DEF StoreInv, WorldOK
  <2>2. KeepsReceipts(v)
    BY <1>7, <1>k, <1>10, <2>1, OtherReceipts DEF StoreInv, Stores
  <2>3. Kept(v)
    BY <1>1, <2>2 DEF Kept, KeptBut, KeepsReceipts, SameGraph, Stored, Lost, Revs, Recs, Gone, Rows
  <2> QED
    BY <1>1, <2>3, UnitsAlone
<1> QED
  BY <1>1, <1>8, <1>9, <1>10, UnitsAlone DEF StoreInv, StoreTypes, OwnWorld
-----------------------------------------------------------------------------
(* Calls, and taking locks.                                                *)
LEMMA LocksOfUnit ==
    ASSUME NEW q \in Requests
    PROVE  /\ LocksOf(q) \in Seq(Locks)
           /\ \A i \in 1..Len(LocksOf(q)) : LocksOf(q)[i] \in Worlds => LocksOf(q)[i] = q.world
           /\ \E i \in 1..Len(LocksOf(q)) : LocksOf(q)[i] = q.world
           /\ q.op = "withdraw" =>
                 \E i \in 1..Len(LocksOf(q)) : LocksOf(q)[i] = "withdrawals"
<1>1. /\ q.world \in Worlds /\ q.world \in Locks
      /\ {"sources", "contributions", "identity", "withdrawals"} \subseteq Locks
      /\ "sources" \notin Worlds /\ "contributions" \notin Worlds
      /\ "identity" \notin Worlds /\ "withdrawals" \notin Worlds
  BY MemoryAssumption DEF Locks
<1>2. LocksOf(q) \in {<<q.world>>, <<q.world, "sources", "contributions", "identity">>,
                      <<"withdrawals", q.world>>, <<q.world, "sources", "identity">>,
                      <<q.world, "sources">>}
  BY MemoryAssumption DEF LocksOf, Beginnings
<1>w. q.op = "withdraw" => LocksOf(q) = <<"withdrawals", q.world>>
  BY DEF LocksOf, Beginnings
<1>v. q.op = "withdraw" => Len(LocksOf(q)) = 2 /\ LocksOf(q)[1] = "withdrawals"
  BY <1>w
<1>u. q.op = "withdraw" => \E i \in 1..Len(LocksOf(q)) : LocksOf(q)[i] = "withdrawals"
  BY <1>v
<1> SUFFICES /\ LocksOf(q) \in Seq(Locks)
             /\ \A i \in 1..Len(LocksOf(q)) : LocksOf(q)[i] \in Worlds => LocksOf(q)[i] = q.world
             /\ \E i \in 1..Len(LocksOf(q)) : LocksOf(q)[i] = q.world
  BY <1>u
<1>3. CASE LocksOf(q) = <<q.world>>
  <2>1. Len(LocksOf(q)) = 1 /\ LocksOf(q)[1] = q.world /\ LocksOf(q) \in Seq(Locks)
    BY <1>1, <1>3
  <2> QED
    BY <2>1
<1>4. CASE LocksOf(q) = <<q.world, "sources", "contributions", "identity">>
  <2>1. /\ Len(LocksOf(q)) = 4 /\ LocksOf(q)[1] = q.world /\ LocksOf(q)[2] = "sources"
        /\ LocksOf(q)[3] = "contributions" /\ LocksOf(q)[4] = "identity"
        /\ LocksOf(q) \in Seq(Locks)
    BY <1>1, <1>4
  <2> QED
    BY <1>1, <2>1
<1>5. CASE LocksOf(q) = <<"withdrawals", q.world>>
  <2>1. /\ Len(LocksOf(q)) = 2 /\ LocksOf(q)[1] = "withdrawals" /\ LocksOf(q)[2] = q.world
        /\ LocksOf(q) \in Seq(Locks)
    BY <1>1, <1>5
  <2> QED
    BY <1>1, <2>1
<1>6. CASE LocksOf(q) = <<q.world, "sources", "identity">>
  <2>1. /\ Len(LocksOf(q)) = 3 /\ LocksOf(q)[1] = q.world /\ LocksOf(q)[2] = "sources"
        /\ LocksOf(q)[3] = "identity" /\ LocksOf(q) \in Seq(Locks)
    BY <1>1, <1>6
  <2> QED
    BY <1>1, <2>1
<1>7. CASE LocksOf(q) = <<q.world, "sources">>
  <2>1. /\ Len(LocksOf(q)) = 2 /\ LocksOf(q)[1] = q.world /\ LocksOf(q)[2] = "sources"
        /\ LocksOf(q) \in Seq(Locks)
    BY <1>1, <1>7
  <2> QED
    BY <1>1, <2>1
<1> QED
  BY <1>2, <1>3, <1>4, <1>5, <1>6, <1>7

(* A step that leaves the store, at most takes a free lock, and keeps its  *)
(* unit short of its first write, keeps every world.                       *)
LEMMA LockingWorlds ==
    ASSUME StoreInv, UNCHANGED store, NEW c \in Threads,
           doing[c] \notin Writing, doing'[c] \notin Writing,
           \A l \in Worlds : held'[l] = held[l] \/ (held[l] = None /\ held'[l] = c),
           \A d \in Threads : d # c => Same(d)
    PROVE  \A v \in Worlds : WorldOK(v)'
<1> SUFFICES ASSUME NEW v \in Worlds PROVE WorldOK(v)'
  OBVIOUS
<1>1. Kept(v)
  BY DEF Kept, KeptBut, SameGraph, Stored, Lost, Revs, Recs, Gone, Rows, store
<1>2. held[v] \in Threads \cup {None}
  BY DEF StoreInv, StoreTypes, Locks
<1>3. CASE held[v] \in {None, c}
  <2>1. Quiet(v) /\ Quiet(v)'
    BY <1>3 DEF Quiet
  <2> QED
    BY <1>1, <2>1, KeptQuiet, MemoryAssumption DEF StoreInv, Kept, SameGraph
<1>4. CASE held[v] \notin {None, c}
  <2>1. held'[v] = held[v] /\ \A d \in Threads : held[v] = d => Same(d)
    BY <1>4
  <2> QED
    BY <1>1, <2>1, KeptUnit, MemoryAssumption DEF StoreInv, Writing
<1> QED
  BY <1>3, <1>4

LEMMA CallKeeps ==
    ASSUME StoreInv, NEW c \in Threads, Call(c)
    PROVE  StoreInv'
<1>1. PICK q, parent, graph :
        /\ q \in Requests
        /\ parent = CASE q.op = "publish" -> reviews[q.id]
                      [] q.op = "withdraw" -> heads[q.world]
                      [] OTHER -> None
        /\ q.op \in Beginnings => graph = q.graph
        /\ doing[c] = "idle"
        /\ q.op \in {"publish", "withdraw"} => parent # None
        /\ doing' = [doing EXCEPT ![c] = "locking"]
        /\ unit' = [unit EXCEPT ![c] =
              [request |-> q, child |-> GraphRevision(q.world, parent, q.id, graph)]]
        /\ wants' = [wants EXCEPT ![c] = LocksOf(q)]
        /\ UNCHANGED <<store, held, undo, failures>>
  <2>1. PICK q \in Requests :
          LET w == q.world
              parent == CASE q.op = "publish" -> reviews[q.id]
                          [] q.op = "withdraw" -> heads[w]
                          [] OTHER -> None
              graph == IF q.op \in {"publish", "withdraw"} /\ parent # None
                       THEN Edited[<<q.id, parent.graph>>] ELSE q.graph
          IN  /\ doing[c] = "idle"
              /\ q.op \in {"publish", "withdraw"} => parent # None
              /\ doing' = [doing EXCEPT ![c] = "locking"]
              /\ unit' = [unit EXCEPT ![c] =
                    [request |-> q, child |-> GraphRevision(w, parent, q.id, graph)]]
              /\ wants' = [wants EXCEPT ![c] = LocksOf(q)]
              /\ UNCHANGED <<store, held, undo, failures>>
    BY DEF Call
  <2> QED
    BY <2>1 DEF Beginnings
<1>2. /\ doing'[c] = "locking" /\ wants'[c] = LocksOf(q)
      /\ unit'[c] = [request |-> q, child |-> GraphRevision(q.world, parent, q.id, graph)]
      /\ \A d \in Threads : d # c => Same(d) /\ wants'[d] = wants[d]
  BY <1>1 DEF StoreInv, StoreTypes, Same
<1>3. StoreTypes'
  BY <1>1, LocksOfUnit DEF StoreInv, StoreTypes, UnitStages, store
<1>4. OwnWorld'
  BY <1>1 DEF StoreInv, OwnWorld, store
<1>5. UnitsLock'
  <2>1. ASSUME NEW d \in Threads, d # c PROVE UnitsLock!(d)'
    <3>1. doing'[d] = doing[d] /\ unit'[d] = unit[d] /\ wants'[d] = wants[d] /\ held' = held
      BY <1>1, <1>2, <2>1 DEF Same
    <3>2. /\ (IsCall(d)' <=> IsCall(d)) /\ World(d)' = World(d) /\ Op(d)' = Op(d)
          /\ \A l : Takes(d, l)' <=> Takes(d, l)
      BY <3>1 DEF IsCall, Child, World, Op, Takes
    <3> QED
      BY <3>1, <3>2 DEF StoreInv, UnitsLock
  <2>2. UnitsLock!(c)'
    <3>1. /\ doing'[c] = "locking" /\ wants'[c] = LocksOf(q) /\ held' = held
          /\ World(c)' = q.world
      BY <1>1, <1>2 DEF World
    <3>2. \A l \in Worlds : held'[l] # c
      BY <1>1 DEF StoreInv, UnitsLock, Locks
    <3>3. IsCall(c)'
      <4>1. q.op \in Beginnings => parent = None /\ graph = q.graph
        BY <1>1 DEF Beginnings
      <4>2. /\ q.op \in {"publish", "withdraw"} => parent # None
            /\ q.op = "publish" => parent.world = q.world
        <5>1. /\ q.op \in {"publish", "withdraw"} => parent # None
              /\ q.op = "publish" => parent = reviews[q.id]
          BY <1>1
        <5> QED
          BY <1>1, <5>1, MemoryAssumption DEF StoreInv, OwnWorld
      <4> QED
        BY <1>1, <1>2, <4>1, <4>2 DEF IsCall, Child, GraphRevision
    <3> QED
      <4>1. Op(c)' = q.op
        BY <1>2 DEF Op
      <4>2. Takes(c, q.world)' /\ (q.op = "withdraw" => Takes(c, "withdrawals")')
        BY <1>1, <3>1, LocksOfUnit DEF Takes
      <4>3. \A i \in 1..Len(wants'[c]) : wants'[c][i] \in Worlds => wants'[c][i] = q.world
        BY <1>1, <3>1, LocksOfUnit
      <4> QED
        BY <3>1, <3>2, <3>3, <4>1, <4>2, <4>3
  <2> QED
    BY <2>1, <2>2 DEF UnitsLock
<1>6. \A v \in Worlds : WorldOK(v)'
  <2>1. doing[c] \notin Writing /\ doing'[c] \notin Writing
    BY <1>1, <1>2 DEF Writing
  <2>2. UNCHANGED store /\ \A l \in Worlds : held'[l] = held[l]
    BY <1>1
  <2>3. \A d \in Threads : d # c => Same(d)
    BY <1>2
  <2> QED
    BY <2>1, <2>2, <2>3, LockingWorlds
<1> QED
  BY <1>3, <1>4, <1>5, <1>6 DEF StoreInv

LEMMA TakeKeeps ==
    ASSUME StoreInv, NEW c \in Threads, Take(c)
    PROVE  StoreInv'
<1>1. doing[c] = "locking"
  BY DEF Take, StoreInv, UnitsLock
<1>2. wants[c] \in Seq(Locks) /\ wants[c] # <<>>
  BY DEF StoreInv, StoreTypes, Take
<1> DEFINE first == wants[c][1]
<1>3. /\ first \in Locks /\ held[first] = None
      /\ held' = [held EXCEPT ![first] = c] /\ Len(wants[c]) \in Nat /\ Len(wants[c]) >= 1
  BY <1>2 DEF Take
<1>4. /\ wants'[c] = Tail(wants[c]) /\ unit' = unit /\ undo' = undo
      /\ doing'[c] = IF Len(wants[c]) = 1 THEN "deciding" ELSE "locking"
      /\ \A d \in Threads : d # c => Same(d) /\ wants'[d] = wants[d]
  BY <1>1 DEF Take, StoreInv, StoreTypes, Same
<1>5. /\ Tail(wants[c]) \in Seq(Locks) /\ Len(Tail(wants[c])) = Len(wants[c]) - 1
      /\ \A i \in 1..(Len(wants[c]) - 1) : Tail(wants[c])[i] = wants[c][i + 1]
  BY <1>2, <1>3
<1>6. StoreTypes'
  BY <1>3, <1>4, <1>5 DEF Take, StoreInv, StoreTypes, UnitStages, store
<1>7. OwnWorld'
  BY DEF StoreInv, OwnWorld, store, Take
<1>8. UnitsLock'
  <2>0. \A d \in Threads : (IsCall(d)' <=> IsCall(d)) /\ World(d)' = World(d) /\ Op(d)' = Op(d)
    BY <1>4 DEF IsCall, Child, World, Op
  <2>1. ASSUME NEW d \in Threads, d # c PROVE UnitsLock!(d)'
    <3>1. doing'[d] = doing[d] /\ wants'[d] = wants[d]
      BY <1>4, <2>1 DEF Same
    <3>2. \A l \in Locks : held'[l] = d <=> held[l] = d
      BY <1>3, <2>1, MemoryAssumption DEF StoreInv, StoreTypes
    <3>3. IsCall(d) => World(d) \in Locks
      BY MemoryAssumption DEF IsCall, World, Locks
    <3>4. \A l \in Locks : Takes(d, l)' <=> Takes(d, l)
      BY <3>1, <3>2 DEF Takes
    <3> QED
      BY <2>0, <3>1, <3>2, <3>3, <3>4 DEF StoreInv, UnitsLock, Locks
  <2>2. UnitsLock!(c)'
    <3>1. /\ IsCall(c) /\ World(c) \in Locks
          /\ \A l \in Worlds : held[l] = c => l = World(c)
          /\ \A i \in 1..Len(wants[c]) : wants[c][i] \in Worlds => wants[c][i] = World(c)
          /\ Takes(c, World(c)) /\ "withdrawals" \in Locks
          /\ Op(c) = "withdraw" => Takes(c, "withdrawals")
      BY <1>1, MemoryAssumption DEF StoreInv, UnitsLock, IsCall, World, Locks
    <3>2. \A l \in Locks : held'[l] = c <=> held[l] = c \/ l = first
      BY <1>3 DEF StoreInv, StoreTypes
    <3>3. doing'[c] # "idle" /\ (doing'[c] # "locking" => wants'[c] = <<>>)
      <4>1. Len(wants[c]) = 1 => Tail(wants[c]) = <<>>
        <5>1. \A t \in Seq(Locks) : Len(t) = 0 => t = <<>>
          BY EmptySeq
        <5>2. PICK t : t = Tail(wants[c])
          OBVIOUS
        <5>3. t \in Seq(Locks) /\ Len(t) = Len(wants[c]) - 1
          BY <1>5, <5>2
        <5> QED
          BY <5>1, <5>2, <5>3
      <4> QED
        BY <1>4, <4>1
    <3>4. \A l \in Worlds : held'[l] = c => l = World(c)
      BY <1>3, <3>1, <3>2 DEF Locks
    <3>5. \A i \in 1..Len(wants'[c]) : wants'[c][i] \in Worlds => wants'[c][i] = World(c)
      BY <1>3, <1>4, <1>5, <3>1
    <3>6. ASSUME NEW l \in Locks, Takes(c, l) PROVE Takes(c, l)'
      <4>1. CASE held[l] = c \/ first = l
        BY <3>2, <4>1 DEF Takes
      <4>2. CASE ~(held[l] = c \/ first = l)
        <5>1. PICK i \in 1..Len(wants[c]) : wants[c][i] = l
          BY <3>6, <4>2 DEF Takes
        <5>2. i # 1 /\ i - 1 \in 1..(Len(wants[c]) - 1) /\ (i - 1) + 1 = i
          BY <1>3, <4>2, <5>1
        <5>3. wants'[c][i - 1] = l
          BY <1>4, <1>5, <5>1, <5>2
        <5> QED
          BY <1>4, <1>5, <5>2, <5>3 DEF Takes
      <4> QED
        BY <4>1, <4>2
    <3> QED
      BY <2>0, <3>1, <3>3, <3>4, <3>5, <3>6
  <2> QED
    BY <2>1, <2>2 DEF UnitsLock
<1>9. \A v \in Worlds : WorldOK(v)'
  <2>1. doing[c] \notin Writing /\ doing'[c] \notin Writing
    BY <1>1, <1>4 DEF Writing
  <2>2. \A l \in Worlds : held'[l] = held[l] \/ (held[l] = None /\ held'[l] = c)
    <3>1. \A l \in Locks : held'[l] = IF l = first THEN c ELSE held[l]
      BY <1>3 DEF StoreInv, StoreTypes
    <3>2. Worlds \subseteq Locks
      BY DEF Locks
    <3> QED
      BY <1>3, <3>1, <3>2
  <2> QED
    BY <1>4, <2>1, <2>2, LockingWorlds DEF Take
<1> QED
  BY <1>6, <1>7, <1>8, <1>9 DEF StoreInv
-----------------------------------------------------------------------------
(* What a unit past its locks may rely on, and what is left to show of its *)
(* step: its own world and the tables' shape.                              *)
LEMMA Deciding ==
    ASSUME StoreInv, NEW c \in Threads, doing[c] = "deciding", NEW w, w = World(c)
    PROVE  /\ w \in Worlds /\ Numbered(w) /\ Filled(w) /\ IsCall(c) /\ Active(c)
           /\ Sound(w, heads[w], Revs(w), AllRecs(w), Gone(w))
<1>1. Active(c) /\ doing[c] \notin Writing
  BY DEF Active, Writing
<1>2. w \in Worlds /\ held[w] = c /\ IsCall(c)
  BY <1>1, ActiveHolds DEF StoreInv
<1>3. Quiet(w)
  BY <1>1, <1>2 DEF Quiet
<1> QED
  BY <1>1, <1>2, <1>3 DEF StoreInv, WorldOK

LEMMA InTheMiddle ==
    ASSUME StoreInv, NEW c \in Threads, doing[c] \in Writing, NEW w, w = World(c)
    PROVE  /\ w \in Worlds /\ Numbered(w) /\ IsCall(c) /\ Active(c)
           /\ Op(c) \in Beginnings => BeginningOK(c)
           /\ Op(c) = "repair" => RepairOK(c)
           /\ Op(c) = "publish" => PublicationOK(c)
           /\ Op(c) = "withdraw" => WithdrawalOK(c)
<1>1. Active(c)
  BY DEF Active
<1>2. w \in Worlds /\ held[w] = c /\ IsCall(c)
  BY <1>1, ActiveHolds DEF StoreInv
<1>3. Numbered(w) /\
      CASE Op(c) \in Beginnings -> BeginningOK(c)
        [] Op(c) = "repair" -> RepairOK(c)
        [] Op(c) = "publish" -> PublicationOK(c)
        [] Op(c) = "withdraw" -> WithdrawalOK(c)
  BY <1>2 DEF StoreInv, WorldOK
<1> QED
  BY <1>1, <1>2, <1>3 DEF Beginnings

LEMMA StepKeeps ==
    ASSUME StoreInv, NEW c \in Threads, Active(c), Leaves(c) \/ Moves(c), NEW w, w = World(c),
           \A v \in Worlds : v # w => Kept(v), WorldOK(w)',
           DOMAIN heads' = Worlds, DOMAIN receipts' = Beginnings \X (Worlds \cup Ids),
           DOMAIN records' = Indexes, reviews' = reviews, heads'[w] # None => heads'[w].world = w
    PROVE  StoreInv'
<1>1. w \in Worlds
  BY ActiveHolds DEF StoreInv
<1>2. ASSUME NEW v \in Worlds PROVE WorldOK(v)'
  BY OtherWorlds
<1>3. OwnWorld'
  BY <1>1 DEF OwnWorld, StoreInv, Kept, KeptBut
<1> QED
  BY <1>2, <1>3, UnitKeepsLocks DEF StoreInv, StoreTypes

-----------------------------------------------------------------------------
(* Refusals and first decisions.                                           *)
LEMMA NoWrite ==
    ASSUME UNCHANGED store
    PROVE  /\ \A v \in Worlds : Kept(v)
           /\ \A v : /\ SameGraph(v) /\ Gone(v)' = Gone(v) /\ AllRecs(v)' = AllRecs(v)
                     /\ Rows(v)' = Rows(v) /\ (Numbered(v)' <=> Numbered(v))
                     /\ (Filled(v)' <=> Filled(v)) /\ heads' = heads
                     /\ \A i \in Indexes : Recs(i, v)' = Recs(i, v)
                     /\ Sound(v, heads[v], Revs(v), AllRecs(v), Gone(v))' <=>
                        Sound(v, heads[v], Revs(v), AllRecs(v), Gone(v))
<1>1. /\ rows' = rows /\ graphs' = graphs /\ heads' = heads /\ records' = records
      /\ receipts' = receipts /\ withdrawals' = withdrawals /\ lost' = lost
  BY DEF store
<1>2. \A v : /\ SameGraph(v) /\ Gone(v)' = Gone(v) /\ AllRecs(v)' = AllRecs(v)
             /\ Rows(v)' = Rows(v) /\ \A i \in Indexes : Recs(i, v)' = Recs(i, v)
  BY <1>1 DEF SameGraph, Stored, Lost, Revs, Recs, Gone, Rows, AllRecs
<1>3. \A v \in Worlds : Kept(v)
  BY <1>1, <1>2 DEF Kept, KeptBut
<1>4. \A v : (Numbered(v)' <=> Numbered(v)) /\ (Filled(v)' <=> Filled(v))
  BY <1>1, <1>2 DEF Numbered, Filled
<1>5. \A v : Sound(v, heads[v], Revs(v), AllRecs(v), Gone(v))' <=>
             Sound(v, heads[v], Revs(v), AllRecs(v), Gone(v))
  BY <1>1, <1>2 DEF Sound, SameGraph
<1> QED
  BY <1>1, <1>2, <1>3, <1>4, <1>5

LEMMA RefuseKeeps ==
    ASSUME StoreInv, NEW c \in Threads, doing[c] = "deciding", RefuseUnit(c)
    PROVE  StoreInv'
<1>1. PICK w : w = World(c)
  OBVIOUS
<1>2. Leaves(c) /\ UNCHANGED store
  BY DEF RefuseUnit, Leave, Leaves
<1>3. /\ w \in Worlds /\ Numbered(w) /\ Filled(w) /\ Active(c)
      /\ Sound(w, heads[w], Revs(w), AllRecs(w), Gone(w))
  BY <1>1, Deciding
<1>4. /\ Numbered(w)' /\ Filled(w)'
      /\ Sound(w, heads[w], Revs(w), AllRecs(w), Gone(w))'
  BY <1>2, <1>3, NoWrite
<1>5. WorldOK(w)'
  BY <1>1, <1>2, <1>3, <1>4, LeftWhole
<1>6. \A v \in Worlds : Kept(v)
  BY <1>2, NoWrite
<1> QED
  BY <1>1, <1>2, <1>3, <1>5, <1>6, StepKeeps DEF store, StoreInv, StoreTypes, OwnWorld

(* The first write is next: what is left to show is that the unit starts   *)
(* from a sound world.                                                     *)
LEMMA ProceedKeeps ==
    ASSUME StoreInv, NEW c \in Threads, doing[c] = "deciding",
           NEW stage \in Writing, NEW saved, Proceed(c, stage, saved),
           \/ Op(c) \in Beginnings /\ BeginningOK(c)'
           \/ Op(c) = "repair" /\ RepairOK(c)'
           \/ Op(c) = "publish" /\ PublicationOK(c)'
           \/ Op(c) = "withdraw" /\ WithdrawalOK(c)'
    PROVE  StoreInv'
<1>1. PICK w : w = World(c)
  OBVIOUS
<1>2. Moves(c) /\ UNCHANGED store
  BY DEF Proceed, Moves
<1>3. w \in Worlds /\ Numbered(w) /\ Active(c)
  BY <1>1, Deciding
<1>4. Numbered(w)'
  BY <1>2, <1>3, NoWrite
<1>5. WorldOK(w)'
  BY <1>1, <1>2, <1>3, <1>4, LeftWriting
<1>6. \A v \in Worlds : Kept(v)
  BY <1>2, NoWrite
<1> QED
  BY <1>1, <1>2, <1>3, <1>5, <1>6, StepKeeps DEF store, StoreInv, StoreTypes, OwnWorld

LEMMA ProceedSets ==
    ASSUME StoreInv, NEW c \in Threads, NEW stage, NEW saved, Proceed(c, stage, saved)
    PROVE  /\ doing'[c] = stage /\ undo'[c] = saved /\ UNCHANGED store /\ unit' = unit
           /\ World(c)' = World(c) /\ Child(c)' = Child(c) /\ Op(c)' = Op(c)
           /\ RecordOf(c)' = RecordOf(c)
BY DEF Proceed, StoreInv, StoreTypes, World, Child, Op, RecordOf

LEMMA BeginKeeps ==
    ASSUME StoreInv, NEW c \in Threads, doing[c] = "deciding", Op(c) \in Beginnings, NEW saved,
           heads[World(c)] = None, \A r \in graphs : r.world # World(c),
           \A k \in Beginnings : receipts[<<k, World(c)>>] = None,
           saved.head = None, saved.revisions = {}, saved.receipt = None,
           Proceed(c, "sources", saved)
    PROVE  StoreInv'
<1>1. PICK w : w = World(c)
  OBVIOUS
<1>2. Sound(w, heads[w], Revs(w), AllRecs(w), Gone(w)) /\ w \in Worlds
  BY <1>1, Deciding
<1>3. Stored(w) = {} /\ Revs(w) = Lost(w)
  BY <1>1 DEF Stored, Revs
<1>4. Headless(w)
  BY <1>2, <1>3 DEF Sound, AllRecs, Headless
<1>5. /\ SameGraph(w) /\ Gone(w)' = Gone(w) /\ \A i \in Indexes : Recs(i, w)' = Recs(i, w)
      /\ heads' = heads /\ receipts' = receipts
  BY <1>2, ProceedSets, NoWrite DEF store
<1>6. BeginningOK(c)'
  <2>1. Headless(w)' /\ Stored(w)' = {}
    BY <1>3, <1>4, <1>5 DEF SameGraph, Headless
  <2> QED
    BY <1>1, <1>5, <2>1, ProceedSets DEF BeginningOK
<1> QED
  BY <1>6, ProceedKeeps DEF Writing

LEMMA DecideAdoptionKeeps ==
    ASSUME StoreInv, NEW c \in Threads, DecideAdoption(c)
    PROVE  StoreInv'
<1>1. doing[c] = "deciding" /\ Op(c) = "adoption" /\ Op(c) \in Beginnings
  BY DEF DecideAdoption, Op, Beginnings
<1>2. CASE RefuseUnit(c)
  BY <1>1, <1>2, RefuseKeeps
<1>3. CASE /\ receipts[<<"adoption", World(c)>>] = None /\ PristineForAdoption(World(c))
           /\ Proceed(c, "sources", SnapshotForAdoption(World(c)))
  <2>1. PICK saved : saved = SnapshotForAdoption(World(c))
    OBVIOUS
  <2>2. /\ heads[World(c)] = None /\ \A r \in graphs : r.world # World(c)
        /\ \A k \in Beginnings : receipts[<<k, World(c)>>] = None
    BY <1>3 DEF PristineForAdoption, Unused, Beginnings
  <2>3. saved.head = None /\ saved.revisions = {} /\ saved.receipt = None
    BY <1>3, <2>1, <2>2 DEF SnapshotForAdoption
  <2> QED
    BY <1>1, <1>3, <2>1, <2>2, <2>3, BeginKeeps
<1> QED
  BY <1>2, <1>3 DEF DecideAdoption, World

LEMMA DecideInitializationKeeps ==
    ASSUME StoreInv, NEW c \in Threads, DecideInitialization(c)
    PROVE  StoreInv'
<1>1. doing[c] = "deciding" /\ Op(c) = "initialization" /\ Op(c) \in Beginnings
  BY DEF DecideInitialization, Op, Beginnings
<1>2. CASE RefuseUnit(c)
  BY <1>1, <1>2, RefuseKeeps
<1>3. CASE /\ PristineForInitialization(World(c))
           /\ Proceed(c, "sources", SnapshotForInitialization(World(c)))
  <2>1. PICK saved : saved = SnapshotForInitialization(World(c))
    OBVIOUS
  <2>2. /\ heads[World(c)] = None /\ \A r \in graphs : r.world # World(c)
        /\ \A k \in Beginnings : receipts[<<k, World(c)>>] = None
    BY <1>3 DEF PristineForInitialization, Unused, Beginnings
  <2>3. saved.head = None /\ saved.revisions = {} /\ saved.receipt = None
    BY <1>3, <2>1, <2>2 DEF SnapshotForInitialization, Beginnings
  <2> QED
    BY <1>1, <1>3, <2>1, <2>2, <2>3, BeginKeeps
<1> QED
  BY <1>2, <1>3 DEF DecideInitialization, World

LEMMA DecideRepairKeeps ==
    ASSUME StoreInv, NEW c \in Threads, DecideRepair(c)
    PROVE  StoreInv'
<1>1. doing[c] = "deciding" /\ Op(c) = "repair"
  BY DEF DecideRepair, Op
<1>2. CASE RefuseUnit(c)
  BY <1>1, <1>2, RefuseKeeps
<1>3. CASE /\ receipts[<<"adoption", World(c)>>] # None
           /\ Proceed(c, "sources", SnapshotForAdoption(World(c)))
  <2>1. PICK saved, w : saved = SnapshotForAdoption(World(c)) /\ w = World(c)
    OBVIOUS
  <2>2. /\ w \in Worlds /\ Numbered(w) /\ Filled(w)
        /\ Sound(w, heads[w], Revs(w), AllRecs(w), Gone(w))
    BY <1>1, <2>1, Deciding
  <2>3. PICK s : s = receipts[<<"adoption", w>>]
    OBVIOUS
  <2>4. s # None /\ IsReceipt(s, "adoption", w) /\ Effective(s) \subseteq Rows(w)
    BY <1>3, <2>1, <2>2, <2>3 DEF Numbered, Filled, Beginnings
  <2>5. \A x \in Effective(s) : x.family \in Sources \cup History /\ x.world = w /\ x \in rows
    BY <2>4 DEF IsReceipt, IsRow, Effective, Repaired, Rows
  <2>6. /\ saved.receipt = s /\ saved.head = heads[w] /\ saved.revisions = Stored(w)
        /\ saved.rows = RowsOf(w, Sources \cup History)
    BY <2>1, <2>3 DEF SnapshotForAdoption, SameGraph, Stored, Lost, Revs
  <2>7. Effective(s) \subseteq {x \in saved.rows : x.world = w}
    BY <2>5, <2>6 DEF RowsOf
  <2>8. RepairOK(c)'
    <3>1. Proceed(c, "sources", saved)
      BY <1>3, <2>1
    <3>2. /\ doing'[c] = "sources" /\ undo'[c] = saved /\ heads' = heads /\ SameGraph(w)
          /\ receipts' = receipts /\ World(c)' = w /\ UNCHANGED store
      BY <2>1, <3>1, ProceedSets, NoWrite DEF store
    <3>3. Sound(w, heads[w], Revs(w), AllRecs(w), Gone(w))'
      BY <2>2, <3>2, NoWrite
    <3> QED
      BY <2>3, <2>4, <2>6, <2>7, <3>2, <3>3 DEF RepairOK, SameGraph, Revs
  <2> QED
    BY <1>1, <1>3, <2>1, <2>8, ProceedKeeps DEF Writing
<1> QED
  BY <1>2, <1>3 DEF DecideRepair, World

-----------------------------------------------------------------------------
(* Deciding on a publication and on a withdrawal.                          *)
LEMMA ChildOfCall ==
    ASSUME NEW c, IsCall(c)
    PROVE  /\ Child(c).world = World(c) /\ RecordOf(c).revision = Child(c)
           /\ RecordOf(c).review = unit[c].request.id
BY DEF IsCall, Child, World, RecordOf, GraphRevision

LEMMA AdoptChildKeeps ==
    ASSUME StoreInv, NEW c \in Threads, doing[c] = "deciding", Child(c) \in graphs,
           records' = [i \in Indexes |-> records[i] \cup {RecordOf(c)}], Leave(c),
           UNCHANGED <<rows, graphs, heads, reviews, receipts, withdrawals, lost, failures>>
    PROVE  StoreInv'
<1>1. PICK w, child, mine : w = World(c) /\ child = Child(c) /\ mine = RecordOf(c)
  OBVIOUS
<1>2. /\ w \in Worlds /\ Numbered(w) /\ Filled(w) /\ Active(c) /\ IsCall(c)
      /\ Sound(w, heads[w], Revs(w), AllRecs(w), Gone(w))
  BY <1>1, Deciding
<1>3. child.world = w /\ mine.revision = child /\ child \in Revs(w)
  BY <1>1, <1>2, ChildOfCall DEF SameGraph, Stored, Lost, Revs
<1>4. /\ heads' = heads /\ receipts' = receipts
      /\ \A v : SameGraph(v) /\ Gone(v)' = Gone(v) /\ Rows(v)' = Rows(v)
  BY DEF SameGraph, Stored, Lost, Revs, Gone, Rows
<1>5. \A i \in Indexes : /\ Recs(i, w)' = Recs(i, w) \cup {mine}
                         /\ \A v : v # w => Recs(i, v)' = Recs(i, v)
  BY <1>1, <1>3 DEF Recs
<1>6. Sound(w, heads[w], Revs(w), AllRecs(w), Gone(w))'
  <2>1. AllRecs(w)' = [i \in Indexes |-> Recs(i, w) \cup {mine}]
    BY <1>5 DEF AllRecs
  <2> QED
    BY <1>2, <1>3, <1>4, <2>1 DEF Sound, AllRecs, SameGraph
<1>7. Numbered(w)' /\ Filled(w)'
  BY <1>2, <1>4 DEF Numbered, Filled
<1>8. Leaves(c)
  BY DEF Leave, Leaves
<1>9. WorldOK(w)'
  BY <1>1, <1>2, <1>6, <1>7, <1>8, LeftWhole
<1>10. \A v \in Worlds : v # w => Kept(v)
  BY <1>4, <1>5 DEF Kept, KeptBut
<1> QED
  BY <1>1, <1>2, <1>4, <1>8, <1>9, <1>10, StepKeeps DEF StoreInv, StoreTypes, OwnWorld

LEMMA DecidePublicationKeeps ==
    ASSUME StoreInv, NEW c \in Threads, DecidePublication(c)
    PROVE  StoreInv'
<1>1. doing[c] = "deciding" /\ Op(c) = "publish"
  BY DEF DecidePublication, Op
<1>2. CASE RefuseUnit(c)
  BY <1>1, <1>2, RefuseKeeps
<1>3. CASE /\ Child(c) \in graphs
           /\ records' = [i \in Indexes |-> records[i] \cup {RecordOf(c)}]
           /\ Leave(c)
           /\ UNCHANGED <<rows, graphs, heads, reviews, receipts, withdrawals, lost, failures>>
  BY <1>1, <1>3, AdoptChildKeeps
<1>4. CASE /\ Child(c).parent \in graphs /\ Child(c) \notin graphs
           /\ {p \in UNION {records[i] : i \in Indexes} : p.review = unit[c].request.id} = {}
           /\ Proceed(c, "graph", [head |-> heads[Child(c).world], records |-> records])
  <2>1. PICK w, child, mine, saved :
          /\ w = World(c) /\ child = Child(c) /\ mine = RecordOf(c)
          /\ saved = [head |-> heads[child.world], records |-> records]
    OBVIOUS
  <2>2. /\ w \in Worlds /\ Numbered(w) /\ Filled(w) /\ IsCall(c)
        /\ Sound(w, heads[w], Revs(w), AllRecs(w), Gone(w))
    BY <1>1, <2>1, Deciding
  <2>3. child.world = w /\ mine.revision = child /\ mine.review = unit[c].request.id
    BY <2>1, <2>2, ChildOfCall
  <2>4. saved.head = heads[w] /\ saved.records = records
    BY <2>1, <2>3
  <2>5. child.parent.world = w
    BY <1>1, <2>1, <2>2 DEF IsCall, Op, World
  <2>6. child \notin Stored(w) /\ child.parent \in Revs(w) /\ Before(c) = Revs(w)
    BY <1>4, <2>1, <2>5 DEF Before, Stored, Revs
  <2>7. \A i \in Indexes : mine \notin records[i]
    BY <1>4, <2>3
  <2>8. Sound(w, heads[w], Revs(w), [i \in Indexes |-> Recs(i, w) \ {mine}], Gone(w))
    <3>2. [i \in Indexes |-> Recs(i, w) \ {mine}] = AllRecs(w)
      BY <2>7 DEF AllRecs, Recs
    <3> QED
      BY <2>2, <3>2
  <2>9. Proceed(c, "graph", saved)
    BY <1>4, <2>1
  <2>10. /\ doing'[c] = "graph" /\ undo'[c] = saved /\ heads' = heads /\ receipts' = receipts
         /\ records' = records /\ SameGraph(w) /\ Gone(w)' = Gone(w)
         /\ \A i \in Indexes : Recs(i, w)' = Recs(i, w)
         /\ World(c)' = w /\ Child(c)' = child /\ RecordOf(c)' = mine /\ Filled(w)'
    BY <2>1, <2>2, <2>9, ProceedSets, NoWrite DEF store
  <2>11. Sound(w, undo[c].head, Before(c), [i \in Indexes |-> Recs(i, w) \ {mine}], Gone(w))'
    <3>1. Before(c)' = Revs(w) /\ undo'[c].head = heads[w]
      BY <2>1, <2>4, <2>6, <2>10 DEF Before, SameGraph
    <3>2. [i \in Indexes |-> Recs(i, w)' \ {mine}] = [i \in Indexes |-> Recs(i, w) \ {mine}]
      BY <2>10
    <3> QED
      BY <2>8, <2>10, <3>1, <3>2 DEF Sound
  <2>12. PublicationOK(c)'
    <3>1. Before(c)' = Revs(w) /\ Stored(w)' = Stored(w)
      BY <2>1, <2>6, <2>10 DEF Before, SameGraph
    <3> QED
      BY <2>4, <2>6, <2>7, <2>10, <2>11, <3>1 DEF PublicationOK, StoreInv, StoreTypes, Recs
  <2> QED
    BY <1>1, <2>9, <2>12, ProceedKeeps DEF Writing
<1> QED
  BY <1>2, <1>3, <1>4 DEF DecidePublication, Child

LEMMA DecideWithdrawalKeeps ==
    ASSUME StoreInv, NEW c \in Threads, DecideWithdrawal(c)
    PROVE  StoreInv'
<1>1. doing[c] = "deciding" /\ Op(c) = "withdraw"
  BY DEF DecideWithdrawal, Op
<1>2. CASE RefuseUnit(c)
  BY <1>1, <1>2, RefuseKeeps
<1>3. CASE /\ \A x \in withdrawals : x.id # unit[c].request.id
           /\ heads[World(c)] = Child(c).parent /\ heads[World(c)] \in graphs
           /\ Proceed(c, "graph", [head |-> heads[World(c)], revisions |-> graphs])
  <2>1. PICK w, child, saved :
          /\ w = World(c) /\ child = Child(c)
          /\ saved = [head |-> heads[w], revisions |-> graphs]
    OBVIOUS
  <2>2. /\ w \in Worlds /\ Numbered(w) /\ Filled(w) /\ IsCall(c)
        /\ Sound(w, heads[w], Revs(w), AllRecs(w), Gone(w))
    BY <1>1, <2>1, Deciding
  <2>3. saved.head = heads[w] /\ saved.revisions = graphs
    BY <2>1
  <2>4. {r \in graphs : r.world = w} = Stored(w) /\ Revs(w) = Stored(w) \cup Lost(w)
    BY DEF Stored, Revs
  <2>5. heads[w] # None => heads[w] \in Revs(w)
    BY <2>2 DEF Sound
  <2>6. child.parent \in Revs(w)
    <3>1. CASE heads[w] = None
      BY <1>1, <1>3, <2>1, <2>2, <3>1 DEF IsCall, Op
    <3>2. CASE heads[w] # None
      BY <1>3, <2>1, <2>5, <3>2
    <3> QED
      BY <3>1, <3>2
  <2>7. {x \in Gone(w) : x.id # unit[c].request.id} = Gone(w)
    BY <1>3 DEF Gone
  <2>8. Proceed(c, "graph", saved)
    BY <1>3, <2>1
  <2>9. /\ doing'[c] = "graph" /\ undo'[c] = saved /\ heads' = heads /\ receipts' = receipts
        /\ graphs' = graphs /\ SameGraph(w) /\ Gone(w)' = Gone(w)
        /\ AllRecs(w)' = AllRecs(w) /\ unit' = unit
        /\ World(c)' = w /\ Child(c)' = child /\ Filled(w)'
        /\ Sound(w, heads[w], Revs(w), AllRecs(w), Gone(w))'
    BY <2>1, <2>2, <2>8, ProceedSets, NoWrite DEF store
  <2>10. WithdrawalOK(c)'
    <3>1. Saved(c)' = Stored(w) /\ Stored(w)' = Stored(w) /\ Lost(w)' = Lost(w)
      BY <2>3, <2>4, <2>9 DEF Saved, SameGraph
    <3>2. Sound(w, heads[w], Revs(w), AllRecs(w), {x \in Gone(w) : x.id # unit[c].request.id})'
      BY <2>7, <2>9
    <3>3. undo'[c].head = heads[w] /\ Revs(w)' = Stored(w) \cup Lost(w)
      BY <2>3, <2>4, <2>9 DEF SameGraph
    <3> QED
      BY <1>3, <2>3, <2>4, <2>6, <2>7, <2>9, <3>1, <3>2, <3>3 DEF WithdrawalOK, Gone, Sound
  <2> QED
    BY <1>1, <2>8, <2>10, ProceedKeeps DEF Writing
<1> QED
  BY <1>2, <1>3 DEF DecideWithdrawal, Child, World

-----------------------------------------------------------------------------
(* The writes of an adoption, of an initialization and of a repair.        *)
LEMMA ToSets ==
    ASSUME StoreInv, NEW c \in Threads, NEW stage \in Writing, To(c, stage)
    PROVE  /\ doing'[c] = stage /\ undo' = undo /\ unit' = unit /\ Moves(c)
           /\ World(c)' = World(c) /\ Child(c)' = Child(c) /\ Op(c)' = Op(c)
           /\ RecordOf(c)' = RecordOf(c)
BY DEF To, StoreInv, StoreTypes, World, Child, Op, RecordOf, Moves

LEMMA ToKeeps ==
    ASSUME StoreInv, NEW c \in Threads, doing[c] \in Writing, NEW stage \in Writing, To(c, stage),
           NEW w, w = World(c), \A v \in Worlds : v # w => Kept(v), Numbered(w)',
           \/ Op(c) \in Beginnings /\ BeginningOK(c)'
           \/ Op(c) = "repair" /\ RepairOK(c)'
           \/ Op(c) = "publish" /\ PublicationOK(c)'
           \/ Op(c) = "withdraw" /\ WithdrawalOK(c)',
           DOMAIN heads' = Worlds, DOMAIN receipts' = Beginnings \X (Worlds \cup Ids),
           DOMAIN records' = Indexes, reviews' = reviews, heads'[w] # None => heads'[w].world = w
    PROVE  StoreInv'
<1>1. Moves(c) /\ Active(c)
  BY ToSets DEF Active
<1>2. WorldOK(w)'
  BY <1>1, LeftWriting
<1> QED
  BY <1>1, <1>2, StepKeeps

LEMMA AddedRows ==
    ASSUME NEW new, rows' = rows \cup new,
           UNCHANGED <<graphs, heads, records, receipts, withdrawals, lost>>
    PROVE  \A v : /\ SameGraph(v) /\ Gone(v)' = Gone(v)
                  /\ \A i \in Indexes : Recs(i, v)' = Recs(i, v)
                  /\ Rows(v)' = Rows(v) \cup {x \in new : x.world = v}
                  /\ Kept(v) /\ (Numbered(v) => Numbered(v)')
BY DEF SameGraph, Stored, Lost, Revs, Gone, Recs, Rows, Kept, KeptBut, Numbered

LEMMA WriteRowsKeeps ==
    ASSUME StoreInv, NEW c \in Threads, Op(c) \in Beginnings, NEW new, new \subseteq unit[c].request.rows,
           \/ doing[c] = "sources" /\ To(c, "history") /\ new = Written(unit[c].request, Sources)
           \/ doing[c] = "history" /\ To(c, "graph") /\ new = Written(unit[c].request, History),
           rows' = rows \cup new,
           UNCHANGED <<graphs, heads, reviews, records, receipts, withdrawals, lost>>
    PROVE  StoreInv'
<1>1. PICK w, q : w = World(c) /\ q = unit[c].request
  OBVIOUS
<1>2. PICK stage \in {"history", "graph"} :
        /\ To(c, stage) /\ doing[c] = IF stage = "history" THEN "sources" ELSE "history"
        /\ new = Written(q, IF stage = "history" THEN Sources ELSE History)
  BY <1>1
<1>3. doing[c] \in Writing /\ stage \in Writing
  BY <1>2 DEF Writing
<1>4. w \in Worlds /\ Numbered(w) /\ BeginningOK(c) /\ q \in Requests
  BY <1>1, <1>3, InTheMiddle DEF IsCall
<1>5. \A x \in q.rows : x.family \in Sources \cup History /\ x.world = w
  <2>1. \A x \in q.rows : IsRow(x, q.world)
    BY <1>1, <1>4, MemoryAssumption DEF Op
  <2>2. q.world = w
    BY <1>1 DEF World
  <2> QED
    BY <2>1, <2>2 DEF IsRow
<1>6. new \subseteq Rows(w)'
  BY <1>1, <1>5, AddedRows
<1>7. /\ SameGraph(w) /\ Gone(w)' = Gone(w) /\ \A i \in Indexes : Recs(i, w)' = Recs(i, w)
      /\ Rows(w) \subseteq Rows(w)' /\ Numbered(w)' /\ \A v \in Worlds : Kept(v)
  <2>1. \A v : /\ SameGraph(v) /\ Gone(v)' = Gone(v) /\ Kept(v)
               /\ \A i \in Indexes : Recs(i, v)' = Recs(i, v)
               /\ Rows(v) \subseteq Rows(v)' /\ (Numbered(v) => Numbered(v)')
    BY AddedRows
  <2> QED
    BY <1>4, <2>1
<1>8. /\ doing'[c] = stage /\ undo' = undo /\ unit'[c].request = q /\ World(c)' = w
      /\ Child(c)' = Child(c) /\ heads' = heads /\ receipts' = receipts
  BY <1>1, <1>2, <1>3, ToSets
<1>9. Written(q, Sources) \subseteq Rows(w)'
  BY <1>1, <1>2, <1>4, <1>6, <1>7 DEF BeginningOK
<1>10. stage = "graph" => q.rows \subseteq Rows(w)'
  <2>1. q.rows \subseteq Written(q, Sources) \cup Written(q, History)
    BY <1>5 DEF Written
  <2> QED
    BY <1>2, <1>6, <1>9, <2>1
<1>11. BeginningOK(c)'
  BY <1>1, <1>2, <1>4, <1>7, <1>8, <1>9, <1>10 DEF BeginningOK, Headless, SameGraph
<1> QED
  BY <1>1, <1>2, <1>3, <1>4, <1>7, <1>11, ToKeeps DEF StoreInv, StoreTypes, OwnWorld

LEMMA WriteSourcesKeeps ==
    ASSUME StoreInv, NEW c \in Threads, WriteSources(c)
    PROVE  StoreInv'
<1>1. PICK new : new = Written(unit[c].request, Sources)
  OBVIOUS
<1>2. new \subseteq unit[c].request.rows /\ Op(c) \in Beginnings /\ rows' = rows \cup new
  BY <1>1 DEF Written, WriteSources, Op
<1> QED
  BY <1>1, <1>2, WriteRowsKeeps DEF WriteSources

LEMMA WriteHistoryKeeps ==
    ASSUME StoreInv, NEW c \in Threads, WriteHistory(c)
    PROVE  StoreInv'
<1>1. PICK new : new = Written(unit[c].request, History)
  OBVIOUS
<1>2. new \subseteq unit[c].request.rows /\ rows' = rows \cup new
  BY <1>1 DEF Written, WriteHistory
<1>3. doing[c] = "history" /\ doing[c] \in Writing
  BY DEF WriteHistory, Writing
<1>4. Op(c) \in Beginnings
  <2>1. IsCall(c) /\ ~RepairOK(c) /\ ~PublicationOK(c) /\ ~WithdrawalOK(c)
    BY <1>3, InTheMiddle DEF RepairOK, PublicationOK, WithdrawalOK
  <2> QED
    BY <1>3, <2>1, InTheMiddle, MemoryAssumption DEF IsCall, Op
<1> QED
  BY <1>1, <1>2, <1>4, WriteRowsKeeps DEF WriteHistory

LEMMA PublishFirstKeeps ==
    ASSUME StoreInv, NEW c \in Threads, PublishFirst(c)
    PROVE  StoreInv'
<1>1. PICK w, child, q : w = World(c) /\ child = Child(c) /\ q = unit[c].request
  OBVIOUS
<1>2. /\ doing[c] = "graph" /\ doing[c] \in Writing /\ Op(c) \in Beginnings /\ Published(child)
      /\ To(c, "receipt") /\ UNCHANGED <<rows, reviews, records, receipts, withdrawals, lost>>
  BY <1>1 DEF PublishFirst, PublishChild, Writing, Op, Child
<1>3. w \in Worlds /\ Numbered(w) /\ BeginningOK(c) /\ IsCall(c)
  BY <1>1, <1>2, InTheMiddle
<1>4. child.world = w
  BY <1>1, <1>3, ChildOfCall
<1>5. /\ DOMAIN heads' = Worlds /\ \A v \in Worlds : v # w => Kept(v)
      /\ heads'[w] = child /\ Stored(w)' = Stored(w) \cup {child} /\ Lost(w)' = Lost(w)
      /\ Gone(w)' = Gone(w)
      /\ Rows(w)' = Rows(w) /\ \A i \in Indexes : Recs(i, w)' = Recs(i, w)
  BY <1>2, <1>3, <1>4, PublishedWorlds DEF StoreInv
<1>6. /\ doing'[c] = "receipt" /\ undo' = undo /\ unit' = unit /\ World(c)' = w /\ Child(c)' = child
      /\ receipts' = receipts
  BY <1>1, <1>2, ToSets DEF Writing
<1>7. BeginningOK(c)'
  BY <1>1, <1>2, <1>3, <1>5, <1>6 DEF BeginningOK, Headless
<1>8. Numbered(w)'
  BY <1>3, <1>6 DEF Numbered
<1> QED
  BY <1>1, <1>2, <1>3, <1>4, <1>5, <1>7, <1>8, ToKeeps DEF StoreInv, StoreTypes, Writing

(* Storing a receipt of a world over none, or over one of the same id.     *)
LEMMA ReceiptWorlds ==
    ASSUME StoreInv, NEW w \in Worlds, NEW kind \in Beginnings, NEW s, IsReceipt(s, kind, w),
           Stores(s.kind, s.world, s.id, s),
           UNCHANGED <<rows, graphs, heads, records, withdrawals, lost>>
    PROVE  /\ DOMAIN receipts' = Beginnings \X (Worlds \cup Ids)
           /\ receipts'[<<kind, w>>] = s /\ receipts'[<<kind, s.id>>] = s
           /\ \A k \in Beginnings : k # kind => receipts'[<<k, w>>] = receipts[<<k, w>>]
           /\ \A v \in Worlds : v # w => Kept(v)
           /\ \A v : /\ SameGraph(v) /\ Gone(v)' = Gone(v) /\ Rows(v)' = Rows(v)
                     /\ AllRecs(v)' = AllRecs(v) /\ \A i \in Indexes : Recs(i, v)' = Recs(i, v)
<1>1. <<kind, s.id, w>> \in Owners /\ s.kind = kind /\ s.world = w
  BY DEF IsReceipt
<1>2. PICK id : id = s.id
  OBVIOUS
<1>3. Stores(kind, w, id, s) /\ <<kind, id, w>> \in Owners
  BY <1>1, <1>2
<1>4. /\ DOMAIN receipts' = Beginnings \X (Worlds \cup Ids)
      /\ receipts'[<<kind, w>>] = s /\ receipts'[<<kind, id>>] = s
      /\ \A k \in Beginnings : k # kind => receipts'[<<k, w>>] = receipts[<<k, w>>]
  <2>1. StoreTypes
    BY DEF StoreInv
  <2> QED
    BY <1>3, <2>1, StoredReceipt
<1>5. \A v : /\ SameGraph(v) /\ Gone(v)' = Gone(v) /\ Rows(v)' = Rows(v)
             /\ AllRecs(v)' = AllRecs(v) /\ \A i \in Indexes : Recs(i, v)' = Recs(i, v)
  BY DEF SameGraph, Stored, Lost, Revs, Gone, Rows, AllRecs, Recs
<1>6. ASSUME NEW v \in Worlds, v # w PROVE Kept(v)
  <2>1. Numbered(v)
    BY DEF StoreInv, WorldOK
  <2>2. KeepsReceipts(v)
    BY <1>3, <1>6, <2>1, OtherReceipts DEF StoreInv, Stores
  <2> QED
    BY <1>5, <2>2 DEF Kept, KeptBut, KeepsReceipts
<1> QED
  BY <1>2, <1>4, <1>5, <1>6

LEMMA FirstReceiptKeeps ==
    ASSUME StoreInv, NEW c \in Threads, doing[c] = "receipt", NEW kind \in Beginnings, Op(c) = kind,
           NEW s, s = Receipt(kind, World(c), unit[c].request.id, unit[c].request.rows,
                              unit[c].request.graph),
           StoreReceipt(c, s)
    PROVE  StoreInv'
<1>1. PICK w, q : w = World(c) /\ q = unit[c].request
  OBVIOUS
<1>2. doing[c] \in Writing /\ Op(c) \in Beginnings
  BY DEF Writing
<1>3. w \in Worlds /\ Numbered(w) /\ BeginningOK(c) /\ IsCall(c) /\ q \in Requests
  BY <1>1, <1>2, InTheMiddle DEF IsCall
<1>4. /\ q.world = w /\ q.op = kind /\ \A x \in q.rows : IsRow(x, w)
      /\ s = Receipt(kind, w, q.id, q.rows, q.graph)
  BY <1>1, <1>3, MemoryAssumption DEF World, Op
<1>5. IsReceipt(s, kind, w) /\ s.id = q.id
  <2>1. <<q.op, q.id, q.world>> \in Owners /\ q \in Starting
    BY <1>3, <1>4 DEF Owners, Starting
  <2>2. q.id \in Ids /\ q.rows \in {o.rows : o \in Starting \cup Standing}
    BY <2>1 DEF Ids
  <2>3. GraphRevision(w, None, q.id, q.graph) \in
          {GraphRevision(o.world, None, o.id, o.graph) : o \in Starting} \cup {o.revision : o \in Standing}
    BY <1>4, <2>1
  <2>4. s \in Receipts
    BY <1>3, <1>4, <2>2, <2>3 DEF Receipts, Receipt
  <2> QED
    BY <1>4, <2>1, <2>4 DEF IsReceipt, Receipt, GraphRevision
<1>6. /\ Stores(s.kind, s.world, s.id, s)
      /\ To(c, "ending") /\ UNCHANGED <<rows, graphs, heads, reviews, records, withdrawals, lost>>
  BY DEF StoreReceipt, Stores
<1>7. /\ DOMAIN receipts' = Beginnings \X (Worlds \cup Ids)
      /\ receipts'[<<kind, w>>] = s /\ receipts'[<<kind, s.id>>] = s
      /\ \A k \in Beginnings : k # kind => receipts'[<<k, w>>] = receipts[<<k, w>>]
  <2>1. UNCHANGED <<rows, graphs, heads, records, withdrawals, lost>>
    BY <1>6
  <2>2. Stores(s.kind, s.world, s.id, s) /\ IsReceipt(s, kind, w) /\ w \in Worlds
    BY <1>3, <1>5, <1>6
  <2> QED
    BY <2>1, <2>2, ReceiptWorlds
<1>8. /\ \A v \in Worlds : v # w => Kept(v)
      /\ SameGraph(w) /\ Gone(w)' = Gone(w) /\ Rows(w)' = Rows(w)
      /\ \A i \in Indexes : Recs(i, w)' = Recs(i, w)
  BY <1>3, <1>5, <1>6, ReceiptWorlds
<1>9. \A k \in Beginnings : receipts[<<k, w>>] = None
  BY <1>1, <1>3 DEF BeginningOK
<1>10. /\ doing'[c] = "ending" /\ undo' = undo /\ unit' = unit /\ World(c)' = w
       /\ Child(c)' = Child(c) /\ heads' = heads
  BY <1>1, <1>6, ToSets DEF Writing
<1>11. BeginningOK(c)'
  BY <1>1, <1>3, <1>4, <1>7, <1>8, <1>9, <1>10 DEF BeginningOK, Headless, SameGraph
<1>12. Numbered(w)'
  BY <1>5, <1>7, <1>9 DEF Numbered
<1>13. DOMAIN heads' = Worlds /\ DOMAIN records' = Indexes /\ reviews' = reviews
       /\ (heads'[w] # None => heads'[w].world = w)
  BY <1>3, <1>6, <1>10 DEF StoreInv, StoreTypes, OwnWorld
<1> QED
  BY <1>1, <1>2, <1>6, <1>7, <1>8, <1>11, <1>12, <1>13, ToKeeps DEF Writing

LEMMA AdoptionReceiptKeeps ==
    ASSUME StoreInv, NEW c \in Threads, AdoptionReceipt(c)
    PROVE  StoreInv'
<1>1. PICK s : s = Receipt("adoption", World(c), unit[c].request.id, unit[c].request.rows,
                           unit[c].request.graph)
  OBVIOUS
<1>2. /\ doing[c] = "receipt" /\ "adoption" \in Beginnings /\ Op(c) = "adoption"
      /\ StoreReceipt(c, s)
  BY <1>1 DEF AdoptionReceipt, Op, World, Beginnings
<1> QED
  BY <1>1, <1>2, FirstReceiptKeeps

LEMMA InitializationReceiptKeeps ==
    ASSUME StoreInv, NEW c \in Threads, InitializationReceipt(c)
    PROVE  StoreInv'
<1>1. PICK s : s = Receipt("initialization", World(c), unit[c].request.id, unit[c].request.rows,
                           unit[c].request.graph)
  OBVIOUS
<1>2. /\ doing[c] = "receipt" /\ "initialization" \in Beginnings /\ Op(c) = "initialization"
      /\ StoreReceipt(c, s)
  BY <1>1 DEF InitializationReceipt, Op, World, Beginnings
<1> QED
  BY <1>1, <1>2, FirstReceiptKeeps

(* The receipt that a repair puts in place of another.                     *)
Retargeted(s, targets) == [s EXCEPT !.targets = targets]

Fixed(s, targets) == [s EXCEPT !.form = "v4", !.targets = targets]

LEMMA FixedReceipt ==
    ASSUME NEW s, NEW w, IsReceipt(s, "adoption", w), NEW targets \in Targets
    PROVE  /\ IsReceipt(Fixed(s, targets), "adoption", w) /\ Fixed(s, targets) # None
           /\ Fixed(s, targets).id = s.id /\ Fixed(s, targets).revision = s.revision
           /\ \A x \in Effective(Fixed(s, targets)) : x.world = w
           /\ Effective(Retargeted(s, targets)) = Effective(Fixed(s, targets))
           /\ Retargeted(s, targets).rows = s.rows
           /\ \A x \in s.rows : x.world = w
<1> DEFINE fixed == Fixed(s, targets)
<1>1. s = [kind |-> s.kind, world |-> s.world, id |-> s.id, rows |-> s.rows,
           form |-> s.form, targets |-> s.targets, revision |-> s.revision]
  BY ReceiptIsSomething
<1>2. fixed = [kind |-> s.kind, world |-> s.world, id |-> s.id, rows |-> s.rows,
               form |-> "v4", targets |-> targets, revision |-> s.revision]
  <2>1. DOMAIN fixed = DOMAIN s /\ fixed = [f \in DOMAIN fixed |-> fixed[f]]
    BY <1>1 DEF Fixed
  <2>2. /\ DOMAIN s = {"kind", "world", "id", "rows", "form", "targets", "revision"}
        /\ \A f \in DOMAIN s : fixed[f] =
              IF f = "targets" THEN targets ELSE IF f = "form" THEN "v4" ELSE s[f]
    BY <1>1 DEF Fixed
  <2> QED
    BY <2>1, <2>2
<1>3. Retargeted(s, targets).rows = s.rows /\ Retargeted(s, targets).targets = targets
  BY <1>1 DEF Retargeted
<1> HIDE DEF fixed
<1>4. IsReceipt(fixed, "adoption", w)
  BY <1>2, ReceiptForms
<1>5. \A x \in s.rows : IsRow(x, w)
  BY DEF IsReceipt
<1>6. fixed.rows = s.rows /\ fixed.targets = targets /\ fixed.id = s.id /\ fixed.revision = s.revision
  BY <1>2
<1>7. \A x \in Effective(fixed) : x.world = w
  BY <1>5, <1>6 DEF IsRow, Effective, Repaired
<1>8. Effective(Retargeted(s, targets)) = Effective(fixed)
  BY <1>3, <1>6 DEF Effective, Repaired
<1>9. \A x \in s.rows : x.world = w
  BY <1>5 DEF IsRow
<1> QED
  BY <1>3, <1>4, <1>6, <1>7, <1>8, <1>9, ReceiptIsSomething DEF fixed

LEMMA RepairArtifactsKeeps ==
    ASSUME StoreInv, NEW c \in Threads, RepairArtifacts(c)
    PROVE  StoreInv'
<1>1. PICK w, s, targets, fixed :
        /\ w = World(c) /\ s = receipts[<<"adoption", w>>] /\ targets = unit[c].request.targets
        /\ fixed = Fixed(s, targets)
  OBVIOUS
<1>2. /\ doing[c] = "sources" /\ doing[c] \in Writing /\ Op(c) = "repair" /\ To(c, "receipt")
      /\ rows' = (rows \ Retargeted(s, targets).rows) \cup Effective(Retargeted(s, targets))
      /\ UNCHANGED <<graphs, heads, reviews, records, receipts, withdrawals, lost>>
  BY <1>1 DEF RepairArtifacts, Op, World, Writing, Retargeted
<1>3. w \in Worlds /\ Numbered(w) /\ RepairOK(c)
  BY <1>1, <1>2, InTheMiddle
<1>4. s = undo[c].receipt /\ IsReceipt(s, "adoption", w)
  BY <1>1, <1>2, <1>3 DEF RepairOK
<1>t. targets \in Targets
  BY <1>1, <1>2, InTheMiddle DEF IsCall, Targets, Op
<1>5. /\ rows' = (rows \ s.rows) \cup Effective(fixed)
      /\ \A x \in Effective(fixed) : x.world = w
      /\ \A x \in s.rows : x.world = w
  BY <1>1, <1>2, <1>4, <1>t, FixedReceipt
<1>6. \A v : /\ SameGraph(v) /\ Gone(v)' = Gone(v) /\ AllRecs(v)' = AllRecs(v)
             /\ \A i \in Indexes : Recs(i, v)' = Recs(i, v)
             /\ v # w => Rows(v) \subseteq Rows(v)'
  BY <1>2, <1>5 DEF SameGraph, Stored, Lost, Revs, Gone, AllRecs, Recs, Rows
<1>7. Effective(fixed) \subseteq Rows(w)'
  BY <1>5 DEF Rows
<1>8. \A v \in Worlds : v # w => Kept(v)
  BY <1>2, <1>6 DEF Kept, KeptBut
<1>9. /\ doing'[c] = "receipt" /\ undo' = undo /\ unit' = unit /\ World(c)' = w
  BY <1>1, <1>2, ToSets DEF Writing
<1>10. Sound(w, heads[w], Revs(w), AllRecs(w), Gone(w))'
  BY <1>1, <1>2, <1>3, <1>6 DEF RepairOK, Sound, SameGraph
<1>11. RepairOK(c)'
  BY <1>1, <1>2, <1>3, <1>4, <1>6, <1>7, <1>9, <1>10 DEF RepairOK, Fixed, SameGraph
<1>12. Numbered(w)'
  BY <1>2, <1>3 DEF Numbered
<1> QED
  BY <1>1, <1>2, <1>3, <1>8, <1>11, <1>12, ToKeeps DEF StoreInv, StoreTypes, OwnWorld, Writing

LEMMA RepairReceiptKeeps ==
    ASSUME StoreInv, NEW c \in Threads, RepairReceipt(c)
    PROVE  StoreInv'
<1>1. PICK w, s, targets, fixed :
        /\ w = World(c) /\ s = receipts[<<"adoption", w>>] /\ targets = unit[c].request.targets
        /\ fixed = Fixed(s, targets)
  OBVIOUS
<1>2. /\ doing[c] = "receipt" /\ doing[c] \in Writing /\ Op(c) = "repair" /\ StoreReceipt(c, fixed)
  BY <1>1 DEF RepairReceipt, Op, World, Writing, Fixed
<1>3. w \in Worlds /\ Numbered(w) /\ RepairOK(c)
  BY <1>1, <1>2, InTheMiddle
<1>4. /\ s = undo[c].receipt /\ s # None /\ IsReceipt(s, "adoption", w)
      /\ Effective(fixed) \subseteq Rows(w)
  BY <1>1, <1>2, <1>3 DEF RepairOK, Fixed
<1>t. targets \in Targets
  BY <1>1, <1>2, InTheMiddle DEF IsCall, Targets, Op
<1>5. IsReceipt(fixed, "adoption", w) /\ fixed.id = s.id /\ fixed.revision = s.revision
  BY <1>1, <1>4, <1>t, FixedReceipt
<1>6. /\ To(c, "ending") /\ Stores(fixed.kind, fixed.world, fixed.id, fixed)
      /\ UNCHANGED <<rows, graphs, heads, records, withdrawals, lost>> /\ reviews' = reviews
  BY <1>2 DEF StoreReceipt, Stores
<1>7. "adoption" \in Beginnings
  BY DEF Beginnings
<1>8. /\ DOMAIN receipts' = Beginnings \X (Worlds \cup Ids)
      /\ receipts'[<<"adoption", w>>] = fixed /\ receipts'[<<"adoption", fixed.id>>] = fixed
      /\ \A k \in Beginnings : k # "adoption" => receipts'[<<k, w>>] = receipts[<<k, w>>]
  BY <1>3, <1>5, <1>6, <1>7, ReceiptWorlds
<1>9. /\ \A v \in Worlds : v # w => Kept(v)
      /\ \A v : /\ SameGraph(v) /\ Gone(v)' = Gone(v) /\ Rows(v)' = Rows(v)
                /\ AllRecs(v)' = AllRecs(v) /\ \A i \in Indexes : Recs(i, v)' = Recs(i, v)
  BY <1>3, <1>5, <1>6, <1>7, ReceiptWorlds
<1>10. \A k \in Beginnings : k # "adoption" => receipts[<<k, w>>] = None
  BY <1>1, <1>3, <1>4, <1>7 DEF Numbered
<1>11. /\ doing'[c] = "ending" /\ undo' = undo /\ unit' = unit /\ World(c)' = w /\ heads' = heads
  BY <1>1, <1>6, ToSets DEF Writing
<1>12. Numbered(w)'
  BY <1>5, <1>7, <1>8, <1>10 DEF Numbered
<1>13. Sound(w, heads[w], Revs(w), AllRecs(w), Gone(w))'
  <2>1. Sound(w, heads[w], Revs(w), AllRecs(w), Gone(w)) /\ s.revision \in Revs(w)
    BY <1>1, <1>3, <1>4, <1>7 DEF RepairOK, Sound
  <2> QED
    BY <1>5, <1>8, <1>9, <1>10, <1>11, <2>1 DEF Sound, SameGraph
<1>14. RepairOK(c)'
  BY <1>1, <1>2, <1>3, <1>4, <1>8, <1>9, <1>11, <1>13 DEF RepairOK, Fixed, SameGraph
<1>15. DOMAIN heads' = Worlds /\ DOMAIN records' = Indexes
       /\ (heads'[w] # None => heads'[w].world = w)
  BY <1>3, <1>6, <1>11 DEF StoreInv, StoreTypes, OwnWorld
<1> QED
  BY <1>1, <1>2, <1>6, <1>8, <1>9, <1>12, <1>14, <1>15, ToKeeps DEF Writing

-----------------------------------------------------------------------------
(* The writes of a publication and of a withdrawal.                        *)
LEMMA PublishReviewedKeeps ==
    ASSUME StoreInv, NEW c \in Threads, PublishReviewed(c)
    PROVE  StoreInv'
<1>1. PICK w, child, mine : w = World(c) /\ child = Child(c) /\ mine = RecordOf(c)
  OBVIOUS
<1>2. /\ doing[c] = "graph" /\ doing[c] \in Writing /\ Op(c) = "publish" /\ Published(child)
      /\ To(c, "receipt") /\ UNCHANGED <<rows, reviews, records, receipts, withdrawals, lost>>
  BY <1>1 DEF PublishReviewed, PublishChild, Writing, Op, Child
<1>3. w \in Worlds /\ Numbered(w) /\ PublicationOK(c) /\ IsCall(c)
  BY <1>1, <1>2, InTheMiddle
<1>4. child.world = w
  BY <1>1, <1>3, ChildOfCall
<1>5. /\ DOMAIN heads' = Worlds /\ \A v \in Worlds : v # w => Kept(v)
      /\ heads'[w] = child /\ Stored(w)' = Stored(w) \cup {child} /\ Lost(w)' = Lost(w)
      /\ Gone(w)' = Gone(w)
      /\ Rows(w)' = Rows(w) /\ \A i \in Indexes : Recs(i, w)' = Recs(i, w)
  BY <1>2, <1>3, <1>4, PublishedWorlds DEF StoreInv
<1>6. /\ doing'[c] = "receipt" /\ undo' = undo /\ unit' = unit /\ World(c)' = w /\ Child(c)' = child
      /\ RecordOf(c)' = mine /\ receipts' = receipts
  BY <1>1, <1>2, ToSets DEF Writing
<1>7. Before(c)' = Before(c)
  BY <1>1, <1>5, <1>6 DEF Before
<1>h. undo[c].head = child.parent
  <2>1. undo[c].head = heads[w]
    BY <1>1, <1>2, <1>3 DEF PublicationOK
  <2> QED
    BY <1>2, <1>4, <2>1 DEF Published
<1>8. Sound(w, undo[c].head, Before(c), [i \in Indexes |-> Recs(i, w) \ {mine}], Gone(w))'
  <2>1. [i \in Indexes |-> Recs(i, w)' \ {mine}] = [i \in Indexes |-> Recs(i, w) \ {mine}]
    BY <1>5
  <2> QED
    BY <1>1, <1>3, <1>5, <1>6, <1>7, <2>1 DEF PublicationOK, Sound
<1>9. Filled(w)'
  BY <1>1, <1>3, <1>5, <1>6 DEF PublicationOK, Filled
<1>10. PublicationOK(c)'
  BY <1>1, <1>2, <1>3, <1>5, <1>6, <1>7, <1>8, <1>9, <1>h DEF PublicationOK
<1>11. Numbered(w)'
  BY <1>3, <1>6 DEF Numbered
<1> QED
  BY <1>1, <1>2, <1>3, <1>4, <1>5, <1>10, <1>11, ToKeeps DEF StoreInv, StoreTypes, Writing

LEMMA RecordPublicationKeeps ==
    ASSUME StoreInv, NEW c \in Threads, RecordPublication(c)
    PROVE  StoreInv'
<1>1. PICK w, child, mine : w = World(c) /\ child = Child(c) /\ mine = RecordOf(c)
  OBVIOUS
<1>2. /\ doing[c] = "receipt" /\ doing[c] \in Writing /\ Op(c) = "publish" /\ To(c, "ending")
      /\ records' = [i \in Indexes |-> records[i] \cup {mine}]
      /\ UNCHANGED <<rows, graphs, heads, reviews, receipts, withdrawals, lost>>
  BY <1>1 DEF RecordPublication, Writing, Op
<1>3. w \in Worlds /\ Numbered(w) /\ PublicationOK(c) /\ IsCall(c)
  BY <1>1, <1>2, InTheMiddle
<1>4. child.world = w /\ mine.revision = child
  BY <1>1, <1>3, ChildOfCall
<1>5. /\ \A v : SameGraph(v) /\ Gone(v)' = Gone(v) /\ Rows(v)' = Rows(v)
      /\ \A i \in Indexes : /\ Recs(i, w)' = Recs(i, w) \cup {mine}
                            /\ \A v : v # w => Recs(i, v)' = Recs(i, v)
  BY <1>2, <1>4 DEF SameGraph, Stored, Lost, Revs, Gone, Rows, Recs
<1>6. /\ doing'[c] = "ending" /\ undo' = undo /\ unit' = unit /\ World(c)' = w /\ Child(c)' = child
      /\ RecordOf(c)' = mine /\ receipts' = receipts /\ heads' = heads
  BY <1>1, <1>2, ToSets DEF Writing
<1>b. Before(c)' = Before(c)
  BY <1>1, <1>5, <1>6 DEF Before, SameGraph
<1>7. Sound(w, undo[c].head, Before(c), [i \in Indexes |-> Recs(i, w) \ {mine}], Gone(w))'
  <2>1. [i \in Indexes |-> Recs(i, w)' \ {mine}] = [i \in Indexes |-> Recs(i, w) \ {mine}]
    BY <1>5
  <2> QED
    BY <1>1, <1>3, <1>5, <1>6, <1>b, <2>1 DEF PublicationOK, Sound
<1>8. Filled(w)'
  BY <1>1, <1>3, <1>5, <1>6 DEF PublicationOK, Filled
<1>9. PublicationOK(c)'
  BY <1>1, <1>2, <1>3, <1>5, <1>6, <1>7, <1>8, <1>b DEF PublicationOK, SameGraph
<1>10. Numbered(w)'
  BY <1>3, <1>6 DEF Numbered
<1>11. \A v \in Worlds : v # w => Kept(v)
  BY <1>5, <1>6 DEF Kept, KeptBut
<1> QED
  BY <1>1, <1>2, <1>3, <1>6, <1>9, <1>10, <1>11, ToKeeps DEF StoreInv, StoreTypes, OwnWorld, Writing

LEMMA PublishWithdrawnKeeps ==
    ASSUME StoreInv, NEW c \in Threads, PublishWithdrawn(c)
    PROVE  StoreInv'
<1>1. PICK w, child : w = World(c) /\ child = Child(c)
  OBVIOUS
<1>2. /\ doing[c] = "graph" /\ doing[c] \in Writing /\ Op(c) = "withdraw" /\ Published(child)
      /\ To(c, "receipt") /\ UNCHANGED <<rows, reviews, records, receipts, withdrawals, lost>>
  BY <1>1 DEF PublishWithdrawn, PublishChild, Writing, Op, Child
<1>3. w \in Worlds /\ Numbered(w) /\ WithdrawalOK(c) /\ IsCall(c)
  BY <1>1, <1>2, InTheMiddle
<1>4. child.world = w
  BY <1>1, <1>3, ChildOfCall
<1>5. /\ DOMAIN heads' = Worlds /\ \A v \in Worlds : v # w => Kept(v)
      /\ heads'[w] = child /\ Stored(w)' = Stored(w) \cup {child} /\ Lost(w)' = Lost(w)
      /\ Gone(w)' = Gone(w)
      /\ Rows(w)' = Rows(w) /\ AllRecs(w)' = AllRecs(w)
  BY <1>2, <1>3, <1>4, PublishedWorlds DEF StoreInv
<1>6. /\ doing'[c] = "receipt" /\ undo' = undo /\ unit' = unit /\ World(c)' = w /\ Child(c)' = child
      /\ receipts' = receipts
  BY <1>1, <1>2, ToSets DEF Writing
<1>7. Filled(w)'
  BY <1>1, <1>3, <1>5, <1>6 DEF WithdrawalOK, Filled
<1>8. heads[w] = child.parent /\ heads[w] = undo[c].head
  BY <1>1, <1>2, <1>3, <1>4 DEF WithdrawalOK, Published
<1>9. WithdrawalOK(c)'
  <2>1. Saved(c)' = Saved(c) /\ Stored(w)' = Saved(c) \cup {child}
    BY <1>1, <1>2, <1>3, <1>5, <1>6 DEF WithdrawalOK, Saved
  <2> QED
    BY <1>1, <1>2, <1>3, <1>5, <1>6, <1>7, <1>8, <2>1 DEF WithdrawalOK, Sound
<1>10. Numbered(w)'
  BY <1>3, <1>6 DEF Numbered
<1> QED
  BY <1>1, <1>2, <1>3, <1>4, <1>5, <1>9, <1>10, ToKeeps DEF StoreInv, StoreTypes, Writing

LEMMA WithdrawalReceiptKeeps ==
    ASSUME StoreInv, NEW c \in Threads, WithdrawalReceipt(c)
    PROVE  StoreInv'
<1>1. PICK w, child, id, mine :
        /\ w = World(c) /\ child = Child(c) /\ id = unit[c].request.id
        /\ mine = [world |-> w, id |-> id, revision |-> child]
  OBVIOUS
<1>2. /\ doing[c] = "receipt" /\ doing[c] \in Writing /\ Op(c) = "withdraw" /\ To(c, "ending")
      /\ withdrawals' = withdrawals \cup {mine}
      /\ UNCHANGED <<rows, graphs, heads, reviews, records, receipts, lost>>
  BY <1>1 DEF WithdrawalReceipt, Writing, Op, World, Child
<1>3. w \in Worlds /\ Numbered(w) /\ WithdrawalOK(c)
  BY <1>1, <1>2, InTheMiddle
<1>4. mine.world = w /\ mine.id = id
  BY <1>1
<1>5. \A v : /\ SameGraph(v) /\ Rows(v)' = Rows(v) /\ AllRecs(v)' = AllRecs(v)
             /\ \A i \in Indexes : Recs(i, v)' = Recs(i, v)
             /\ Gone(v)' = IF v = w THEN Gone(v) \cup {mine} ELSE Gone(v)
  BY <1>2, <1>4 DEF SameGraph, Stored, Lost, Revs, Rows, AllRecs, Recs, Gone
<1>6. /\ doing'[c] = "ending" /\ undo' = undo /\ unit' = unit /\ World(c)' = w /\ Child(c)' = child
      /\ receipts' = receipts /\ heads' = heads
  BY <1>1, <1>2, ToSets DEF Writing
<1>7. Filled(w)'
  BY <1>1, <1>3, <1>5, <1>6 DEF WithdrawalOK, Filled
<1>8. {x \in Gone(w)' : x.id # id} = {x \in Gone(w) : x.id # id}
  BY <1>4, <1>5
<1>9. WithdrawalOK(c)'
  <2>1. Saved(c)' = Saved(c) /\ Stored(w)' = Stored(w) /\ Lost(w)' = Lost(w)
    BY <1>1, <1>5, <1>6 DEF Saved, SameGraph
  <2> QED
    BY <1>1, <1>2, <1>3, <1>5, <1>6, <1>7, <1>8, <2>1 DEF WithdrawalOK, Sound
<1>10. Numbered(w)'
  BY <1>3, <1>6 DEF Numbered
<1>11. \A v \in Worlds : v # w => Kept(v)
  BY <1>5, <1>6 DEF Kept, KeptBut
<1> QED
  BY <1>1, <1>2, <1>3, <1>6, <1>9, <1>10, <1>11, ToKeeps DEF StoreInv, StoreTypes, OwnWorld, Writing

-----------------------------------------------------------------------------
(* The end of a unit.                                                      *)
LEMMA EffectiveFirst ==
    ASSUME NEW kind, NEW w, NEW id, NEW bundle, NEW graph
    PROVE  Effective(Receipt(kind, w, id, bundle, graph)) = bundle
BY DEF Effective, Receipt, Repaired

LEMMA EndedWhole ==
    ASSUME StoreInv, NEW c \in Threads, doing[c] = "ending", ReadsBack(c), NEW w, w = World(c)
    PROVE  Filled(w) /\ Sound(w, heads[w], Revs(w), AllRecs(w), Gone(w))
<1>1. PICK q, child, mine : q = unit[c].request /\ child = Child(c) /\ mine = RecordOf(c)
  OBVIOUS
<1>2. doing[c] \in Writing /\ IsCall(c) /\ w \in Worlds /\ Numbered(w) /\ q \in Requests
  BY <1>1, InTheMiddle DEF Writing, IsCall
<1>3. q.world = w /\ q.op = Op(c) /\ child = GraphRevision(w, child.parent, q.id, child.graph)
  BY <1>1, <1>2 DEF World, Op, IsCall
<1>4. CASE Op(c) \in Beginnings
  <2>1. BeginningOK(c) /\ child = GraphRevision(w, None, q.id, q.graph)
    BY <1>1, <1>2, <1>3, <1>4, InTheMiddle DEF IsCall
  <2>2. /\ heads[w] = child /\ Stored(w) \subseteq {child} /\ Headless(w)
        /\ \A k \in Beginnings : receipts[<<k, w>>] =
              IF k = q.op THEN Receipt(k, w, q.id, q.rows, q.graph) ELSE None
        /\ q.rows \subseteq Rows(w)
    BY <1>1, <2>1 DEF BeginningOK
  <2>3. child.parent = None
    BY <2>1 DEF GraphRevision
  <2>4. \A k \in Beginnings : Receipt(k, w, q.id, q.rows, q.graph).revision = child
    BY <2>1 DEF Receipt
  <2>5. Filled(w)
    BY <2>2, EffectiveFirst DEF Filled
  <2>6. \A k \in Beginnings : receipts[<<k, w>>] # None => receipts[<<k, w>>].revision = child
    BY <2>2, <2>4
  <2>7. child \in Stored(w)
    BY <1>1, <1>3, <1>4, <2>1 DEF ReadsBack, Beginnings, Child, Stored, GraphRevision
  <2>8. Sound(w, heads[w], Revs(w), AllRecs(w), Gone(w))
    BY <2>2, <2>3, <2>6, <2>7 DEF Sound, AllRecs, Headless, Revs
  <2> QED
    BY <2>5, <2>8
<1>5. CASE Op(c) = "repair"
  <2>1. RepairOK(c)
    BY <1>2, <1>5, InTheMiddle
  <2>2. PICK fixed : fixed = [undo[c].receipt EXCEPT !.form = "v4", !.targets = q.targets]
    OBVIOUS
  <2>3. receipts[<<"adoption", w>>] = fixed /\ Effective(fixed) \subseteq Rows(w)
    BY <1>1, <2>1, <2>2 DEF RepairOK
  <2>4. fixed # None
    <3>1. IsReceipt(undo[c].receipt, "adoption", w)
      BY <1>1, <2>1 DEF RepairOK
    <3>2. q.targets \in Targets
      BY <1>2, <1>3, <1>5 DEF Targets
    <3> QED
      BY <2>2, <3>1, <3>2, FixedReceipt DEF Fixed
  <2>5. \A k \in Beginnings : receipts[<<k, w>>] # None => k = "adoption"
    BY <1>2, <2>3, <2>4 DEF Numbered, Beginnings
  <2> QED
    BY <2>1, <2>3, <2>5 DEF RepairOK, Filled
<1>6. CASE Op(c) = "publish"
  <2>1. PublicationOK(c) /\ mine.revision = child
    BY <1>1, <1>2, <1>6, InTheMiddle DEF RecordOf, Child
  <2>2. PICK before : before = Before(c)
    OBVIOUS
  <2>r. Revs(w) = before \cup {child}
    <3>1. child \in Stored(w)
      BY <1>1, <1>3, <1>6 DEF ReadsBack, Child, Stored, GraphRevision
    <3> QED
      BY <1>1, <2>2, <3>1 DEF Before, Revs
  <2>3. /\ Filled(w) /\ child.parent \in before /\ heads[w] = child /\ Revs(w) = before \cup {child}
        /\ \A i \in Indexes : mine \in Recs(i, w)
        /\ Sound(w, undo[c].head, before, [i \in Indexes |-> Recs(i, w) \ {mine}], Gone(w))
    BY <1>1, <2>1, <2>2, <2>r DEF PublicationOK
  <2>4. \A i \in Indexes : \A p \in Recs(i, w) :
           p.revision \in Revs(w) /\ \A j \in Indexes : p \in Recs(j, w)
    BY <2>1, <2>3 DEF Sound
  <2>5. Sound(w, heads[w], Revs(w), AllRecs(w), Gone(w))
    BY <2>3, <2>4 DEF Sound, AllRecs
  <2> QED
    BY <2>3, <2>5
<1>7. CASE Op(c) = "withdraw"
  <2>1. WithdrawalOK(c)
    BY <1>2, <1>7, InTheMiddle
  <2>2. PICK before, id : before = Saved(c) \cup Lost(w) /\ id = q.id
    OBVIOUS
  <2>3. /\ Filled(w) /\ child.parent \in before /\ heads[w] = child /\ Revs(w) = before \cup {child}
        /\ Sound(w, undo[c].head, before, AllRecs(w), {x \in Gone(w) : x.id # id})
        /\ \A x \in Gone(w) : x.id = id => x.revision = child
    BY <1>1, <2>1, <2>2 DEF WithdrawalOK, Revs
  <2>4. Sound(w, heads[w], Revs(w), AllRecs(w), Gone(w))
    BY <2>3 DEF Sound
  <2> QED
    BY <2>3, <2>4
<1> QED
  BY <1>2, <1>3, <1>4, <1>5, <1>6, <1>7, MemoryAssumption

LEMMA EndKeeps ==
    ASSUME StoreInv, NEW c \in Threads, EndUnit(c)
    PROVE  StoreInv'
<1>1. PICK w : w = World(c)
  OBVIOUS
<1>2. doing[c] = "ending" /\ doing[c] \in Writing /\ Leaves(c) /\ ReadsBack(c) /\ UNCHANGED store
  BY DEF EndUnit, Leave, Leaves, Writing
<1>3. w \in Worlds /\ Numbered(w) /\ Active(c)
  BY <1>1, <1>2, InTheMiddle
<1>4. /\ Numbered(w)' /\ Filled(w)'
      /\ Sound(w, heads[w], Revs(w), AllRecs(w), Gone(w))'
  BY <1>1, <1>2, <1>3, EndedWhole, NoWrite
<1>5. WorldOK(w)'
  BY <1>1, <1>2, <1>3, <1>4, LeftWhole
<1>6. \A v \in Worlds : Kept(v)
  BY <1>2, NoWrite
<1> QED
  BY <1>1, <1>2, <1>3, <1>5, <1>6, StepKeeps DEF store, StoreInv, StoreTypes, OwnWorld

-----------------------------------------------------------------------------
(* Failed units.                                                           *)
LEMMA FailedUnit ==
    ASSUME StoreInv, NEW c \in Threads, Fails(c), Leave(c), NEW w, w = World(c)
    PROVE  /\ doing[c] \in Writing /\ Active(c) /\ Leaves(c) /\ w \in Worlds /\ Numbered(w)
           /\ IsCall(c) /\ unit[c].request \in Requests /\ unit[c].request.world = w
           /\ unit[c].request.op = Op(c)
<1>1. doing[c] \in Writing
  BY DEF Fails, Writing
<1>2. Leaves(c)
  BY DEF Leave, Leaves
<1>3. w \in Worlds /\ Numbered(w) /\ IsCall(c) /\ Active(c)
  BY <1>1, InTheMiddle
<1> QED
  BY <1>1, <1>2, <1>3 DEF IsCall, World, Op

Restored(c, kind, w, id) ==
    /\ DOMAIN heads' = Worlds /\ DOMAIN receipts' = Beginnings \X (Worlds \cup Ids)
    /\ DOMAIN records' = Indexes /\ reviews' = reviews
    /\ \A v \in Worlds : v # w => Kept(v)
    /\ heads'[w] = undo[c].head /\ Stored(w)' = undo[c].revisions /\ Lost(w)' = Lost(w)
    /\ Gone(w)' = Gone(w) /\ AllRecs(w)' = AllRecs(w)
    /\ {x \in undo[c].rows : x.world = w} \subseteq Rows(w)'
    /\ receipts'[<<kind, w>>] = undo[c].receipt
    /\ receipts[<<kind, w>>] # None => receipts'[<<kind, id>>] = undo[c].receipt
    /\ \A k \in Beginnings : k # kind => receipts'[<<k, w>>] = receipts[<<k, w>>]

LEMMA RestoredWorlds ==
    ASSUME StoreInv, NEW c \in Threads, NEW kind \in Beginnings, NEW families,
           Restore(c, kind, families), NEW w \in Worlds, w = World(c),
           \A r \in undo[c].revisions : r.world = w,
           NEW id, <<kind, id, w>> \in Owners,
           receipts[<<kind, w>>] # None => receipts[<<kind, w>>].id = id
    PROVE  Restored(c, kind, w, id)
<1>1. unit[c].request.world = w
  BY DEF World
<1>2. /\ rows' = (rows \ RowsOf(w, families)) \cup undo[c].rows
      /\ graphs' = {r \in graphs : r.world # w} \cup undo[c].revisions
      /\ heads' = [heads EXCEPT ![w] = undo[c].head]
      /\ reviews' = reviews /\ records' = records /\ withdrawals' = withdrawals /\ lost' = lost
  BY <1>1 DEF Restore
<1>3. receipts' = [k \in DOMAIN receipts |->
            IF k = <<kind, w>> \/ (receipts[<<kind, w>>] # None /\ k = <<kind, id>>)
            THEN undo[c].receipt ELSE receipts[k]]
  BY <1>1 DEF Restore
<1>4. StoreTypes
  BY DEF StoreInv
<1>5. /\ Stored(w)' = undo[c].revisions /\ Lost(w)' = Lost(w) /\ Gone(w)' = Gone(w)
      /\ {x \in undo[c].rows : x.world = w} \subseteq Rows(w)' /\ heads'[w] = undo[c].head
  BY <1>2, <1>4 DEF Stored, Lost, Gone, Rows, StoreTypes
<1>6. \A v : AllRecs(v)' = AllRecs(v) /\ \A i \in Indexes : Recs(i, v)' = Recs(i, v)
  BY <1>2 DEF AllRecs, Recs
<1>7. ASSUME NEW v \in Worlds, v # w PROVE Kept(v)
  <2>1. /\ heads'[v] = heads[v] /\ SameGraph(v) /\ Gone(v)' = Gone(v)
        /\ Rows(v) \subseteq Rows(v)'
    BY <1>2, <1>4, <1>7 DEF SameGraph, Stored, Lost, Revs, Gone, Rows, RowsOf, StoreTypes
  <2>2. Numbered(v)
    BY DEF StoreInv, WorldOK
  <2>3. \A x \in DOMAIN receipts : x \notin {<<kind, w>>, <<kind, id>>} => receipts'[x] = receipts[x]
    BY <1>3
  <2>4. KeepsReceipts(v)
    BY <1>4, <1>7, <2>2, <2>3, OtherReceipts
  <2> QED
    BY <1>6, <2>1, <2>4 DEF Kept, KeptBut, KeepsReceipts
<1>8. id \in Ids /\ id \notin Worlds
  BY OwnIds
<1>9. /\ DOMAIN receipts' = Beginnings \X (Worlds \cup Ids)
      /\ receipts'[<<kind, w>>] = undo[c].receipt
      /\ receipts[<<kind, w>>] # None => receipts'[<<kind, id>>] = undo[c].receipt
  BY <1>3, <1>4, <1>8 DEF StoreTypes
<1>10. ASSUME NEW k \in Beginnings, k # kind PROVE receipts'[<<k, w>>] = receipts[<<k, w>>]
  <2>1. <<k, w>> \in DOMAIN receipts /\ <<k, w>> # <<kind, w>> /\ <<k, w>> # <<kind, id>>
    BY <1>4, <1>10 DEF StoreTypes
  <2> QED
    BY <1>3, <2>1
<1> QED
  BY <1>2, <1>4, <1>5, <1>6, <1>7, <1>9, <1>10 DEF StoreTypes, Restored

(* A failed adoption or initialization leaves no head, no revision and no  *)
(* receipt of its world.                                                   *)
LEMMA UndoBeginningKeeps ==
    ASSUME StoreInv, NEW c \in Threads, NEW kind \in Beginnings, Op(c) = kind, NEW families,
           Restore(c, kind, families)
    PROVE  StoreInv'
<1>1. PICK w, q : w = World(c) /\ q = unit[c].request
  OBVIOUS
<1>2. Fails(c) /\ Leave(c)
  BY DEF Restore
<1>3. /\ doing[c] \in Writing /\ Active(c) /\ Leaves(c) /\ w \in Worlds /\ Numbered(w)
      /\ IsCall(c) /\ q \in Requests /\ q.world = w /\ q.op = kind
  BY <1>1, <1>2, FailedUnit
<1>4. BeginningOK(c)
  BY <1>3, InTheMiddle
<1>5. /\ undo[c].head = None /\ undo[c].revisions = {} /\ undo[c].receipt = None
      /\ Headless(w)
      /\ \A k \in Beginnings : receipts[<<k, w>>] =
            IF doing[c] = "ending" /\ k = q.op THEN Receipt(k, w, q.id, q.rows, q.graph) ELSE None
  BY <1>1, <1>4 DEF BeginningOK
<1>6. <<kind, q.id, w>> \in Owners
  BY <1>3 DEF Owners, Starting
<1>7. receipts[<<kind, w>>] # None => receipts[<<kind, w>>].id = q.id
  <2>1. Receipt(kind, w, q.id, q.rows, q.graph).id = q.id
    BY DEF Receipt
  <2>2. receipts[<<kind, w>>] \in {None, Receipt(kind, w, q.id, q.rows, q.graph)}
    BY <1>5
  <2> QED
    BY <2>1, <2>2
<1>8. PICK id : id = q.id
  OBVIOUS
<1>9. /\ DOMAIN heads' = Worlds /\ DOMAIN receipts' = Beginnings \X (Worlds \cup Ids)
      /\ DOMAIN records' = Indexes /\ reviews' = reviews
      /\ \A v \in Worlds : v # w => Kept(v)
      /\ heads'[w] = undo[c].head /\ Stored(w)' = undo[c].revisions /\ Lost(w)' = Lost(w)
      /\ Gone(w)' = Gone(w) /\ AllRecs(w)' = AllRecs(w)
      /\ receipts'[<<kind, w>>] = undo[c].receipt
      /\ \A k \in Beginnings : k # kind => receipts'[<<k, w>>] = receipts[<<k, w>>]
  <2>1. \A r \in undo[c].revisions : r.world = w
    BY <1>5
  <2>2. /\ <<kind, id, w>> \in Owners
        /\ receipts[<<kind, w>>] # None => receipts[<<kind, w>>].id = id
    BY <1>6, <1>7, <1>8
  <2>3. Restore(c, kind, families) /\ w \in Worlds /\ w = World(c)
    BY <1>1, <1>3
  <2>4. Restored(c, kind, w, id)
    BY <2>1, <2>2, <2>3, RestoredWorlds
  <2> QED
    BY <2>4 DEF Restored
<1>10. \A k \in Beginnings : receipts'[<<k, w>>] = None
  BY <1>3, <1>5, <1>9
<1>11. Numbered(w)' /\ Filled(w)'
  BY <1>10 DEF Numbered, Filled
<1>12. Revs(w)' = Lost(w)
  BY <1>5, <1>9 DEF Revs
<1>13. Sound(w, heads[w], Revs(w), AllRecs(w), Gone(w))'
  BY <1>5, <1>9, <1>10, <1>12 DEF Sound, AllRecs, Headless
<1>14. WorldOK(w)'
  BY <1>1, <1>3, <1>11, <1>13, LeftWhole
<1> QED
  BY <1>1, <1>3, <1>5, <1>9, <1>14, StepKeeps

(* A failed repair puts the rows and the receipt back.                     *)
LEMMA UndoRepairKeeps ==
    ASSUME StoreInv, NEW c \in Threads, Op(c) = "repair", NEW families,
           Restore(c, "adoption", families)
    PROVE  StoreInv'
<1>1. PICK w, q, s, now : /\ w = World(c) /\ q = unit[c].request /\ s = undo[c].receipt
                          /\ now = receipts[<<"adoption", w>>]
  OBVIOUS
<1>2. Fails(c) /\ Leave(c)
  BY DEF Restore
<1>3. /\ doing[c] \in Writing /\ Active(c) /\ Leaves(c) /\ w \in Worlds /\ Numbered(w)
      /\ IsCall(c) /\ q \in Requests /\ q.world = w /\ q.op = "repair" /\ "adoption" \in Beginnings
  BY <1>1, <1>2, FailedUnit DEF Beginnings
<1>4. RepairOK(c)
  BY <1>3, InTheMiddle
<1>5. /\ s # None /\ IsReceipt(s, "adoption", w)
      /\ heads[w] = undo[c].head
      /\ Stored(w) \subseteq undo[c].revisions /\ undo[c].revisions \subseteq Revs(w)
      /\ Sound(w, heads[w], Revs(w), AllRecs(w), Gone(w))
      /\ Effective(s) \subseteq {x \in undo[c].rows : x.world = w}
      /\ now = s \/ now = Fixed(s, q.targets)
  BY <1>1, <1>4 DEF RepairOK, Fixed
<1>6. now # None /\ now.id = s.id /\ now.revision = s.revision
  <2>1. q.targets \in Targets
    BY <1>3 DEF Targets
  <2> QED
    BY <1>5, <2>1, FixedReceipt
<1>7. <<"adoption", s.id, w>> \in Owners
  BY <1>5 DEF IsReceipt
<1>8. PICK id : id = s.id
  OBVIOUS
<1>9. /\ DOMAIN heads' = Worlds /\ DOMAIN receipts' = Beginnings \X (Worlds \cup Ids)
      /\ DOMAIN records' = Indexes /\ reviews' = reviews
      /\ \A v \in Worlds : v # w => Kept(v)
      /\ heads'[w] = undo[c].head /\ Stored(w)' = undo[c].revisions /\ Lost(w)' = Lost(w)
      /\ Gone(w)' = Gone(w) /\ AllRecs(w)' = AllRecs(w)
      /\ {x \in undo[c].rows : x.world = w} \subseteq Rows(w)'
      /\ receipts'[<<"adoption", w>>] = s /\ receipts'[<<"adoption", id>>] = s
      /\ \A k \in Beginnings : k # "adoption" => receipts'[<<k, w>>] = receipts[<<k, w>>]
  <2>1. \A r \in undo[c].revisions : r.world = w
    BY <1>5 DEF SameGraph, Stored, Lost, Revs
  <2>2. /\ <<"adoption", id, w>> \in Owners
        /\ receipts[<<"adoption", w>>] # None => receipts[<<"adoption", w>>].id = id
        /\ receipts[<<"adoption", w>>] # None
    BY <1>1, <1>6, <1>7, <1>8
  <2>3. Restore(c, "adoption", families) /\ w \in Worlds /\ w = World(c)
    BY <1>1, <1>3
  <2>4. Restored(c, "adoption", w, id)
    BY <1>3, <2>1, <2>2, <2>3, RestoredWorlds
  <2> QED
    BY <1>1, <2>2, <2>4 DEF Restored
<1>10. \A k \in Beginnings : k # "adoption" => receipts[<<k, w>>] = None
  BY <1>1, <1>3, <1>6 DEF Numbered
<1>11. Numbered(w)'
  BY <1>3, <1>5, <1>8, <1>9, <1>10 DEF Numbered
<1>12. Filled(w)'
  BY <1>5, <1>9, <1>10 DEF Filled
<1>13. s.revision \in Revs(w)
  BY <1>1, <1>3, <1>5, <1>6 DEF Sound
<1>r. Revs(w)' = Revs(w)
  BY <1>5, <1>9 DEF Revs
<1>14. Sound(w, heads[w], Revs(w), AllRecs(w), Gone(w))'
  BY <1>5, <1>9, <1>10, <1>13, <1>r DEF Sound
<1>15. WorldOK(w)'
  BY <1>1, <1>3, <1>11, <1>12, <1>14, LeftWhole
<1>16. heads'[w] # None => heads'[w].world = w
  BY <1>3, <1>5, <1>9 DEF StoreInv, OwnWorld
<1> QED
  BY <1>1, <1>3, <1>9, <1>15, <1>16, StepKeeps

LEMMA RestoreAdoptionKeeps ==
    ASSUME StoreInv, NEW c \in Threads, RestoreAdoption(c)
    PROVE  StoreInv'
<1>1. Restore(c, "adoption", Sources \cup History) /\ "adoption" \in Beginnings
  BY DEF RestoreAdoption, Beginnings
<1>2. Op(c) = "adoption" \/ Op(c) = "repair"
  BY DEF RestoreAdoption, Op
<1> QED
  BY <1>1, <1>2, UndoBeginningKeeps, UndoRepairKeeps

LEMMA RestoreInitializationKeeps ==
    ASSUME StoreInv, NEW c \in Threads, RestoreInitialization(c)
    PROVE  StoreInv'
<1>1. /\ Restore(c, "initialization", Sources \cup {"contribution"})
      /\ "initialization" \in Beginnings /\ Op(c) = "initialization"
  BY DEF RestoreInitialization, Beginnings, Op
<1> QED
  BY <1>1, UndoBeginningKeeps

(* A failed publication removes its revision and its record.               *)
LEMMA UndoPublicationKeeps ==
    ASSUME StoreInv, NEW c \in Threads, UndoPublication(c)
    PROVE  StoreInv'
<1>1. PICK w, child, mine, kept :
        w = World(c) /\ child = Child(c) /\ mine = RecordOf(c) /\ kept = undo[c].records
  OBVIOUS
<1>2. Fails(c) /\ Leave(c) /\ Op(c) = "publish"
  BY DEF UndoPublication, Op
<1>3. /\ doing[c] \in Writing /\ Active(c) /\ Leaves(c) /\ w \in Worlds /\ Numbered(w) /\ IsCall(c)
  BY <1>1, <1>2, FailedUnit
<1>4. child.world = w /\ mine.revision = child
  BY <1>1, <1>3, ChildOfCall
<1>5. PublicationOK(c)
  BY <1>2, <1>3, InTheMiddle
<1>6. PICK before, saved : before = Before(c) /\ saved = undo[c].head
  OBVIOUS
<1>7. /\ Filled(w) /\ \A i \in Indexes : mine \notin kept[i]
      /\ Sound(w, saved, before, [i \in Indexes |-> Recs(i, w) \ {mine}], Gone(w))
  BY <1>1, <1>5, <1>6 DEF PublicationOK
<1>8. /\ graphs' = graphs \ {child} /\ heads' = [heads EXCEPT ![w] = saved]
      /\ records' = [i \in Indexes |-> (records[i] \ {mine}) \cup (kept[i] \cap {mine})]
      /\ UNCHANGED <<rows, reviews, receipts, withdrawals, lost>>
  BY <1>1, <1>4, <1>6 DEF UndoPublication, Child
<1>9. \A i \in Indexes : records'[i] = records[i] \ {mine}
  BY <1>7, <1>8
<1>10. /\ DOMAIN heads' = Worlds /\ heads'[w] = saved /\ DOMAIN records' = Indexes
       /\ DOMAIN receipts' = Beginnings \X (Worlds \cup Ids)
       /\ Revs(w)' = before /\ Gone(w)' = Gone(w) /\ Rows(w)' = Rows(w)
       /\ \A i \in Indexes : Recs(i, w)' = Recs(i, w) \ {mine}
  <2>1. Stored(w)' = Stored(w) \ {child} /\ Lost(w)' = Lost(w)
    BY <1>8 DEF Stored, Lost
  <2>2. Revs(w)' = before
    BY <1>1, <1>6, <2>1 DEF Revs, Before
  <2> QED
    BY <1>3, <1>4, <1>6, <1>8, <1>9, <2>2 DEF StoreInv, StoreTypes, Gone, Rows, Recs
<1>11. \A v \in Worlds : v # w => Kept(v)
  BY <1>4, <1>8, <1>9 DEF StoreInv, StoreTypes, Kept, KeptBut, SameGraph, Stored, Lost, Revs, Gone, Rows, Recs
<1>12. Sound(w, heads[w], Revs(w), AllRecs(w), Gone(w))'
  <2>1. AllRecs(w)' = [i \in Indexes |-> Recs(i, w) \ {mine}]
    BY <1>10 DEF AllRecs
  <2> QED
    BY <1>7, <1>8, <1>10, <2>1 DEF Sound
<1>13. Numbered(w)' /\ Filled(w)'
  BY <1>3, <1>7, <1>8, <1>10 DEF Numbered, Filled
<1>14. heads'[w] # None => heads'[w].world = w
  BY <1>1, <1>6, <1>7, <1>10 DEF Sound, Before, Stored, Lost
<1>15. WorldOK(w)'
  BY <1>1, <1>3, <1>12, <1>13, LeftWhole
<1> QED
  BY <1>1, <1>3, <1>8, <1>10, <1>11, <1>14, <1>15, StepKeeps

(* A failed withdrawal removes all revisions stored since it began, those  *)
(* of other worlds among them: what had settled of these is lost, and what *)
(* a unit at work there has published is not its own to undo.              *)
LEMMA UndoneElsewhere ==
    ASSUME StoreInv, NEW c \in Threads, UndoWithdrawal(c), NEW v \in Worlds, v # World(c)
    PROVE  /\ heads'[v] = heads[v] /\ WorldOK(v)'
           /\ Stored(v)' = Stored(v) \cap undo[c].revisions
           /\ Lost(v)' = Lost(v) \cup {r \in Stored(v) \ undo[c].revisions : ~Unsettled(r)}
<1>1. PICK w : w = World(c)
  OBVIOUS
<1>2. Fails(c) /\ Leave(c) /\ Op(c) = "withdraw"
  BY DEF UndoWithdrawal, Op
<1>3. /\ doing[c] \in Writing /\ Active(c) /\ Leaves(c) /\ w \in Worlds
      /\ held["withdrawals"] = c /\ held[v] # c
  <2>1. Active(c) /\ doing[c] \in Writing /\ Leaves(c) /\ w \in Worlds
    BY <1>1, <1>2, FailedUnit
  <2> QED
    BY <1>2, <2>1, ActiveHolds DEF StoreInv
<1>4. /\ graphs' = graphs \cap undo[c].revisions
      /\ lost' = lost \cup {r \in graphs \ undo[c].revisions : r.world # w /\ ~Unsettled(r)}
      /\ heads' = [heads EXCEPT ![w] = undo[c].head]
      /\ withdrawals' = {x \in withdrawals : ~(x.world = w /\ x.id = unit[c].request.id)}
      /\ UNCHANGED <<rows, reviews, records, receipts>>
  BY <1>1 DEF UndoWithdrawal, World
<1>5. KeptBut(v) /\ heads'[v] = heads[v]
  BY <1>1, <1>4 DEF StoreInv, StoreTypes, KeptBut, Gone, Recs, Rows
<1>6. /\ Stored(v)' = Stored(v) \cap undo[c].revisions
      /\ Lost(v)' = Lost(v) \cup {r \in Stored(v) \ undo[c].revisions : ~Unsettled(r)}
  BY <1>1, <1>4 DEF Stored, Lost
<1>7. /\ held'[v] = held[v] /\ \A d \in Threads : held[v] = d => Same(d)
  BY <1>3 DEF Leaves, Same, Locks, StoreInv, StoreTypes
<1>8. (\A d \in Threads : held[v] = d => doing[d] \notin {"receipt", "ending"} \/ Op(d) = "repair")
        => \A r \in Stored(v) : ~Unsettled(r)
  BY DEF Stored, Unsettled, Publishing, Op
<1>9. (\A r \in Stored(v) : ~Unsettled(r)) => Revs(v)' = Revs(v)
  BY <1>6 DEF Revs
<1>10. Quiet(v) => Revs(v)' = Revs(v)
  <2>1. "receipt" \in Writing /\ "ending" \in Writing
    BY DEF Writing
  <2>2. Quiet(v) => \A d \in Threads : held[v] = d => doing[d] \notin Writing
    BY MemoryAssumption DEF Quiet
  <2>3. Quiet(v) => \A d \in Threads : held[v] = d => doing[d] \notin {"receipt", "ending"}
    BY <2>1, <2>2
  <2> QED
    BY <1>8, <1>9, <2>3
<1>11. ASSUME NEW d \in Threads, held[v] = d, doing[d] \in Writing PROVE GraphKept(v, d)
  <2>1. /\ Active(d) /\ World(d) = v /\ World(d)' = v /\ Child(d)' = Child(d) /\ d # c
        /\ IsCall(d) /\ held[World(d)] = d
    BY <1>3, <1>7, <1>11, ActiveHolds DEF StoreInv, Active, Same, World, Child
  <2>2. Op(d) # "withdraw"
    BY <1>3, <2>1, ActiveHolds DEF StoreInv
  <2>3. ASSUME doing[d] \in {"receipt", "ending"}, Op(d) # "repair", NEW r \in Stored(v)
        PROVE  Unsettled(r) <=> r = Child(d)
    BY <1>11, <2>2, <2>3 DEF Unsettled, Publishing, Stored, Op, Child
  <2>4. Op(d) \in Beginnings => Lost(v)' = Lost(v)
    <3> SUFFICES ASSUME Op(d) \in Beginnings PROVE Lost(v)' = Lost(v)
      OBVIOUS
    <3>1. BeginningOK(d) /\ Op(d) # "repair"
      BY <1>11, InTheMiddle DEF Beginnings
    <3>2. \A r \in Stored(v) : Unsettled(r)
      BY <2>1, <2>3, <3>1 DEF BeginningOK
    <3> QED
      BY <1>6, <3>2
  <2>5. Op(d) = "repair" => Revs(v)' = Revs(v)
    BY <1>8, <1>9, <1>11
  <2>6. Op(d) = "publish" => Before(d)' = Before(d)
    <3> SUFFICES ASSUME Op(d) = "publish" PROVE Before(d)' = Before(d)
      OBVIOUS
    <3>1. /\ PublicationOK(d) /\ Before(d) = (Stored(v) \ {Child(d)}) \cup Lost(v)
          /\ Before(d)' = (Stored(v)' \ {Child(d)}) \cup Lost(v)'
      BY <1>11, <2>1, InTheMiddle DEF Before
    <3>2. \A r \in Stored(v) \ {Child(d)} : ~Unsettled(r)
      BY <1>8, <1>11, <2>3
    <3>3. Child(d) \in Stored(v) => Unsettled(Child(d))
      BY <2>1, <2>3, <3>1 DEF PublicationOK
    <3> QED
      BY <1>6, <3>1, <3>2, <3>3
  <2> QED
    BY <1>6, <2>2, <2>4, <2>5, <2>6 DEF GraphKept
<1>12. WorldOK(v)'
  BY <1>5, <1>7, <1>10, <1>11, UnitKept, MemoryAssumption DEF StoreInv, Writing
<1> QED
  BY <1>5, <1>6, <1>12

LEMMA UndoWithdrawalKeeps ==
    ASSUME StoreInv, NEW c \in Threads, UndoWithdrawal(c)
    PROVE  StoreInv'
<1>1. PICK w, child, id : w = World(c) /\ child = Child(c) /\ id = unit[c].request.id
  OBVIOUS
<1>2. Fails(c) /\ Leave(c) /\ Op(c) = "withdraw"
  BY DEF UndoWithdrawal, Op
<1>3. /\ doing[c] \in Writing /\ Active(c) /\ Leaves(c) /\ w \in Worlds /\ Numbered(w) /\ IsCall(c)
  BY <1>1, <1>2, FailedUnit
<1>4. child.world = w
  BY <1>1, <1>3, ChildOfCall
<1>5. WithdrawalOK(c)
  BY <1>2, <1>3, InTheMiddle
<1>6. PICK before, saved : before = Saved(c) \cup Lost(w) /\ saved = undo[c].head
  OBVIOUS
<1>7. /\ Filled(w) /\ Stored(w) \in {Saved(c), Saved(c) \cup {child}}
      /\ Sound(w, saved, before, AllRecs(w), {x \in Gone(w) : x.id # id})
  BY <1>1, <1>5, <1>6 DEF WithdrawalOK
<1>8. /\ graphs' = graphs \cap undo[c].revisions /\ heads' = [heads EXCEPT ![w] = saved]
      /\ withdrawals' = {x \in withdrawals : ~(x.world = w /\ x.id = id)}
      /\ \A r : r.world = w => (r \in lost' <=> r \in lost)
      /\ UNCHANGED <<rows, reviews, records, receipts>>
  BY <1>1, <1>4, <1>6 DEF UndoWithdrawal, Child, World
<1>9. Revs(w)' = before
  <2>1. Stored(w)' = Stored(w) \cap undo[c].revisions /\ Lost(w)' = Lost(w)
    BY <1>8 DEF Stored, Lost
  <2>2. Stored(w) \cap undo[c].revisions = Saved(c)
    BY <1>1, <1>4, <1>7 DEF Stored, Saved
  <2> QED
    BY <1>6, <2>1, <2>2 DEF Revs
<1>10. /\ DOMAIN heads' = Worlds /\ heads'[w] = saved /\ DOMAIN records' = Indexes
       /\ DOMAIN receipts' = Beginnings \X (Worlds \cup Ids)
       /\ Gone(w)' = {x \in Gone(w) : x.id # id} /\ Rows(w)' = Rows(w) /\ AllRecs(w)' = AllRecs(w)
  BY <1>3, <1>8 DEF StoreInv, StoreTypes, Gone, Rows, Recs, AllRecs
<1>11. Sound(w, heads[w], Revs(w), AllRecs(w), Gone(w))'
  BY <1>7, <1>8, <1>9, <1>10 DEF Sound
<1>12. Numbered(w)' /\ Filled(w)'
  BY <1>3, <1>7, <1>8, <1>10 DEF Numbered, Filled
<1>13. heads'[w] # None => heads'[w].world = w
  BY <1>1, <1>6, <1>7, <1>10 DEF Sound, Saved, Lost
<1>14. WorldOK(w)'
  BY <1>1, <1>3, <1>11, <1>12, LeftWhole
<1>15. \A v \in Worlds : v # w => heads'[v] = heads[v] /\ WorldOK(v)'
  BY <1>1, UndoneElsewhere
<1>16. OwnWorld'
  BY <1>8, <1>13, <1>15 DEF StoreInv, OwnWorld
<1> QED
  BY <1>3, <1>10, <1>14, <1>15, <1>16, UnitKeepsLocks DEF StoreInv, StoreTypes

-----------------------------------------------------------------------------
(* The theorem.                                                            *)
LEMMA MemoryInitInv ==
    ASSUME MemoryInit
    PROVE  StoreInv
<1>1. PICK began \in {S \in SUBSET Standing : \A s, t \in S : s.world = t.world => s = t} :
        receipts = [k \in Beginnings \X (Worlds \cup Ids) |->
                      IF \E s \in began : k[1] = s.kind /\ k[2] \in {s.world, s.id}
                      THEN CHOOSE s \in began : k[1] = s.kind /\ k[2] \in {s.world, s.id}
                      ELSE None]
  BY DEF MemoryInit
<1>2. /\ began \subseteq Standing /\ \A s, t \in began : s.world = t.world => s = t
      /\ \A s \in began : /\ s.kind \in Beginnings /\ s.world \in Worlds
                          /\ IsReceipt(s, s.kind, s.world) /\ s # None
                          /\ <<s.kind, s.id, s.world>> \in Owners
  BY <1>1, MemoryAssumption, ReceiptIsSomething DEF IsReceipt
<1>3. ASSUME NEW k \in Beginnings, NEW v \in Worlds \cup Ids, receipts[<<k, v>>] # None
      PROVE  /\ receipts[<<k, v>>] \in began /\ receipts[<<k, v>>].kind = k
             /\ v \in {receipts[<<k, v>>].world, receipts[<<k, v>>].id}
  BY <1>1, <1>3
<1>4. ASSUME NEW s \in began, NEW v \in Worlds \cup Ids, v \in {s.world, s.id}
      PROVE  receipts[<<s.kind, v>>] # None
  BY <1>1, <1>2, <1>4
<1>5. ASSUME NEW k \in Beginnings, NEW w \in Worlds, receipts[<<k, w>>] # None,
             NEW s, s = receipts[<<k, w>>]
      PROVE  /\ s \in began /\ s.kind = k /\ s.world = w /\ IsReceipt(s, k, w)
             /\ <<k, s.id, w>> \in Owners /\ s.id \in Ids
  <2>1. s \in began /\ s.kind = k /\ w \in {s.world, s.id}
    BY <1>3, <1>5
  <2>2. s.id \in Ids /\ s.id \notin Worlds
    BY <1>2, <2>1, OwnIds
  <2> QED
    BY <1>2, <2>1, <2>2
<1>6. ASSUME NEW w \in Worlds PROVE Numbered(w)
  <2>1. ASSUME NEW k \in Beginnings, receipts[<<k, w>>] # None, NEW s, s = receipts[<<k, w>>],
               OfOneWorld(k, s.id)
        PROVE  receipts[<<k, s.id>>] = s
    <3>1. /\ s \in began /\ s.kind = k /\ s.world = w /\ s.id \in Ids
          /\ <<k, s.id, w>> \in Owners
      BY <1>5, <2>1
    <3>2. PICK t : t = receipts[<<k, s.id>>]
      OBVIOUS
    <3>3. t \in began /\ t.kind = k /\ s.id \in {t.world, t.id}
      BY <1>3, <1>4, <3>1, <3>2
    <3>4. t.id = s.id /\ <<k, t.id, t.world>> \in Owners
      BY <1>2, <3>1, <3>3, OwnIds
    <3>5. t.world = w
      <4>1. PICK own, u : own = t.id /\ u = t.world
        OBVIOUS
      <4>2. <<k, own, u>> \in Owners /\ <<k, own, w>> \in Owners /\ OfOneWorld(k, own)
        BY <2>1, <3>1, <3>4, <4>1
      <4> QED
        BY <4>1, <4>2 DEF OfOneWorld
    <3> QED
      BY <1>2, <3>1, <3>2, <3>3, <3>5
  <2>2. ASSUME NEW k \in Beginnings, receipts[<<k, w>>] # None
        PROVE  /\ receipts[<<k, w>>] \in began /\ receipts[<<k, w>>].kind = k
               /\ receipts[<<k, w>>].world = w /\ IsReceipt(receipts[<<k, w>>], k, w)
    BY <1>5, <2>2
  <2>3. \A k, l \in Beginnings :
           receipts[<<k, w>>] # None /\ receipts[<<l, w>>] # None => k = l
    BY <1>2, <2>2
  <2> QED
    BY <2>1, <2>2, <2>3 DEF Numbered
<1>7. /\ rows = UNION {Effective(s) : s \in Stood} /\ graphs = {s.revision : s \in Stood}
      /\ heads = [w \in Worlds |-> IF \E s \in Stood : s.world = w
                                   THEN (CHOOSE s \in Stood : s.world = w).revision ELSE None]
  BY DEF MemoryInit
<1>8. \A s \in Stood : IsReceipt(s, s.kind, s.world)
  BY MemoryAssumption DEF Stood
<1>9. \A s \in Stood : s.revision.world = s.world /\ s.revision.parent = None
  <2> SUFFICES ASSUME NEW s \in Stood PROVE s.revision.world = s.world /\ s.revision.parent = None
    OBVIOUS
  <2>1. s.revision = GraphRevision(s.world, None, s.id, s.revision.graph)
    BY <1>8 DEF IsReceipt
  <2>2. PICK v, id, graph : s.revision = GraphRevision(v, None, id, graph) /\ v = s.world
    BY <2>1
  <2> QED
    BY <2>2 DEF GraphRevision
<1>10. ASSUME NEW w \in Worlds, heads[w] # None PROVE heads[w] \in graphs /\ heads[w].world = w
  <2>3. PICK s \in Stood : s.world = w /\ heads[w] = s.revision
    BY <1>7, <1>10
  <2> QED
    BY <1>7, <1>9, <2>3
<1>11. ASSUME NEW w \in Worlds, NEW k \in Beginnings, receipts[<<k, w>>] # None,
              NEW s, s = receipts[<<k, w>>]
       PROVE  s.revision \in Revs(w) /\ Effective(s) \subseteq Rows(w)
  <2>1. s \in Stood /\ s.world = w /\ \A x \in s.rows : x.world = w
    <3>1. IsReceipt(s, k, w) /\ s.world = w
      BY <1>5, <1>11
    <3> QED
      BY <1>2, <1>5, <1>11, <3>1 DEF Stood, IsReceipt, IsRow
  <2>2. s.revision \in Revs(w)
    BY <1>7, <1>9, <2>1 DEF SameGraph, Stored, Lost, Revs
  <2>3. \A x \in Effective(s) : x.world = w
    <3>1. \A x \in s.rows : IsRow(x, w)
      BY <1>8, <2>1 DEF IsReceipt
    <3> QED
      BY <3>1 DEF IsRow, Effective, Repaired
  <2>4. Effective(s) \subseteq rows
    BY <1>7, <2>1
  <2> QED
    BY <2>2, <2>3, <2>4 DEF Rows
<1>12. /\ records = [i \in Indexes |-> {}] /\ withdrawals = {} /\ lost = {}
       /\ held = [l \in Locks |-> None] /\ doing = [c \in Threads |-> "idle"]
       /\ unit = [c \in Threads |-> None] /\ wants = [c \in Threads |-> <<>>]
       /\ undo = [c \in Threads |-> None]
       /\ reviews \in [DOMAIN Reviews -> {heads[w] : w \in Worlds} \cup {None}]
       /\ \A r \in DOMAIN Reviews : reviews[r] \in {heads[Reviews[r].world], None}
  BY DEF MemoryInit
<1>13. StoreTypes
  <2>1. DOMAIN heads = Worlds /\ DOMAIN receipts = Beginnings \X (Worlds \cup Ids)
    BY <1>1, <1>7
  <2>2. /\ DOMAIN records = Indexes /\ held \in [Locks -> Threads \cup {None}]
        /\ doing \in [Threads -> UnitStages] /\ DOMAIN unit = Threads /\ DOMAIN undo = Threads
    BY <1>12 DEF UnitStages
  <2>3. wants \in [Threads -> Seq(Locks)]
    <3>1. <<>> \in Seq(Locks)
      OBVIOUS
    <3> QED
      BY <1>12, <3>1
  <2> QED
    BY <2>1, <2>2, <2>3 DEF StoreTypes
<1>14. OwnWorld
  BY <1>10, <1>12, MemoryAssumption DEF OwnWorld
<1>15. UnitsLock
  BY <1>12, MemoryAssumption DEF UnitsLock
<1>16. ASSUME NEW w \in Worlds PROVE WorldOK(w)
  <2>1. Gone(w) = {} /\ \A i \in Indexes : AllRecs(w)[i] = {}
    BY <1>12 DEF Gone, AllRecs, Recs
  <2>2. heads[w] # None => heads[w] \in Revs(w)
    BY <1>10 DEF SameGraph, Stored, Lost, Revs
  <2>3. \A r \in Revs(w) : r.parent = None
    BY <1>7, <1>9, <1>12 DEF SameGraph, Stored, Lost, Revs
  <2>4. Sound(w, heads[w], Revs(w), AllRecs(w), Gone(w))
    BY <1>11, <2>1, <2>2, <2>3 DEF Sound
  <2>5. Filled(w)
    BY <1>11 DEF Filled
  <2>6. \A c \in Threads : held[w] # c
    BY <1>12, MemoryAssumption DEF Locks
  <2> QED
    BY <1>6, <2>4, <2>5, <2>6 DEF WorldOK
<1> QED
  BY <1>13, <1>14, <1>15, <1>16 DEF StoreInv

LEMMA MemoryStutterKeeps ==
    ASSUME StoreInv, UNCHANGED memoryVars
    PROVE  StoreInv'
<1>1. UNCHANGED units /\ UNCHANGED store
  BY DEF memoryVars
<1>2. \A v \in Worlds : Kept(v)
  BY <1>1, NoWrite
<1> QED
  BY <1>1, <1>2, UnitsAlone DEF store, StoreInv, StoreTypes, OwnWorld

LEMMA MemoryNextKeeps ==
    ASSUME StoreInv, MemoryNext
    PROVE  StoreInv'
<1>1. CASE PutSource
  BY <1>1, PutKeeps DEF PutSource
<1>2. CASE AdmitSource
  BY <1>2, PutKeeps DEF AdmitSource
<1>3. CASE AppendContribution
  BY <1>3, PutKeeps DEF AppendContribution
<1>4. CASE AppendDecision
  BY <1>4, PutKeeps DEF AppendDecision
<1>5. CASE FinalizeReview \/ PublishRaw \/ RollbackHead \/ PromoteReceipt
  BY <1>5, FinalizeKeeps, RawKeeps, RollbackKeeps, PromoteKeeps
<1>6. ASSUME NEW c \in Threads, Unit(c) PROVE StoreInv'
  <2>1. CASE Call(c) \/ Take(c) \/ DecideAdoption(c) \/ DecideInitialization(c) \/ DecideRepair(c)
             \/ DecidePublication(c) \/ DecideWithdrawal(c)
    BY <2>1, CallKeeps, TakeKeeps, DecideAdoptionKeeps, DecideInitializationKeeps,
       DecideRepairKeeps, DecidePublicationKeeps, DecideWithdrawalKeeps
  <2>2. CASE WriteSources(c) \/ RepairArtifacts(c) \/ WriteHistory(c) \/ PublishFirst(c)
             \/ PublishReviewed(c) \/ PublishWithdrawn(c)
    BY <2>2, WriteSourcesKeeps, RepairArtifactsKeeps, WriteHistoryKeeps, PublishFirstKeeps,
       PublishReviewedKeeps, PublishWithdrawnKeeps
  <2>3. CASE AdoptionReceipt(c) \/ InitializationReceipt(c) \/ RepairReceipt(c)
             \/ RecordPublication(c) \/ WithdrawalReceipt(c) \/ EndUnit(c)
    BY <2>3, AdoptionReceiptKeeps, InitializationReceiptKeeps, RepairReceiptKeeps,
       RecordPublicationKeeps, WithdrawalReceiptKeeps, EndKeeps
  <2>4. CASE RestoreAdoption(c) \/ RestoreInitialization(c) \/ UndoPublication(c)
             \/ UndoWithdrawal(c)
    BY <2>4, RestoreAdoptionKeeps, RestoreInitializationKeeps, UndoPublicationKeeps,
       UndoWithdrawalKeeps
  <2> QED
    BY <1>6, <2>1, <2>2, <2>3, <2>4 DEF Unit
<1> QED
  BY <1>1, <1>2, <1>3, <1>4, <1>5, <1>6 DEF MemoryNext

LEMMA FreeWorldsWhole ==
    ASSUME StoreInv
    PROVE  StoreCoherent
<1> SUFFICES ASSUME NEW w \in Worlds, held[w] = None
             PROVE  StoreCoherent!(w)!2
  BY DEF StoreCoherent
<1>1. /\ Numbered(w) /\ Filled(w) /\ Sound(w, heads[w], Revs(w), AllRecs(w), Gone(w))
  BY DEF StoreInv, WorldOK, Quiet
<1>k. /\ Revs(w) \subseteq KnownRevisions
      /\ \A r \in KnownRevisions : r.world = w => r \in Revs(w)
  BY DEF Stored, Lost, Revs, KnownRevisions
<1>2. heads[w] # None => heads[w] \in KnownRevisions
  BY <1>1, <1>k DEF Sound
<1>3. \A r \in KnownRevisions : r.world = w /\ r.parent # None => r.parent \in KnownRevisions
  BY <1>1, <1>k DEF Sound
<1>4. \A i \in Indexes : \A p \in records[i] : p.revision.world = w =>
         p.revision \in KnownRevisions /\ \A j \in Indexes : p \in records[j]
  BY <1>1, <1>k DEF Sound, AllRecs, Recs
<1>5. \A x \in withdrawals : x.world = w => x.revision \in KnownRevisions
  BY <1>1, <1>k DEF Sound, Gone
<1>6. \A k \in Beginnings : receipts[<<k, w>>] # None =>
         /\ OfOneWorld(k, receipts[<<k, w>>].id) =>
               receipts[<<k, receipts[<<k, w>>].id>>] = receipts[<<k, w>>]
         /\ receipts[<<k, w>>].revision \in KnownRevisions
         /\ Effective(receipts[<<k, w>>]) \subseteq rows
  BY <1>1, <1>k DEF Sound, Numbered, Filled, Rows
<1>7. Cardinality({k \in Beginnings : receipts[<<k, w>>] # None}) <= 1
  <2>0. PICK begun : begun = {k \in Beginnings : receipts[<<k, w>>] # None}
    OBVIOUS
  <2>1. \A k, l \in begun : k = l
    BY <1>1, <2>0 DEF Numbered
  <2>2. CASE begun = {}
    <3>1. Cardinality(begun) = 0
      BY <2>2, FS_EmptySet
    <3> QED
      BY <2>0, <3>1
  <2>3. CASE begun # {}
    <3>1. PICK k : begun = {k}
      BY <2>1, <2>3
    <3>2. Cardinality(begun) = 1
      BY <3>1, FS_Singleton
    <3> QED
      BY <2>0, <3>2
  <2> QED
    BY <2>0, <2>2, <2>3
<1> QED
  BY <1>2, <1>3, <1>4, <1>5, <1>6, <1>7

(* The store in memory is whole whenever the lock of a world is free:      *)
(* heads, parents, receipts and records name revisions that are stored or  *)
(* that a failed withdrawal of another world took along, the indexes of    *)
(* one thing agree, the rows of a receipt are stored and a world began     *)
(* once, however the units of all worlds interleave and whichever of them  *)
(* fail and undo.                                                          *)
THEOREM StoreStaysCoherent == MemorySpec => []StoreCoherent
<1>1. MemoryInit => StoreInv
  BY MemoryInitInv
<1>2. StoreInv /\ [MemoryNext]_memoryVars => StoreInv'
  BY MemoryNextKeeps, MemoryStutterKeeps
<1>3. StoreInv => StoreCoherent
  BY FreeWorldsWhole
<1> QED
  BY <1>1, <1>2, <1>3, PTL DEF MemorySpec

-----------------------------------------------------------------------------
(* A thread that calls or takes a lock is not writing.                     *)
LEMMA UnitLocks ==
    ASSUME StoreInv, NEW c \in Threads, Call(c) \/ Take(c)
    PROVE  /\ doing[c] \in {"idle", "locking"} /\ doing'[c] \in {"locking", "deciding"}
           /\ UNCHANGED store /\ undo' = undo /\ graphs' = graphs /\ withdrawals' = withdrawals
           /\ \A d \in Threads : d # c => Same(d)
<1>1. doing[c] \in {"idle", "locking"} /\ doing'[c] \in {"locking", "deciding"}
  <2>1. CASE Call(c)
    BY <2>1 DEF Call, StoreInv, StoreTypes
  <2>2. CASE Take(c)
    <3>1. doing[c] = "locking"
      BY <2>2 DEF Take, StoreInv, UnitsLock
    <3> QED
      BY <2>2, <3>1 DEF Take, StoreInv, StoreTypes
  <2> QED
    BY <2>1, <2>2
<1>2. UNCHANGED store /\ undo' = undo /\ \A d \in Threads : d # c => Same(d)
  BY DEF Call, Take, StoreInv, StoreTypes, Same
<1> QED
  BY <1>1, <1>2 DEF store

-----------------------------------------------------------------------------
(* Settled heads and revisions.                                            *)
InPublication(c) == doing[c] \in {"receipt", "ending"} /\ Op(c) # "repair"

(* What a unit that has published would take back: not a revision that was *)
(* stored before a withdrawal.                                             *)
Pending(c) == IF Op(c) = "withdraw" THEN {Child(c)} \ undo[c].revisions ELSE {Child(c)}

(* The settled revisions of the world w that c has locked.                 *)
SettledRevs(w, c) ==
    IF InPublication(c) THEN Lost(w) \cup (Stored(w) \ Pending(c)) ELSE Revs(w)

LEMMA PublishingThreads ==
    ASSUME NEW w
    PROVE  Publishing(w) = {c \in Threads : held[w] = c /\ InPublication(c)}
BY DEF Publishing, InPublication, Op

SettledIs ==
    \A w \in Worlds :
        /\ \A c \in Threads : held[w] = c =>
              /\ SettledHead[w] = IF InPublication(c) THEN undo[c].head ELSE heads[w]
              /\ SettledRevisions[w] = SettledRevs(w, c)
        /\ (\A c \in Threads : held[w] # c) =>
              SettledHead[w] = heads[w] /\ SettledRevisions[w] = Revs(w)

SettledRevisionsAre ==
    \A w \in Worlds : SettledRevisions[w] =
        {r \in Revs(w) : r \in Lost(w) \/ \A c \in Publishing(w) : r \notin Pending(c)}

LEMMA RevisionsNow == SettledRevisionsAre
<1>1. \A c, r : (r = unit[c].child /\ (unit[c].request.op = "withdraw" => r \notin undo[c].revisions))
                  <=> r \in Pending(c)
  BY DEF Pending, Op, Child
<1>2. \A r : Unsettled(r) <=> \E c \in Publishing(r.world) : r \in Pending(c)
  BY <1>1 DEF Unsettled
<1>3. \A w \in Worlds : SettledRevisions[w] =
         {r \in KnownRevisions : r.world = w /\ (r \in lost \/ ~Unsettled(r))}
  BY DEF SettledRevisions
<1> QED
  BY <1>2, <1>3 DEF SettledRevisionsAre, KnownRevisions, Revs, Stored, Lost

LEMMA RevisionsNext == SettledRevisionsAre'
BY RevisionsNow, PTL

LEMMA SettledNow == SettledIs
<1> SUFFICES ASSUME NEW w \in Worlds PROVE SettledIs!(w)
  BY DEF SettledIs
<1>1. ASSUME NEW c \in Threads, held[w] = c
      PROVE  /\ SettledHead[w] = IF InPublication(c) THEN undo[c].head ELSE heads[w]
             /\ SettledRevisions[w] = SettledRevs(w, c)
  <2>1. Publishing(w) = IF InPublication(c) THEN {c} ELSE {}
    BY <1>1, PublishingThreads
  <2>2. CASE InPublication(c)
    <3>1. Publishing(w) = {c} /\ (CHOOSE d \in Publishing(w) : TRUE) = c
      BY <2>1, <2>2
    <3>2. SettledRevisions[w] = {r \in Revs(w) : r \in Lost(w) \/ r \notin Pending(c)}
      BY <3>1, RevisionsNow DEF SettledRevisionsAre
    <3>3. SettledRevisions[w] = Lost(w) \cup (Stored(w) \ Pending(c))
      BY <3>2 DEF Revs
    <3> QED
      BY <2>2, <3>1, <3>3 DEF SettledHead, SettledRevs
  <2>3. CASE ~InPublication(c)
    BY <2>1, <2>3, RevisionsNow DEF SettledRevisionsAre, SettledHead, SettledRevs
  <2> QED
    BY <2>2, <2>3
<1>2. ASSUME \A c \in Threads : held[w] # c
      PROVE  SettledHead[w] = heads[w] /\ SettledRevisions[w] = Revs(w)
  <2>1. Publishing(w) = {}
    BY <1>2 DEF Publishing
  <2> QED
    BY <2>1, RevisionsNow DEF SettledRevisionsAre, SettledHead
<1> QED
  BY <1>1, <1>2

LEMMA SettledNext == SettledIs'
BY SettledNow, PTL

(* A step that moves no graph and nothing of a unit in its publication.    *)
LEMMA HeadsStay ==
    ASSUME NEW w \in Worlds, heads'[w] = heads[w], Publishing(w)' = Publishing(w),
           \A c \in Publishing(w) : Same(c)
    PROVE  SettledHead'[w] = SettledHead[w]
<1>1. CASE Publishing(w) = {}
  BY <1>1 DEF SettledHead
<1>2. CASE Publishing(w) # {}
  <2>1. PICK set : set = Publishing(w)
    OBVIOUS
  <2>2. PICK c : c = CHOOSE d \in set : TRUE
    OBVIOUS
  <2>3. c \in Publishing(w) /\ SettledHead[w] = undo[c].head /\ SettledHead'[w] = undo'[c].head
    BY <1>2, <2>1, <2>2 DEF SettledHead
  <2> QED
    BY <2>3 DEF Same
<1> QED
  BY <1>1, <1>2

LEMMA SettledStays ==
    ASSUME NEW w \in Worlds, heads'[w] = heads[w], SameGraph(w),
           Publishing(w)' = Publishing(w), \A c \in Publishing(w) : Same(c)
    PROVE  SettledHead'[w] = SettledHead[w] /\ SettledRevisions'[w] = SettledRevisions[w]
<1>1. SettledHead'[w] = SettledHead[w]
  BY HeadsStay
<1>2. SettledRevisions'[w] = SettledRevisions[w]
  <2>1. \A c \in Publishing(w) : Pending(c)' = Pending(c)
    BY DEF Same, Pending, Op, Child
  <2>2. PICK set : set = Publishing(w)
    OBVIOUS
  <2>3. SettledRevisions[w] = {r \in Revs(w) : r \in Lost(w) \/ \A c \in set : r \notin Pending(c)}
    BY <2>2, RevisionsNow DEF SettledRevisionsAre
  <2>4. SettledRevisions'[w] =
           {r \in Revs(w)' : r \in Lost(w)' \/ \A c \in set : r \notin Pending(c)'}
    BY <2>2, RevisionsNext DEF SettledRevisionsAre
  <2> QED
    BY <2>1, <2>2, <2>3, <2>4 DEF SameGraph
<1> QED
  BY <1>1, <1>2

LEMMA SettledStutters ==
    ASSUME \A w \in Worlds :
              SettledHead'[w] = SettledHead[w] /\ SettledRevisions'[w] = SettledRevisions[w]
    PROVE  UNCHANGED <<SettledRevisions, SettledHead>>
BY DEF SettledHead, SettledRevisions

(* What a unit's step makes of the settled graphs: of its own world, by    *)
(* where the unit stands, and of the others nothing.                       *)
Settling(c, w) ==
    /\ \A v \in Worlds : v # w =>
          SettledHead'[v] = SettledHead[v] /\ SettledRevisions'[v] = SettledRevisions[v]
    /\ SettledHead[w] = IF InPublication(c) THEN undo[c].head ELSE heads[w]
    /\ SettledRevisions[w] = SettledRevs(w, c)
    /\ Leaves(c) => SettledHead'[w] = heads'[w] /\ SettledRevisions'[w] = Revs(w)'
    /\ Moves(c) => /\ SettledHead'[w] = IF InPublication(c)' THEN undo'[c].head ELSE heads'[w]
                   /\ SettledRevisions'[w] = SettledRevs(w, c)'

(* Of the worlds of other units nothing changes.                           *)
LEMMA OthersUnsettled ==
    ASSUME StoreInv, NEW c \in Threads, Active(c), Leaves(c) \/ Moves(c),
           NEW v \in Worlds, v # World(c)
    PROVE  /\ held[v] # c /\ held'[v] = held[v] /\ Publishing(v)' = Publishing(v)
           /\ \A d \in Threads : held[v] = d => Same(d)
           /\ \A d \in Publishing(v) : Same(d)
<1>1. held[v] # c /\ held'[v] = held[v]
  BY ActiveHolds DEF StoreInv, Leaves, Moves, Locks
<1>2. \A d \in Threads : held[v] = d => Same(d)
  BY <1>1 DEF Leaves, Moves, Same, StoreInv, StoreTypes
<1> QED
  BY <1>1, <1>2 DEF Publishing, Same

LEMMA OwnSettles ==
    ASSUME StoreInv, NEW c \in Threads, Active(c), Leaves(c) \/ Moves(c), NEW w, w = World(c),
           \A v \in Worlds : v # w =>
              SettledHead'[v] = SettledHead[v] /\ SettledRevisions'[v] = SettledRevisions[v]
    PROVE  Settling(c, w) /\ w \in Worlds /\ held[w] = c
<1>1. w \in Worlds /\ held[w] = c
  BY ActiveHolds DEF StoreInv
<1>2. /\ SettledHead[w] = IF InPublication(c) THEN undo[c].head ELSE heads[w]
      /\ SettledRevisions[w] = SettledRevs(w, c)
  BY <1>1, SettledNow DEF SettledIs
<1>3. ASSUME Leaves(c) PROVE SettledHead'[w] = heads'[w] /\ SettledRevisions'[w] = Revs(w)'
  <2>1. held'[w] = None
    BY <1>3, UnitKeepsLocks DEF StoreInv
  <2>2. \A d \in Threads : held'[w] # d
    BY <2>1, MemoryAssumption
  <2> QED
    BY <1>1, <2>2, SettledNext DEF SettledIs
<1>4. ASSUME Moves(c)
      PROVE  /\ SettledHead'[w] = IF InPublication(c)' THEN undo'[c].head ELSE heads'[w]
             /\ SettledRevisions'[w] = SettledRevs(w, c)'
  <2>1. held'[w] = c
    BY <1>4, UnitKeepsLocks DEF StoreInv
  <2> QED
    BY <1>1, <2>1, SettledNext DEF SettledIs
<1> QED
  BY <1>1, <1>2, <1>3, <1>4 DEF Settling

LEMMA UnitSettles ==
    ASSUME StoreInv, NEW c \in Threads, Active(c), Leaves(c) \/ Moves(c), NEW w, w = World(c),
           \A v \in Worlds : v # w => heads'[v] = heads[v] /\ SameGraph(v)
    PROVE  Settling(c, w) /\ w \in Worlds /\ held[w] = c
<1>1. ASSUME NEW v \in Worlds, v # w
      PROVE  SettledHead'[v] = SettledHead[v] /\ SettledRevisions'[v] = SettledRevisions[v]
  BY <1>1, OthersUnsettled, SettledStays
<1> QED
  BY <1>1, OwnSettles

LEMMA SettledSame ==
    ASSUME NEW c, NEW w, Settling(c, w),
           SettledHead'[w] = SettledHead[w] /\ SettledRevisions'[w] = SettledRevisions[w]
    PROVE  UNCHANGED <<SettledRevisions, SettledHead>>
BY SettledStutters DEF Settling

LEMMA SettledMoves ==
    ASSUME NEW w \in Worlds, NEW h, NEW s, SettledHead'[w] = h, SettledRevisions'[w] = s,
           \A v \in Worlds : v # w =>
              SettledHead'[v] = SettledHead[v] /\ SettledRevisions'[v] = SettledRevisions[v]
    PROVE  /\ SettledHead' = [SettledHead EXCEPT ![w] = h]
           /\ SettledRevisions' = [SettledRevisions EXCEPT ![w] = s]
<1>1. /\ SettledHead = [v \in Worlds |-> SettledHead[v]]
      /\ SettledHead' = [v \in Worlds |-> SettledHead'[v]]
  BY DEF SettledHead
<1>2. /\ SettledRevisions = [v \in Worlds |-> SettledRevisions[v]]
      /\ SettledRevisions' = [v \in Worlds |-> SettledRevisions'[v]]
  BY DEF SettledRevisions
<1> QED
  BY <1>1, <1>2

(* Before its publication a unit moves no graph.                           *)
LEMMA EarlySettles ==
    ASSUME StoreInv, NEW c \in Threads, Active(c), Leaves(c) \/ Moves(c),
           ~InPublication(c), Moves(c) => ~InPublication(c)', UNCHANGED <<graphs, heads, lost>>
    PROVE  UNCHANGED <<SettledRevisions, SettledHead>>
<1>1. PICK w : w = World(c)
  OBVIOUS
<1>2. \A v : heads'[v] = heads[v] /\ SameGraph(v)
  BY DEF SameGraph, Stored, Lost, Revs
<1>3. Settling(c, w)
  BY <1>1, <1>2, UnitSettles
<1>4. SettledHead'[w] = SettledHead[w] /\ SettledRevisions'[w] = SettledRevisions[w]
  BY <1>2, <1>3 DEF Settling, SettledRevs, SameGraph
<1> QED
  BY <1>3, <1>4, SettledSame

(* After it, until it ends, neither.                                       *)
LEMMA LateSettles ==
    ASSUME StoreInv, NEW c \in Threads, doing[c] = "receipt", Op(c) # "repair",
           To(c, "ending"), UNCHANGED <<graphs, heads, lost>>
    PROVE  UNCHANGED <<SettledRevisions, SettledHead>>
<1>1. PICK w : w = World(c)
  OBVIOUS
<1>2. \A v : heads'[v] = heads[v] /\ SameGraph(v)
  BY DEF SameGraph, Stored, Lost, Revs
<1>3. doing'[c] = "ending" /\ undo' = undo /\ unit' = unit
  BY ToSets DEF Writing
<1>4. Active(c) /\ Moves(c)
  BY DEF Active, Writing, To, Moves
<1>5. Settling(c, w)
  BY <1>1, <1>2, <1>4, UnitSettles
<1>6. InPublication(c) /\ InPublication(c)' /\ Pending(c)' = Pending(c)
  BY <1>3 DEF InPublication, Op, Child, Pending
<1>7. SettledHead'[w] = SettledHead[w] /\ SettledRevisions'[w] = SettledRevisions[w]
  BY <1>2, <1>3, <1>4, <1>5, <1>6 DEF Settling, SettledRevs, SameGraph
<1> QED
  BY <1>5, <1>7, SettledSame

(* A unit's publication is not settled while the unit can fail.            *)
LEMMA PublicationSettles ==
    ASSUME StoreInv, NEW c \in Threads, doing[c] = "graph", PublishChild(c)
    PROVE  UNCHANGED <<SettledRevisions, SettledHead>>
<1>1. PICK w, child : w = World(c) /\ child = Child(c)
  OBVIOUS
<1>2. /\ doing[c] \in Writing /\ Published(child) /\ To(c, "receipt")
      /\ UNCHANGED <<rows, reviews, records, receipts, withdrawals, lost>>
  BY <1>1 DEF PublishChild, Writing, Child
<1>3. w \in Worlds /\ IsCall(c) /\ Active(c) /\ child.world = w
  BY <1>1, <1>2, InTheMiddle, ChildOfCall
<1>4. /\ undo[c].head = heads[w] /\ Op(c) # "repair"
      /\ Stored(w) = (Stored(w) \cup {child}) \ Pending(c)
  <2>1. CASE Op(c) \in Beginnings
    <3>1. BeginningOK(c) /\ Pending(c) = {child} /\ Op(c) # "repair"
      BY <1>1, <1>2, <2>1, InTheMiddle DEF Beginnings, Pending
    <3>2. undo[c].head = heads[w] /\ Stored(w) = {}
      BY <1>1, <3>1 DEF BeginningOK
    <3> QED
      BY <3>1, <3>2
  <2>2. CASE Op(c) = "publish"
    <3>1. PublicationOK(c) /\ Pending(c) = {child}
      BY <1>1, <1>2, <2>2, InTheMiddle DEF Pending
    <3>2. undo[c].head = heads[w] /\ child \notin Stored(w)
      BY <1>1, <3>1 DEF PublicationOK
    <3> QED
      BY <2>2, <3>1, <3>2
  <2>3. CASE Op(c) = "withdraw"
    <3>1. WithdrawalOK(c) /\ Pending(c) = {child} \ undo[c].revisions
      BY <1>1, <1>2, <2>3, InTheMiddle DEF Pending
    <3>2. heads[w] = undo[c].head /\ Stored(w) = {r \in undo[c].revisions : r.world = w}
      BY <1>1, <3>1 DEF WithdrawalOK, Saved
    <3> QED
      BY <1>3, <2>3, <3>1, <3>2
  <2>4. Op(c) # "repair"
    BY <1>2, InTheMiddle DEF RepairOK
  <2> QED
    BY <1>3, <2>1, <2>2, <2>3, <2>4, MemoryAssumption DEF IsCall, Op
<1>5. /\ doing'[c] = "receipt" /\ undo' = undo /\ unit' = unit /\ Moves(c)
  BY <1>2, ToSets DEF Writing
<1>6. ~InPublication(c) /\ InPublication(c)' /\ Pending(c)' = Pending(c)
  BY <1>1, <1>4, <1>5 DEF InPublication, Op, Child, Pending
<1>7. /\ Stored(w)' = Stored(w) \cup {child} /\ Lost(w)' = Lost(w)
      /\ \A v \in Worlds : v # w => heads'[v] = heads[v] /\ SameGraph(v)
  BY <1>2, <1>3, PublishedWorlds DEF StoreInv, Kept, KeptBut
<1>8. Settling(c, w)
  BY <1>1, <1>3, <1>5, <1>7, UnitSettles
<1>9. SettledHead'[w] = SettledHead[w] /\ SettledRevisions'[w] = SettledRevisions[w]
  BY <1>4, <1>5, <1>6, <1>7, <1>8 DEF Settling, SettledRevs, Revs
<1> QED
  BY <1>8, <1>9, SettledSame

(* A unit that ends publishes over the head that it saved.                 *)
LEMMA EndSettles ==
    ASSUME StoreInv, NEW c \in Threads, EndUnit(c)
    PROVE  Settled!Next \/ UNCHANGED <<SettledRevisions, SettledHead>>
<1>1. PICK w, child : w = World(c) /\ child = Child(c)
  OBVIOUS
<1>2. doing[c] = "ending" /\ doing[c] \in Writing /\ Active(c) /\ Leaves(c) /\ UNCHANGED store
  BY DEF EndUnit, Leave, Leaves, Writing, Active
<1>3. \A v : heads'[v] = heads[v] /\ SameGraph(v)
  BY <1>2 DEF store, SameGraph, Stored, Lost, Revs
<1>4. w \in Worlds /\ IsCall(c) /\ Settling(c, w)
  BY <1>1, <1>2, <1>3, UnitSettles, InTheMiddle
<1>5. CASE Op(c) = "repair"
  <2>1. heads'[w] = SettledHead[w] /\ Revs(w)' = SettledRevisions[w]
    BY <1>3, <1>4, <1>5 DEF Settling, SettledRevs, InPublication, SameGraph
  <2>2. SettledHead'[w] = SettledHead[w] /\ SettledRevisions'[w] = SettledRevisions[w]
    BY <1>2, <1>4, <2>1 DEF Settling
  <2> QED
    BY <1>4, <2>2, SettledSame
<1>6. CASE Op(c) # "repair"
  <2>1. /\ heads[w] = child /\ child \in Stored(w) /\ undo[c].head = child.parent
    <3>1. ReadsBack(c) /\ (Op(c) # "withdraw" => child \in graphs)
      BY <1>1, <1>6 DEF EndUnit, ReadsBack, Op, Child
    <3>2. child.world = w
      BY <1>1, <1>4, ChildOfCall
    <3>3. CASE Op(c) \in Beginnings
      <4>1. BeginningOK(c) /\ Op(c) # "withdraw"
        BY <1>2, <3>3, InTheMiddle DEF Beginnings
      <4> QED
        BY <1>1, <1>2, <1>4, <3>1, <3>2, <3>3, <4>1 DEF BeginningOK, IsCall, Op, Stored
    <3>4. CASE Op(c) = "publish"
      <4>1. PublicationOK(c)
        BY <1>2, <3>4, InTheMiddle
      <4> QED
        BY <1>1, <1>2, <3>1, <3>2, <3>4, <4>1 DEF PublicationOK, Stored
    <3>5. CASE Op(c) = "withdraw"
      BY <1>1, <1>2, <3>5, InTheMiddle DEF WithdrawalOK
    <3> QED
      BY <1>4, <1>6, <3>3, <3>4, <3>5, MemoryAssumption DEF IsCall, Op
  <2>2. InPublication(c)
    BY <1>2, <1>6 DEF InPublication
  <2>3. /\ SettledHead[w] = child.parent /\ Pending(c) \subseteq {child}
        /\ SettledRevisions[w] = Lost(w) \cup (Stored(w) \ Pending(c))
    BY <1>1, <1>4, <2>1, <2>2 DEF Settling, SettledRevs, Pending
  <2>4. SettledHead'[w] = child /\ SettledRevisions'[w] = Stored(w) \cup Lost(w)
    BY <1>2, <1>3, <1>4, <2>1 DEF Settling, SameGraph, Revs
  <2>5. PICK all : all = SettledRevisions[w] \cup {child}
    OBVIOUS
  <2>6. SettledHead'[w] = child /\ SettledRevisions'[w] = all
    BY <2>1, <2>3, <2>4, <2>5
  <2>m. /\ SettledHead' = [SettledHead EXCEPT ![w] = child]
        /\ SettledRevisions' = [SettledRevisions EXCEPT ![w] = all]
    BY <1>4, <2>6, SettledMoves DEF Settling
  <2>7. child \in SettledRevisions'[w]
    BY <2>1, <2>4
  <2>8. Settled!Publish(w)
    BY <2>3, <2>5, <2>m, <2>7 DEF Settled!Publish
  <2> QED
    BY <1>4, <2>8 DEF Settled!Next
<1> QED
  BY <1>5, <1>6

(* A unit that fails puts its world back where it was settled.             *)
LEMMA RestoreSettles ==
    ASSUME StoreInv, NEW c \in Threads, NEW kind \in Beginnings, NEW families,
           Restore(c, kind, families), Op(c) = kind \/ Op(c) = "repair"
    PROVE  UNCHANGED <<SettledRevisions, SettledHead>>
<1>1. PICK w, child : w = World(c) /\ child = Child(c)
  OBVIOUS
<1>2. Fails(c) /\ Leave(c)
  BY DEF Restore
<1>3. doing[c] \in Writing /\ Active(c) /\ Leaves(c) /\ w \in Worlds /\ IsCall(c)
  BY <1>1, <1>2, FailedUnit
<1>4. /\ graphs' = {r \in graphs : r.world # w} \cup undo[c].revisions
      /\ heads' = [heads EXCEPT ![w] = undo[c].head] /\ lost' = lost
  BY <1>1 DEF Restore, World
<1>5. /\ \A r \in undo[c].revisions : r.world = w
      /\ undo[c].head = IF InPublication(c) THEN undo[c].head ELSE heads[w]
      /\ undo[c].revisions \cup Lost(w) = SettledRevs(w, c)
  <2>1. CASE Op(c) = "repair"
    <3>1. RepairOK(c) /\ ~InPublication(c)
      BY <1>3, <2>1, InTheMiddle DEF InPublication
    <3>2. \A r \in Revs(w) : r.world = w
      BY DEF Revs, Stored, Lost
    <3>3. /\ undo[c].head = heads[w]
          /\ Stored(w) \subseteq undo[c].revisions /\ undo[c].revisions \subseteq Revs(w)
      BY <1>1, <3>1 DEF RepairOK
    <3> QED
      BY <3>1, <3>2, <3>3 DEF SettledRevs, Revs
  <2>2. CASE Op(c) = kind
    <3>1. BeginningOK(c) /\ Op(c) # "repair" /\ Pending(c) = {child}
      BY <1>1, <1>3, <2>2, InTheMiddle DEF Beginnings, Pending
    <3>2. /\ undo[c].head = None /\ undo[c].revisions = {}
          /\ IF InPublication(c) THEN Stored(w) \subseteq {child} ELSE heads[w] = None /\ Stored(w) = {}
      BY <1>1, <3>1 DEF BeginningOK, InPublication
    <3> QED
      BY <3>1, <3>2 DEF SettledRevs, Revs
  <2> QED
    BY <2>1, <2>2
<1>6. /\ heads'[w] = undo[c].head /\ Revs(w)' = undo[c].revisions \cup Lost(w)
      /\ \A v \in Worlds : v # w => heads'[v] = heads[v] /\ SameGraph(v)
  BY <1>3, <1>4, <1>5 DEF StoreInv, StoreTypes, SameGraph, Stored, Lost, Revs
<1>7. Settling(c, w)
  BY <1>1, <1>3, <1>6, UnitSettles
<1>8. SettledHead'[w] = SettledHead[w] /\ SettledRevisions'[w] = SettledRevisions[w]
  BY <1>1, <1>3, <1>5, <1>6, <1>7 DEF Settling
<1> QED
  BY <1>7, <1>8, SettledSame

LEMMA UndoSettles ==
    ASSUME StoreInv, NEW c \in Threads, UndoPublication(c)
    PROVE  UNCHANGED <<SettledRevisions, SettledHead>>
<1>1. PICK w, child : w = World(c) /\ child = Child(c)
  OBVIOUS
<1>2. Fails(c) /\ Leave(c) /\ Op(c) = "publish"
  BY DEF UndoPublication, Op
<1>3. doing[c] \in Writing /\ Active(c) /\ Leaves(c) /\ w \in Worlds /\ IsCall(c)
  BY <1>1, <1>2, FailedUnit
<1>4. child.world = w
  BY <1>1, <1>3, ChildOfCall
<1>5. graphs' = graphs \ {child} /\ heads' = [heads EXCEPT ![w] = undo[c].head] /\ lost' = lost
  BY <1>1, <1>4 DEF UndoPublication, Child
<1>6. PublicationOK(c)
  BY <1>2, <1>3, InTheMiddle
<1>7. /\ undo[c].head = IF InPublication(c) THEN undo[c].head ELSE heads[w]
      /\ (Stored(w) \ {child}) \cup Lost(w) = SettledRevs(w, c)
  <2>1. /\ Op(c) # "repair" /\ doing[c] \in {"graph", "receipt", "ending"} /\ Pending(c) = {child}
        /\ doing[c] = "graph" => heads[w] = undo[c].head /\ child \notin Stored(w)
    BY <1>1, <1>2, <1>6 DEF PublicationOK, Pending
  <2> QED
    BY <2>1 DEF InPublication, SettledRevs, Revs
<1>8. /\ heads'[w] = undo[c].head /\ Revs(w)' = (Stored(w) \ {child}) \cup Lost(w)
      /\ \A v \in Worlds : v # w => heads'[v] = heads[v] /\ SameGraph(v)
  BY <1>3, <1>4, <1>5 DEF StoreInv, StoreTypes, SameGraph, Stored, Lost, Revs
<1>9. Settling(c, w)
  BY <1>1, <1>3, <1>8, UnitSettles
<1>10. SettledHead'[w] = SettledHead[w] /\ SettledRevisions'[w] = SettledRevisions[w]
  BY <1>1, <1>3, <1>7, <1>8, <1>9 DEF Settling
<1> QED
  BY <1>9, <1>10, SettledSame

LEMMA UndoWithdrawalSettles ==
    ASSUME StoreInv, NEW c \in Threads, UndoWithdrawal(c)
    PROVE  UNCHANGED <<SettledRevisions, SettledHead>>
<1>1. PICK w, child : w = World(c) /\ child = Child(c)
  OBVIOUS
<1>2. Fails(c) /\ Leave(c) /\ Op(c) = "withdraw"
  BY DEF UndoWithdrawal, Op
<1>3. doing[c] \in Writing /\ Active(c) /\ Leaves(c) /\ w \in Worlds /\ IsCall(c)
  BY <1>1, <1>2, FailedUnit
<1>4. child.world = w /\ WithdrawalOK(c)
  BY <1>1, <1>2, <1>3, ChildOfCall, InTheMiddle
<1>5. /\ undo[c].head = IF InPublication(c) THEN undo[c].head ELSE heads[w]
      /\ Stored(w) \cap undo[c].revisions = Saved(c) /\ Saved(c) \cup Lost(w) = SettledRevs(w, c)
  <2>1. /\ doing[c] \in {"graph", "receipt", "ending"}
        /\ IF doing[c] = "graph" THEN heads[w] = undo[c].head /\ Stored(w) = Saved(c)
                                 ELSE Stored(w) = Saved(c) \cup {child}
    BY <1>1, <1>4 DEF WithdrawalOK
  <2>2. Saved(c) = {r \in undo[c].revisions : r.world = w} /\ Pending(c) = {child} \ undo[c].revisions
    BY <1>1, <1>2 DEF Saved, Pending
  <2>3. Stored(w) \cap undo[c].revisions = Saved(c)
    BY <1>4, <2>1, <2>2
  <2>4. doing[c] # "graph" => Stored(w) \ Pending(c) = Saved(c)
    BY <1>4, <2>1, <2>2
  <2> QED
    BY <1>2, <2>1, <2>3, <2>4 DEF InPublication, SettledRevs, Revs
<1>6. heads'[w] = undo[c].head /\ Revs(w)' = Saved(c) \cup Lost(w)
  <2>1. /\ graphs' = graphs \cap undo[c].revisions /\ heads' = [heads EXCEPT ![w] = undo[c].head]
        /\ \A r : r.world = w => (r \in lost' <=> r \in lost)
    BY <1>1, <1>4 DEF UndoWithdrawal, World
  <2>2. Stored(w)' = Stored(w) \cap undo[c].revisions /\ Lost(w)' = Lost(w)
    BY <2>1 DEF Stored, Lost
  <2> QED
    BY <1>3, <1>5, <2>1, <2>2 DEF StoreInv, StoreTypes, Revs
<1>7. ASSUME NEW v \in Worlds, v # w
      PROVE  SettledHead'[v] = SettledHead[v] /\ SettledRevisions'[v] = SettledRevisions[v]
  <2>1. /\ heads'[v] = heads[v] /\ Stored(v)' = Stored(v) \cap undo[c].revisions
        /\ Lost(v)' = Lost(v) \cup {r \in Stored(v) \ undo[c].revisions : ~Unsettled(r)}
    BY <1>1, <1>7, UndoneElsewhere
  <2>2. Publishing(v)' = Publishing(v) /\ \A d \in Publishing(v) : Same(d)
    BY <1>1, <1>3, <1>7, OthersUnsettled
  <2>3. SettledHead'[v] = SettledHead[v]
    BY <2>1, <2>2, HeadsStay
  <2>4. PICK set : set = Publishing(v)
    OBVIOUS
  <2>5. \A d \in set : Pending(d)' = Pending(d)
    BY <2>2, <2>4 DEF Same, Pending, Op, Child
  <2>6. \A r \in Stored(v) : ~Unsettled(r) <=> \A d \in set : r \notin Pending(d)
    BY <2>4 DEF Stored, Unsettled, Pending, Op, Child
  <2>7. /\ SettledRevisions[v] = {r \in Revs(v) : r \in Lost(v) \/ \A d \in set : r \notin Pending(d)}
        /\ SettledRevisions'[v] =
              {r \in Revs(v)' : r \in Lost(v)' \/ \A d \in set : r \notin Pending(d)'}
    BY <2>2, <2>4, RevisionsNow, RevisionsNext DEF SettledRevisionsAre
  <2> QED
    BY <2>1, <2>3, <2>5, <2>6, <2>7 DEF Revs
<1>8. Settling(c, w)
  BY <1>1, <1>3, <1>7, OwnSettles
<1>9. SettledHead'[w] = SettledHead[w] /\ SettledRevisions'[w] = SettledRevisions[w]
  BY <1>3, <1>5, <1>6, <1>8 DEF Settling
<1> QED
  BY <1>8, <1>9, SettledSame

(* Calls under one lock.                                                   *)
LEMMA AloneSettles ==
    ASSUME UNCHANGED units
    PROVE  /\ \A v \in Worlds : heads'[v] = heads[v] /\ SameGraph(v) =>
                 SettledHead'[v] = SettledHead[v] /\ SettledRevisions'[v] = SettledRevisions[v]
           /\ \A v \in Worlds : held[v] = None =>
                 /\ SettledHead[v] = heads[v] /\ SettledRevisions[v] = Revs(v)
                 /\ SettledHead'[v] = heads'[v] /\ SettledRevisions'[v] = Revs(v)'
<1>1. held' = held /\ doing' = doing /\ unit' = unit /\ undo' = undo
  BY DEF units
<1>2. ASSUME NEW v \in Worlds, heads'[v] = heads[v] /\ SameGraph(v)
      PROVE  SettledHead'[v] = SettledHead[v] /\ SettledRevisions'[v] = SettledRevisions[v]
  <2>1. Publishing(v)' = Publishing(v) /\ \A c : Same(c)
    BY <1>1 DEF Publishing, Same
  <2> QED
    BY <1>1, <1>2, <2>1, SettledStays
<1>3. ASSUME NEW v \in Worlds, held[v] = None
      PROVE  /\ SettledHead[v] = heads[v] /\ SettledRevisions[v] = Revs(v)
             /\ SettledHead'[v] = heads'[v] /\ SettledRevisions'[v] = Revs(v)'
  <2>1. \A c \in Threads : held[v] # c /\ held'[v] # c
    BY <1>1, <1>3, MemoryAssumption
  <2> QED
    BY <2>1, SettledNow, SettledNext DEF SettledIs
<1> QED
  BY <1>2, <1>3

LEMMA RawSettles ==
    ASSUME StoreInv, PublishRaw
    PROVE  Settled!Next
<1>1. PICK w \in Worlds, x \in Raw :
        /\ held[w] = None
        /\ Published(GraphRevision(w, heads[w], x[1], x[2]))
        /\ UNCHANGED <<rows, reviews, records, receipts, withdrawals, lost, units>>
  BY DEF PublishRaw
<1>2. PICK child : child = GraphRevision(w, heads[w], x[1], x[2])
  OBVIOUS
<1>3. child.world = w /\ child.parent = heads[w]
  BY <1>2 DEF GraphRevision
<1>4. /\ heads'[w] = child /\ Revs(w)' = Revs(w) \cup {child}
      /\ \A v \in Worlds : v # w => heads'[v] = heads[v] /\ SameGraph(v)
  BY <1>1, <1>2, <1>3, PublishedWorlds DEF StoreInv, Kept, KeptBut
<1>5. \A v \in Worlds : v # w =>
         SettledHead'[v] = SettledHead[v] /\ SettledRevisions'[v] = SettledRevisions[v]
  BY <1>1, <1>4, AloneSettles
<1>6. PICK all : all = SettledRevisions[w] \cup {child}
  OBVIOUS
<1>7. SettledHead[w] = child.parent /\ SettledHead'[w] = child /\ SettledRevisions'[w] = all
  BY <1>1, <1>3, <1>4, <1>6, AloneSettles
<1>8. /\ SettledHead' = [SettledHead EXCEPT ![w] = child]
      /\ SettledRevisions' = [SettledRevisions EXCEPT ![w] = all]
  BY <1>5, <1>7, SettledMoves
<1>9. Settled!Publish(w)
  BY <1>6, <1>7, <1>8 DEF Settled!Publish
<1> QED
  BY <1>9 DEF Settled!Next

LEMMA RollbackSettles ==
    ASSUME StoreInv, RollbackHead
    PROVE  Settled!Next \/ UNCHANGED <<SettledRevisions, SettledHead>>
<1>1. PICK r \in graphs :
        /\ held[r.world] = None
        /\ heads' = [heads EXCEPT ![r.world] = r]
        /\ UNCHANGED <<rows, graphs, reviews, records, receipts, withdrawals, lost, units>>
  BY DEF RollbackHead
<1>2. PICK w : w = r.world
  OBVIOUS
<1>3. \A v \in Worlds : SameGraph(v) /\ (v # w => heads'[v] = heads[v])
  BY <1>1, <1>2 DEF SameGraph, Stored, Lost, Revs, StoreInv, StoreTypes
<1>4. \A v \in Worlds : v # w =>
         SettledHead'[v] = SettledHead[v] /\ SettledRevisions'[v] = SettledRevisions[v]
  BY <1>1, <1>3, AloneSettles
<1>5. CASE w \notin Worlds
  BY <1>4, <1>5, SettledStutters
<1>6. CASE w \in Worlds
  <2>1. heads'[w] = r /\ r \in Revs(w)
    BY <1>1, <1>2, <1>6 DEF SameGraph, Stored, Lost, Revs, StoreInv, StoreTypes
  <2>2. PICK all : all = SettledRevisions[w]
    OBVIOUS
  <2>3. SettledHead'[w] = r /\ SettledRevisions'[w] = all /\ r \in SettledRevisions[w]
    BY <1>1, <1>2, <1>3, <1>6, <2>1, <2>2, AloneSettles DEF SameGraph
  <2>4. SettledHead' = [SettledHead EXCEPT ![w] = r]
    BY <1>4, <1>6, <2>3, SettledMoves
  <2>5. SettledRevisions' = SettledRevisions
    <3>1. /\ SettledRevisions = [v \in Worlds |-> SettledRevisions[v]]
          /\ SettledRevisions' = [v \in Worlds |-> SettledRevisions'[v]]
      BY DEF SettledRevisions
    <3> QED
      BY <1>4, <2>2, <2>3, <3>1
  <2>6. Settled!Rollback(w)
    BY <2>3, <2>4, <2>5 DEF Settled!Rollback
  <2> QED
    BY <1>6, <2>6 DEF Settled!Next
<1> QED
  BY <1>5, <1>6

LEMMA QuietCallsSettle ==
    ASSUME UNCHANGED <<graphs, heads, lost, units>>
    PROVE  UNCHANGED <<SettledRevisions, SettledHead>>
<1>1. \A v \in Worlds : heads'[v] = heads[v] /\ SameGraph(v)
  BY DEF SameGraph, Stored, Lost, Revs
<1> QED
  BY <1>1, AloneSettles, SettledStutters

LEMMA LockingSettles ==
    ASSUME StoreInv, NEW c \in Threads, Call(c) \/ Take(c)
    PROVE  UNCHANGED <<SettledRevisions, SettledHead>>
<1>1. doing[c] \in {"idle", "locking"} /\ doing'[c] \in {"locking", "deciding"}
  BY UnitLocks
<1>2. /\ graphs' = graphs /\ heads' = heads /\ lost' = lost
      /\ \A d \in Threads : d # c => Same(d)
  BY UnitLocks DEF store
<1>3. \A v \in Worlds, d \in Threads : d # c => (held'[v] = d <=> held[v] = d)
  <2>1. CASE Call(c)
    BY <2>1 DEF Call
  <2>2. CASE Take(c)
    BY <2>2, MemoryAssumption DEF Take, StoreInv, StoreTypes, Locks
  <2> QED
    BY <2>1, <2>2
<1>4. ASSUME NEW v \in Worlds
      PROVE  SettledHead'[v] = SettledHead[v] /\ SettledRevisions'[v] = SettledRevisions[v]
  <2>1. Publishing(v)' = Publishing(v) /\ c \notin Publishing(v)
    BY <1>1, <1>2, <1>3 DEF Publishing, Same
  <2>2. \A d \in Publishing(v) : d \in Threads /\ d # c
    BY <2>1 DEF Publishing
  <2>3. \A d \in Publishing(v) : Same(d)
    BY <1>2, <2>2
  <2>4. heads'[v] = heads[v] /\ SameGraph(v)
    BY <1>2 DEF SameGraph, Stored, Lost, Revs
  <2> QED
    BY <2>1, <2>3, <2>4, SettledStays
<1> QED
  BY <1>4, SettledStutters

LEMMA UnitStepSettles ==
    ASSUME StoreInv, NEW c \in Threads, Unit(c)
    PROVE  Settled!Next \/ UNCHANGED <<SettledRevisions, SettledHead>>
<1>1. CASE Call(c) \/ Take(c)
  BY <1>1, LockingSettles
<1>2. ASSUME doing[c] = "deciding", RefuseUnit(c)
      PROVE  UNCHANGED <<SettledRevisions, SettledHead>>
  <2>1. Leaves(c) /\ Active(c) /\ ~InPublication(c) /\ UNCHANGED <<graphs, heads, lost>>
    BY <1>2 DEF RefuseUnit, Leave, Leaves, Active, InPublication, store
  <2>2. ~Moves(c)
    BY <2>1 DEF Leaves, Moves, StoreInv, StoreTypes, Writing
  <2> QED
    BY <2>1, <2>2, EarlySettles
<1>3. ASSUME doing[c] = "deciding", NEW stage \in {"sources", "graph"}, NEW saved,
             Proceed(c, stage, saved)
      PROVE  UNCHANGED <<SettledRevisions, SettledHead>>
  <2>1. Moves(c) /\ Active(c) /\ ~InPublication(c) /\ UNCHANGED <<graphs, heads, lost>>
    BY <1>3 DEF Proceed, Moves, Writing, Active, InPublication, store
  <2>2. ~InPublication(c)'
    BY <1>3 DEF Proceed, InPublication, StoreInv, StoreTypes
  <2> QED
    BY <2>1, <2>2, EarlySettles
<1>4. CASE DecideAdoption(c) \/ DecideInitialization(c) \/ DecideRepair(c)
  BY <1>2, <1>3, <1>4 DEF DecideAdoption, DecideInitialization, DecideRepair
<1>5. CASE DecidePublication(c)
  <2>1. ASSUME Leave(c), UNCHANGED <<graphs, heads, lost>>
        PROVE  UNCHANGED <<SettledRevisions, SettledHead>>
    <3>1. Leaves(c) /\ Active(c) /\ ~InPublication(c)
      BY <1>5, <2>1 DEF DecidePublication, Leave, Leaves, Active, InPublication
    <3>2. ~Moves(c)
      BY <3>1 DEF Leaves, Moves, StoreInv, StoreTypes, Writing
    <3> QED
      BY <2>1, <3>1, <3>2, EarlySettles
  <2> QED
    BY <1>2, <1>3, <1>5, <2>1 DEF DecidePublication
<1>6. ASSUME doing[c] \in Writing, NEW stage \in Writing, To(c, stage), UNCHANGED <<graphs, heads, lost>>,
             ~InPublication(c), stage \notin {"receipt", "ending"} \/ Op(c) = "repair"
      PROVE  UNCHANGED <<SettledRevisions, SettledHead>>
  <2>1. /\ doing'[c] = stage /\ unit' = unit /\ Moves(c) /\ Op(c)' = Op(c)
    BY <1>6, ToSets
  <2>2. Active(c) /\ ~InPublication(c)'
    BY <1>6, <2>1 DEF Active, InPublication
  <2> QED
    BY <1>6, <2>1, <2>2, EarlySettles
<1>7. CASE WriteSources(c) \/ RepairArtifacts(c) \/ WriteHistory(c)
  <2>1. CASE WriteSources(c)
    BY <1>6, <2>1 DEF WriteSources, Writing, InPublication
  <2>2. CASE RepairArtifacts(c)
    BY <1>6, <2>2 DEF RepairArtifacts, Writing, InPublication, Op
  <2>3. CASE WriteHistory(c)
    BY <1>6, <2>3 DEF WriteHistory, Writing, InPublication
  <2> QED
    BY <1>7, <2>1, <2>2, <2>3
<1>8. CASE PublishFirst(c) \/ PublishReviewed(c) \/ PublishWithdrawn(c)
  BY <1>8, PublicationSettles DEF PublishFirst, PublishReviewed, PublishWithdrawn
<1>9. CASE AdoptionReceipt(c) \/ InitializationReceipt(c) \/ RecordPublication(c)
            \/ WithdrawalReceipt(c)
  <2>1. /\ doing[c] = "receipt" /\ Op(c) # "repair" /\ To(c, "ending") /\ UNCHANGED <<graphs, heads, lost>>
    BY <1>9 DEF AdoptionReceipt, InitializationReceipt, RecordPublication, WithdrawalReceipt,
       StoreReceipt, Op
  <2> QED
    BY <2>1, LateSettles
<1>10. CASE RepairReceipt(c)
  BY <1>6, <1>10 DEF RepairReceipt, StoreReceipt, Writing, InPublication, Op
<1>11. CASE DecideWithdrawal(c)
  BY <1>2, <1>3, <1>11 DEF DecideWithdrawal
<1>12. CASE EndUnit(c)
  BY <1>12, EndSettles
<1>13. CASE RestoreAdoption(c) \/ RestoreInitialization(c)
  BY <1>13, RestoreSettles DEF RestoreAdoption, RestoreInitialization, Op, Beginnings
<1>14. CASE UndoPublication(c)
  BY <1>14, UndoSettles
<1>15. CASE UndoWithdrawal(c)
  BY <1>15, UndoWithdrawalSettles
<1> QED
  BY <1>1, <1>4, <1>5, <1>7, <1>8, <1>9, <1>10, <1>11, <1>12, <1>13, <1>14, <1>15 DEF Unit

(* Failed units keep graphs: however the units of all worlds interleave    *)
(* and fail, counting a publication when its unit ends, each head of the   *)
(* store in memory moves only to a published child of it or back to a      *)
(* settled revision, and no revision that was settled leaves its world,    *)
(* unless a failed withdrawal of another world took it.                    *)
THEOREM FailedUnitsKeepGraphs == MemorySpec => FailuresKeepGraphs
<1>1. MemoryInit => StoreInv
  BY MemoryInitInv
<1>2. StoreInv /\ [MemoryNext]_memoryVars => StoreInv'
  BY MemoryNextKeeps, MemoryStutterKeeps
<1>3. StoreInv /\ [MemoryNext]_memoryVars => [Settled!Next]_<<SettledRevisions, SettledHead>>
  <2> SUFFICES ASSUME StoreInv, [MemoryNext]_memoryVars
               PROVE  [Settled!Next]_<<SettledRevisions, SettledHead>>
    OBVIOUS
  <2>1. CASE UNCHANGED memoryVars
    BY <2>1, QuietCallsSettle DEF memoryVars, store
  <2>2. CASE PutSource \/ AdmitSource \/ AppendContribution \/ AppendDecision
    BY <2>2, QuietCallsSettle DEF PutSource, AdmitSource, AppendContribution, AppendDecision
  <2>3. CASE FinalizeReview \/ PromoteReceipt
    BY <2>3, QuietCallsSettle DEF FinalizeReview, PromoteReceipt
  <2>4. CASE PublishRaw \/ RollbackHead
    BY <2>4, RawSettles, RollbackSettles
  <2>5. ASSUME NEW c \in Threads, Unit(c)
        PROVE  [Settled!Next]_<<SettledRevisions, SettledHead>>
    BY <2>5, UnitStepSettles
  <2> QED
    BY <2>1, <2>2, <2>3, <2>4, <2>5 DEF MemoryNext
<1> QED
  BY <1>1, <1>2, <1>3, PTL DEF MemorySpec, FailuresKeepGraphs
=============================================================================
