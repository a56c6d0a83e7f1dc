----------------------- MODULE KnowledgeSpaces_Proofs -----------------------
(***************************************************************************)
(* Proofs about KnowledgeSpaces and NativeSpaces for any number of         *)
(* clients, spaces and calls, and any changes, sources and readers.        *)
(*                                                                         *)
(* The first half is about publications: the lock of a space makes its     *)
(* history one line.  The second is about content: every revision that is  *)
(* stored is one of Histories, and what holds of each history is proved    *)
(* by following the changes that made it.  A recursive function is shown   *)
(* to have its value, and a fact to hold of all its values, by the least   *)
(* counterexample.                                                         *)
(***************************************************************************)
EXTENDS NativeSpaces, SequenceTheorems, FiniteSetTheorems, WellFoundedInduction, TLAPS

-----------------------------------------------------------------------------
(* Types, without the bound on the length of a history.                    *)
Stages == {"idle", "locking space", "locking allocation", "minting", "deciding",
           "committing", "probing"}

CommandRecord == [op : Ops, parent : Seq(Ops)]
AllocationRecord == [space : Spaces, op : Ops]

Asked == [kind : Kinds \cup {"provision"}, space : Spaces, pid : Pids, op : Ops,
          parent : Seq(Ops), alloc : Allocations \cup {None}, mints : Nat]

WellAsked(m) ==
    /\ m \in Asked
    /\ m.kind = "provision" =>
          m.pid = Genesis /\ m.parent = <<>> /\ m.alloc \in Allocations
    /\ m.kind # "provision" => m.pid # Genesis

WellTyped ==
    /\ revisions \in [Spaces -> SUBSET Seq(Ops)]
    /\ head \in [Spaces -> Seq(Ops)]
    /\ receipts \in [Spaces -> [Pids -> CommandRecord \cup {None}]]
    /\ allocated \in [Allocations -> AllocationRecord \cup {None}]
    /\ spaceLock \in [Spaces -> Clients \cup {None}]
    /\ pc \in [Clients -> Stages]
    /\ call \in [Clients -> Asked \cup {None}]
    /\ \A c \in Clients :
          /\ pc[c] # "idle" => WellAsked(call[c])
          /\ pc[c] \in {"locking allocation", "minting"} => call[c].kind = "provision"
          /\ pc[c] = "probing" => call[c].kind \in {"publish", "prospect"}
    /\ \A t \in told : WellAsked(t.request)

(* Every step is one of these.                                             *)
ClientStep(c) ==
    CallPublish(c) \/ CallProvision(c) \/ Step(c) \/ CommitLost(c) \/ Abort(c)

(* The rows of a call are committed.                                       *)
Commits(c) == pc[c] = "committing" /\ ~KeyTaken(call[c]) /\ Commit(c)

LEMMA StepCommitsOrNot ==
    ASSUME NEW c \in Clients, ClientStep(c)
    PROVE  Commits(c) \/ UNCHANGED tables
BY DEF ClientStep, Commits, CallPublish, CallProvision, Begin, Step, Lock, LockSpace, LockAllocation,
       MintSpace, Replay, IdempotencyConflict, StaleParent, Write, CommitAnswered, ProbeFound,
       ProbeMismatch, ProbeFailed, ProvisionReplay, ProvisionConflict, MintCollision, CommitLost, Abort,
       tables

(* What an operation publishes is typed.                                   *)
LEMMA CommitTypes ==
    ASSUME WellTyped, NEW c \in Clients, Commits(c)
    PROVE  /\ revisions' \in [Spaces -> SUBSET Seq(Ops)]
           /\ head' \in [Spaces -> Seq(Ops)]
           /\ receipts' \in [Spaces -> [Pids -> CommandRecord \cup {None}]]
           /\ allocated' \in [Allocations -> AllocationRecord \cup {None}]
<1> DEFINE m == call[c]
<1>1. WellAsked(m)
  BY DEF WellTyped, Commits
<1>2. RevisionOf(m) \in Seq(Ops)
  BY <1>1, AppendProperties DEF WellAsked, Asked, RevisionOf
<1>3. Command(m) \in CommandRecord
  BY <1>1 DEF WellAsked, Asked, Command, CommandRecord
<1>4. revisions' \in [Spaces -> SUBSET Seq(Ops)] /\ head' \in [Spaces -> Seq(Ops)]
  BY <1>2 DEF WellTyped, Commits, Commit, Publish
<1>5. receipts' \in [Spaces -> [Pids -> CommandRecord \cup {None}]]
  BY <1>3 DEF WellTyped, Commits, Commit, Publish
<1>6. allocated' \in [Allocations -> AllocationRecord \cup {None}]
  BY <1>1 DEF WellTyped, Commits, Commit, AllocationRecord, WellAsked, Asked
<1> QED BY <1>4, <1>5, <1>6

LEMMA TableTypes ==
    ASSUME WellTyped, NEW c \in Clients, ClientStep(c)
    PROVE  /\ revisions' \in [Spaces -> SUBSET Seq(Ops)]
           /\ head' \in [Spaces -> Seq(Ops)]
           /\ receipts' \in [Spaces -> [Pids -> CommandRecord \cup {None}]]
           /\ allocated' \in [Allocations -> AllocationRecord \cup {None}]
<1>1. CASE Commits(c)
  BY <1>1, CommitTypes
<1>2. CASE UNCHANGED tables
  BY <1>2 DEF tables, WellTyped
<1> QED BY <1>1, <1>2, StepCommitsOrNot

LEMMA TypeInit == Init => WellTyped
<1> SUFFICES ASSUME Init PROVE WellTyped
  OBVIOUS
<1>1. <<>> \in Seq(Ops)
  BY EmptySeq
<1>2. head \in [Spaces -> Seq(Ops)]
  BY <1>1 DEF Init
<1> QED BY <1>2 DEF Init, WellTyped, Stages

(* What was told before, and one more answer to a well-typed call.         *)
LEMMA ToldTypes ==
    ASSUME WellTyped, NEW what, NEW m, WellAsked(m),
           told' = told \cup {[answer |-> what, request |-> m]}
    PROVE  \A t \in told' : WellAsked(t.request)
<1> SUFFICES ASSUME NEW t \in told' PROVE WellAsked(t.request)
  OBVIOUS
<1>1. CASE t \in told
  BY <1>1 DEF WellTyped
<1>2. CASE t = [answer |-> what, request |-> m]
  <2>1. t.request = m
    BY <1>2
  <2> QED BY <2>1
<1> QED BY <1>1, <1>2

(* An answered call: what it was is added to what was told.                *)
LEMMA AnswerTypes ==
    ASSUME WellTyped, NEW c \in Clients, NEW what, pc[c] # "idle", Answer(c, what)
    PROVE  /\ spaceLock' \in [Spaces -> Clients \cup {None}]
           /\ pc' \in [Clients -> Stages]
           /\ call' \in [Clients -> Asked \cup {None}]
           /\ \A d \in Clients : pc'[d] # "idle" => pc'[d] = pc[d] /\ call'[d] = call[d]
           /\ \A t \in told' : WellAsked(t.request)
<1>1. /\ told' = told \cup {[answer |-> what, request |-> call[c]]}
      /\ pc' = [pc EXCEPT ![c] = "idle"]
      /\ call' = [call EXCEPT ![c] = None]
      /\ spaceLock' = [s \in Spaces |-> IF spaceLock[s] = c THEN None ELSE spaceLock[s]]
  BY DEF Answer, Release
<1>2. WellAsked(call[c])
  BY DEF WellTyped
<1>3. \A t \in told' : WellAsked(t.request)
  BY <1>1, <1>2, ToldTypes
<1>4. spaceLock' \in [Spaces -> Clients \cup {None}]
  BY <1>1 DEF WellTyped
<1>5. pc' \in [Clients -> Stages] /\ call' \in [Clients -> Asked \cup {None}]
  BY <1>1 DEF WellTyped, Stages
<1>6. \A d \in Clients : pc'[d] # "idle" => pc'[d] = pc[d] /\ call'[d] = call[d]
  BY <1>1 DEF WellTyped
<1> QED BY <1>3, <1>4, <1>5, <1>6

LEMMA AnswerKeepsTypes ==
    ASSUME WellTyped, NEW c \in Clients, NEW what, pc[c] # "idle", ClientStep(c), Answer(c, what)
    PROVE  WellTyped'
BY TableTypes, AnswerTypes DEF WellTyped

(* The request of a client begins well typed.                              *)
LEMMA BeginTypes ==
    ASSUME WellTyped, NEW c \in Clients, ClientStep(c), NEW m, WellAsked(m),
           NEW stage \in Stages \ {"minting", "probing"}, Begin(c, m, stage),
           stage = "locking allocation" => m.kind = "provision"
    PROVE  WellTyped'
<1>1. /\ pc' = [pc EXCEPT ![c] = stage]
      /\ call' = [call EXCEPT ![c] = m]
      /\ UNCHANGED <<tables, locks, told>>
  BY DEF Begin
<1>2. m \in Asked
  BY DEF WellAsked
<1>3. pc' \in [Clients -> Stages] /\ call' \in [Clients -> Asked \cup {None}]
  BY <1>1, <1>2 DEF WellTyped
<1>4. \A d \in Clients :
        /\ pc'[d] # "idle" => WellAsked(call'[d])
        /\ pc'[d] \in {"locking allocation", "minting"} => call'[d].kind = "provision"
        /\ pc'[d] = "probing" => call'[d].kind \in {"publish", "prospect"}
  BY <1>1 DEF WellTyped
<1> QED BY <1>1, <1>3, <1>4, TableTypes DEF WellTyped, locks

LEMMA TypeStep ==
    ASSUME WellTyped, [Next]_vars
    PROVE  WellTyped'
<1>1. CASE UNCHANGED vars
  BY <1>1 DEF vars, tables, locks, WellTyped
<1>2. ASSUME NEW c \in Clients, CallPublish(c) PROVE WellTyped'
  <2>1. PICK q \in Requests : \E parent \in revisions[q.space] \cup {<<>>} :
          Begin(c, [kind |-> q.kind, space |-> q.space, pid |-> q.pid, op |-> q.op,
                    parent |-> parent, alloc |-> None, mints |-> 0], "locking space")
    BY <1>2 DEF CallPublish
  <2>2. PICK parent \in revisions[q.space] \cup {<<>>} :
          Begin(c, [kind |-> q.kind, space |-> q.space, pid |-> q.pid, op |-> q.op,
                    parent |-> parent, alloc |-> None, mints |-> 0], "locking space")
    BY <2>1
  <2>3. parent \in Seq(Ops)
    BY EmptySeq, SpacesAssumption DEF WellTyped
  <2> DEFINE m == [kind |-> q.kind, space |-> q.space, pid |-> q.pid, op |-> q.op,
                   parent |-> parent, alloc |-> None, mints |-> 0]
  <2>4. WellAsked(m)
    BY <2>3, SpacesAssumption DEF WellAsked, Asked, Kinds
  <2>5. ClientStep(c) /\ Begin(c, m, "locking space")
    BY <1>2, <2>2 DEF ClientStep
  <2>6. "locking space" \in Stages \ {"minting", "probing"}
    BY DEF Stages
  <2> HIDE DEF m
  <2> QED BY <2>4, <2>5, <2>6, BeginTypes
<1>3. ASSUME NEW c \in Clients, CallProvision(c) PROVE WellTyped'
  <2>1. PICK q \in Provisions, s \in Spaces :
          Begin(c, [kind |-> "provision", space |-> s, pid |-> Genesis, op |-> q.op,
                    parent |-> <<>>, alloc |-> q.alloc, mints |-> 1], "locking allocation")
    BY <1>3 DEF CallProvision
  <2> DEFINE m == [kind |-> "provision", space |-> s, pid |-> Genesis, op |-> q.op,
                   parent |-> <<>>, alloc |-> q.alloc, mints |-> 1]
  <2>2. WellAsked(m) /\ m.kind = "provision"
    BY EmptySeq, SpacesAssumption DEF WellAsked, Asked
  <2>3. ClientStep(c) /\ Begin(c, m, "locking allocation")
    BY <1>3, <2>1 DEF ClientStep
  <2>4. "locking allocation" \in Stages \ {"minting", "probing"}
    BY DEF Stages
  <2> HIDE DEF m
  <2> QED BY <2>2, <2>3, <2>4, BeginTypes
<1>4. ASSUME NEW c \in Clients, LockSpace(c) \/ MintSpace(c) \/ LockAllocation(c) \/ Write(c)
      PROVE  WellTyped'
  <2>1. /\ UNCHANGED <<tables, call, told>>
        /\ pc[c] # "idle"
        /\ \/ pc' = [pc EXCEPT ![c] = "deciding"]
           \/ pc' = [pc EXCEPT ![c] = "committing"]
           \/ pc' = [pc EXCEPT ![c] = "minting"] /\ pc[c] = "locking allocation"
    BY <1>4 DEF LockSpace, MintSpace, LockAllocation, Write
  <2>2. spaceLock' = spaceLock \/ \E s : spaceLock' = [spaceLock EXCEPT ![s] = c]
    BY <1>4 DEF LockSpace, MintSpace, LockAllocation, Write, AcquireSpace, locks
  <2>3. spaceLock' \in [Spaces -> Clients \cup {None}]
    BY <2>2 DEF WellTyped
  <2>4. \A d \in Clients :
          /\ pc'[d] # "idle" => WellAsked(call'[d])
          /\ pc'[d] \in {"locking allocation", "minting"} => call'[d].kind = "provision"
          /\ pc'[d] = "probing" => call'[d].kind \in {"publish", "prospect"}
    BY <2>1 DEF WellTyped
  <2> QED BY <2>1, <2>3, <2>4 DEF WellTyped, tables, Stages
<1>5. ASSUME NEW c \in Clients, NEW what, pc[c] # "idle", ClientStep(c), Answer(c, what)
      PROVE  WellTyped'
  BY <1>5, AnswerKeepsTypes
<1>6. ASSUME NEW c \in Clients,
             \/ Replay(c) \/ IdempotencyConflict(c) \/ StaleParent(c) \/ CommitAnswered(c)
             \/ ProbeFound(c) \/ ProbeMismatch(c) \/ ProbeFailed(c) \/ ProvisionConflict(c)
      PROVE  WellTyped'
  <2>1. pc[c] # "idle" /\ \E what : Answer(c, what)
    BY <1>6 DEF Replay, IdempotencyConflict, StaleParent, CommitAnswered, ProbeFound, ProbeMismatch,
                ProbeFailed, ProvisionConflict
  <2>2. ClientStep(c)
    BY <1>6 DEF ClientStep, Step
  <2> QED BY <2>1, <2>2, <1>5
<1>7. ASSUME NEW c \in Clients, CommitLost(c) \/ Abort(c)
      PROVE  WellTyped'
  <2>1. pc[c] # "idle" /\ OutcomeUnknown(c) /\ ClientStep(c)
    BY <1>7 DEF CommitLost, Abort, ClientStep
  <2>2. CASE Answer(c, "unknown")
    BY <2>1, <2>2, <1>5
  <2>3. CASE /\ Probes(c)
             /\ pc' = [pc EXCEPT ![c] = "probing"]
             /\ Release(c)
             /\ UNCHANGED <<call, told, calls>>
    <3>1. /\ spaceLock' \in [Spaces -> Clients \cup {None}]
          /\ pc' \in [Clients -> Stages]
      BY <2>3 DEF Release, WellTyped, Stages
    <3>2. \A d \in Clients :
            /\ pc'[d] # "idle" => WellAsked(call'[d])
            /\ pc'[d] \in {"locking allocation", "minting"} => call'[d].kind = "provision"
            /\ pc'[d] = "probing" => call'[d].kind \in {"publish", "prospect"}
      BY <2>1, <2>3 DEF WellTyped, Probes
    <3> QED BY <2>1, <2>3, <3>1, <3>2, TableTypes DEF WellTyped
  <2> QED BY <2>1, <2>2, <2>3 DEF OutcomeUnknown
<1>8. ASSUME NEW c \in Clients, ProvisionReplay(c)
      PROVE  WellTyped'
  <2> DEFINE m == [call[c] EXCEPT !.space = Allocated(c).space]
  <2>1. /\ told' = told \cup {[answer |-> "receipt", request |-> m]}
        /\ pc' = [pc EXCEPT ![c] = "idle"]
        /\ call' = [call EXCEPT ![c] = None]
        /\ spaceLock' = [s \in Spaces |-> IF spaceLock[s] = c THEN None ELSE spaceLock[s]]
        /\ UNCHANGED tables
    BY <1>8 DEF ProvisionReplay, Release
  <2>2. WellAsked(call[c]) /\ Allocated(c) \in AllocationRecord
    BY <1>8 DEF ProvisionReplay, Allocated, WellTyped, WellAsked, Asked
  <2>3. WellAsked(m)
    BY <2>2 DEF WellAsked, Asked, AllocationRecord
  <2>4. \A t \in told' : WellAsked(t.request)
    <3> HIDE DEF m
    <3> QED BY <2>1, <2>3, ToldTypes
  <2> HIDE DEF m
  <2> QED BY <2>1, <2>4 DEF WellTyped, tables, Stages
<1>9. ASSUME NEW c \in Clients, MintCollision(c)
      PROVE  WellTyped'
  <2>1. CASE Answer(c, "exhausted")
    BY <1>9, <2>1, <1>5 DEF MintCollision, ClientStep, Step
  <2>2. ASSUME NEW s \in Spaces,
               /\ call' = [call EXCEPT ![c].space = s, ![c].mints = @ + 1]
               /\ pc' = [pc EXCEPT ![c] = "locking allocation"]
               /\ Release(c)
               /\ UNCHANGED <<told, calls>>
        PROVE  WellTyped'
    <3>1. pc[c] = "minting" /\ UNCHANGED tables
      BY <1>9 DEF MintCollision
    <3>2. WellAsked(call[c]) /\ call[c].kind = "provision"
      BY <3>1 DEF WellTyped
    <3>3. call'[c] = [call[c] EXCEPT !.space = s, !.mints = @ + 1]
      BY <2>2 DEF WellTyped
    <3>4. WellAsked(call'[c]) /\ call'[c].kind = "provision"
      <4> DEFINE m == call[c]
      <4>1. m \in Asked
        BY <3>2 DEF WellAsked
      <4>2. call'[c] = [kind |-> m.kind, space |-> s, pid |-> m.pid, op |-> m.op,
                        parent |-> m.parent, alloc |-> m.alloc, mints |-> m.mints + 1]
        BY <3>3, <4>1 DEF Asked
      <4> QED BY <3>2, <4>1, <4>2 DEF WellAsked, Asked
    <3>5. \A d \in Clients : d # c => call'[d] = call[d] /\ pc'[d] = pc[d]
      BY <2>2 DEF WellTyped
    <3>6. call' \in [Clients -> Asked \cup {None}]
      BY <2>2, <3>4, <3>5 DEF WellTyped, WellAsked
    <3>7. pc' \in [Clients -> Stages] /\ pc'[c] = "locking allocation"
      BY <2>2 DEF WellTyped, Stages
    <3>8. spaceLock' \in [Spaces -> Clients \cup {None}]
      BY <2>2 DEF Release, WellTyped
    <3> QED BY <2>2, <3>1, <3>4, <3>5, <3>6, <3>7, <3>8 DEF WellTyped, tables
  <2> QED BY <1>9, <2>1, <2>2 DEF MintCollision
<1> QED BY <1>1, <1>2, <1>3, <1>4, <1>6, <1>7, <1>8, <1>9 DEF Next, Step, Lock
-----------------------------------------------------------------------------
(* Sequences that grow at their end.                                       *)
AncestorsOf(h) == {SubSeq(h, 1, n) : n \in 1..Len(h)}

LEMMA PrefixOfAppend ==
    ASSUME NEW S, NEW h \in Seq(S), NEW e \in S, NEW n \in 1..Len(h)
    PROVE  SubSeq(Append(h, e), 1, n) = SubSeq(h, 1, n)
<1> DEFINE g == Append(h, e)
<1>1. /\ g \in Seq(S)
      /\ Len(g) = Len(h) + 1
      /\ \A i \in 1..Len(h) : g[i] = h[i]
  BY AppendProperties
<1>2. Len(h) \in Nat /\ \A i \in 1..n : h[i] \in S /\ g[i] = h[i]
  BY <1>1, LenProperties, ElementOfSeq
<1> HIDE DEF g
<1>3. /\ SubSeq(g, 1, n) \in Seq(S) /\ SubSeq(h, 1, n) \in Seq(S)
      /\ Len(SubSeq(g, 1, n)) = n /\ Len(SubSeq(h, 1, n)) = n
      /\ \A i \in 1..n : SubSeq(g, 1, n)[i] = g[i] /\ SubSeq(h, 1, n)[i] = h[i]
  BY <1>2, SubSeqProperties
<1>4. SubSeq(g, 1, n) = SubSeq(h, 1, n)
  BY <1>2, <1>3, SeqEqual
<1> QED BY <1>4 DEF g

LEMMA PrefixesOfAppend ==
    ASSUME NEW S, NEW h \in Seq(S), NEW e \in S
    PROVE  AncestorsOf(Append(h, e)) = AncestorsOf(h) \cup {Append(h, e)}
<1> DEFINE g == Append(h, e)
<1>1. g \in Seq(S) /\ Len(g) = Len(h) + 1 /\ Len(h) \in Nat
  BY AppendProperties, LenProperties
<1>2. SubSeq(g, 1, Len(g)) = g
  BY <1>1, SubSeqFull
<1>3. \A n \in 1..Len(h) : SubSeq(g, 1, n) = SubSeq(h, 1, n)
  BY PrefixOfAppend
<1> HIDE DEF g
<1>4. \A n \in 1..Len(g) : n \in 1..Len(h) \/ n = Len(g)
  BY <1>1
<1>5. 1..Len(h) \subseteq 1..Len(g) /\ Len(g) \in 1..Len(g)
  BY <1>1
<1>6. AncestorsOf(g) = AncestorsOf(h) \cup {g}
  BY <1>2, <1>3, <1>4, <1>5 DEF AncestorsOf
<1> QED BY <1>6 DEF g

LEMMA PrefixIsShorter ==
    ASSUME NEW S, NEW h \in Seq(S), NEW p \in AncestorsOf(h) \cup {<<>>}, p # h
    PROVE  Len(p) < Len(h)
<1>1. CASE p = <<>>
  BY <1>1, EmptySeq, LenProperties
<1>2. ASSUME NEW n \in 1..Len(h), p = SubSeq(h, 1, n)
      PROVE  Len(p) < Len(h)
  <2>1. n # Len(h) /\ Len(h) \in Nat
    BY <1>2, SubSeqFull, LenProperties
  <2>2. \A i \in 1..n : h[i] \in S
    BY <2>1, ElementOfSeq
  <2>3. Len(p) = n
    BY <1>2, <2>2, SubSeqProperties
  <2> QED BY <2>1, <2>3
<1> QED BY <1>1, <1>2 DEF AncestorsOf

-----------------------------------------------------------------------------
(* What a commit does to the rows, and what no step ever does to them.     *)
LEMMA CommitOf ==
    ASSUME WellTyped, NEW c \in Clients, Commits(c), NEW m, m = call[c]
    PROVE  WellAsked(m) /\ m \in Asked /\ ~KeyTaken(m) /\ Publish(m)
BY DEF WellTyped, Commits, WellAsked, Commit

LEMMA CommitHead ==
    ASSUME WellTyped, NEW c \in Clients, Commits(c), NEW m, m = call[c]
    PROVE  /\ revisions'[m.space] = revisions[m.space] \cup {RevisionOf(m)}
           /\ head'[m.space] = RevisionOf(m)
           /\ \A s \in Spaces : s # m.space => revisions'[s] = revisions[s] /\ head'[s] = head[s]
<1>1. WellAsked(m) /\ m \in Asked /\ ~KeyTaken(m) /\ Publish(m)
  BY CommitOf
<1> QED BY <1>1 DEF Publish, WellTyped, Asked

LEMMA CommitReceipt ==
    ASSUME WellTyped, NEW c \in Clients, Commits(c), NEW m, m = call[c]
    PROVE  /\ m.kind # "raw" =>
                receipts[m.space][m.pid] = None /\ receipts'[m.space][m.pid] = Command(m)
           /\ \A s \in Spaces, p \in Pids :
                m.kind = "raw" \/ s # m.space \/ p # m.pid => receipts'[s][p] = receipts[s][p]
<1>1. WellAsked(m) /\ m \in Asked /\ ~KeyTaken(m) /\ Publish(m)
  BY CommitOf
<1> QED BY <1>1 DEF Publish, WellTyped, Asked, KeyTaken

LEMMA CommitResult ==
    ASSUME WellTyped, NEW c \in Clients, Commits(c), NEW m, m = call[c]
    PROVE  \A s \in Spaces, p \in Pids :
             <<s, p>> \in results' <=>
               <<s, p>> \in results \/ (m.kind = "prospect" /\ s = m.space /\ p = m.pid)
<1>1. WellAsked(m) /\ m \in Asked /\ ~KeyTaken(m) /\ Publish(m)
  BY CommitOf
<1> QED BY <1>1 DEF Publish

LEMMA CommitAllocation ==
    ASSUME WellTyped, NEW c \in Clients, Commits(c), NEW m, m = call[c]
    PROVE  /\ m.kind = "provision" =>
                /\ allocated[m.alloc] = None
                /\ allocated'[m.alloc] = [space |-> m.space, op |-> m.op]
           /\ \A a \in Allocations :
                m.kind # "provision" \/ a # m.alloc => allocated'[a] = allocated[a]
<1>1. WellAsked(m) /\ m \in Asked /\ ~KeyTaken(m) /\ Publish(m)
  BY CommitOf
<1> QED BY <1>1 DEF Commits, Commit, WellTyped, WellAsked, Asked, KeyTaken

(* Revisions stay, and a row stored under a key is never changed.          *)
LEMMA RowsStay ==
    ASSUME WellTyped, NEW c \in Clients, ClientStep(c)
    PROVE  /\ \A s \in Spaces : revisions[s] \subseteq revisions'[s]
           /\ \A s \in Spaces, p \in Pids :
                /\ <<s, p>> \in results => <<s, p>> \in results'
                /\ receipts[s][p] # None =>
                     /\ receipts'[s][p] = receipts[s][p]
                     /\ <<s, p>> \in results' => <<s, p>> \in results
           /\ \A a \in Allocations : allocated[a] # None => allocated'[a] = allocated[a]
<1>1. CASE UNCHANGED tables
  BY <1>1 DEF tables
<1>2. CASE Commits(c)
  <2>1. PICK m : m = call[c]
    OBVIOUS
  <2>2. \A s \in Spaces : revisions[s] \subseteq revisions'[s]
    BY <1>2, <2>1, CommitHead
  <2>5. \A s \in Spaces, p \in Pids :
          m.kind = "raw" \/ s # m.space \/ p # m.pid => receipts'[s][p] = receipts[s][p]
    BY <1>2, <2>1, CommitReceipt
  <2>6. \A s \in Spaces, p \in Pids :
          <<s, p>> \in results' <=>
            <<s, p>> \in results \/ (m.kind = "prospect" /\ s = m.space /\ p = m.pid)
    BY <1>2, <2>1, CommitResult
  <2>3. ASSUME NEW s \in Spaces, NEW p \in Pids
        PROVE  /\ <<s, p>> \in results => <<s, p>> \in results'
               /\ receipts[s][p] # None =>
                    /\ receipts'[s][p] = receipts[s][p]
                    /\ <<s, p>> \in results' => <<s, p>> \in results
    <3>1. <<s, p>> \in results' <=>
            <<s, p>> \in results \/ (m.kind = "prospect" /\ s = m.space /\ p = m.pid)
      BY <2>6
    <3>2. CASE m.kind # "raw" /\ s = m.space /\ p = m.pid
      BY <1>2, <2>1, <3>1, <3>2, CommitReceipt
    <3>3. CASE m.kind = "raw" \/ s # m.space \/ p # m.pid
      <4>1. receipts'[s][p] = receipts[s][p]
        BY <2>5, <3>3
      <4> QED BY <3>1, <3>3, <4>1
    <3> QED BY <3>2, <3>3
  <2>4. \A a \in Allocations : allocated[a] # None => allocated'[a] = allocated[a]
    BY <1>2, <2>1, CommitAllocation, ZenonT(60)
  <2> QED BY <2>2, <2>3, <2>4
<1> QED BY <1>1, <1>2, StepCommitsOrNot

-----------------------------------------------------------------------------
(* A publication decides and commits under the lock of its space, so that  *)
(* what it found in the head is still there when it commits.               *)
Placed ==
    \A c \in Clients :
        /\ pc[c] \in {"deciding", "committing"} => spaceLock[call[c].space] = c
        /\ pc[c] = "committing" => head[call[c].space] = call[c].parent

(* A command is built on a stored revision, or on none.                    *)
KnownParents ==
    \A c \in Clients :
        pc[c] # "idle" => call[c].parent \in revisions[call[c].space] \cup {<<>>}

(* What the other clients do and hold is left alone.                       *)
LEMMA OthersKeep ==
    ASSUME WellTyped, NEW c \in Clients, ClientStep(c), NEW d \in Clients, d # c
    PROVE  /\ pc'[d] = pc[d] /\ call'[d] = call[d]
           /\ \A s \in Spaces : spaceLock[s] = d => spaceLock'[s] = d
<1>1. d # None
  BY SpacesAssumption
<1>2. pc'[d] = pc[d]
  BY DEF ClientStep, CallPublish, CallProvision, Begin, Step, Lock, LockSpace, LockAllocation,
         MintSpace, Replay, IdempotencyConflict, StaleParent, Write, CommitAnswered, ProbeFound,
         ProbeMismatch, ProbeFailed, ProvisionReplay, ProvisionConflict, MintCollision, CommitLost,
         Abort, OutcomeUnknown, Answer, WellTyped
<1>3. call'[d] = call[d]
  BY DEF ClientStep, CallPublish, CallProvision, Begin, Step, Lock, LockSpace, LockAllocation,
         MintSpace, Replay, IdempotencyConflict, StaleParent, Write, CommitAnswered, ProbeFound,
         ProbeMismatch, ProbeFailed, ProvisionReplay, ProvisionConflict, MintCollision, CommitLost,
         Abort, OutcomeUnknown, Answer, WellTyped
<1>4. ASSUME NEW s \in Spaces, spaceLock[s] = d PROVE spaceLock'[s] = d
  BY <1>1, <1>4
     DEF ClientStep, CallPublish, CallProvision, Begin, Step, Lock, LockSpace, LockAllocation,
         MintSpace, Replay, IdempotencyConflict, StaleParent, Write, CommitAnswered, ProbeFound,
         ProbeMismatch, ProbeFailed, ProvisionReplay, ProvisionConflict, MintCollision, CommitLost,
         Abort, OutcomeUnknown, Answer, Release, AcquireSpace, AcquireAllocation, locks, WellTyped
<1> QED BY <1>2, <1>3, <1>4

(* A client comes to decide with the lock, and to commit by comparing.     *)
LEMMA OwnMove ==
    ASSUME WellTyped, NEW c \in Clients, ClientStep(c), pc'[c] \in {"deciding", "committing"}
    PROVE  /\ call'[c] = call[c] /\ UNCHANGED tables
           /\ \/ pc'[c] = "deciding" /\ spaceLock'[call[c].space] = c
              \/ /\ pc[c] = "deciding" /\ head[call[c].space] = call[c].parent
                 /\ UNCHANGED spaceLock
<1>2. CASE LockSpace(c) \/ MintSpace(c)
  <2>1. call[c].space \in Spaces
    BY <1>2 DEF LockSpace, MintSpace, WellTyped, WellAsked, Asked
  <2> QED BY <1>2, <2>1 DEF LockSpace, MintSpace, AcquireSpace, WellTyped
<1>3. CASE Write(c)
  BY <1>3 DEF Write, tables, locks
<1>4. CASE ~(LockSpace(c) \/ MintSpace(c) \/ Write(c))
  <2>1. \/ pc' = [pc EXCEPT ![c] = "idle"]
        \/ pc' = [pc EXCEPT ![c] = "probing"]
        \/ pc' = [pc EXCEPT ![c] = "minting"]
        \/ pc' = [pc EXCEPT ![c] = "locking space"]
        \/ pc' = [pc EXCEPT ![c] = "locking allocation"]
    BY <1>4
       DEF ClientStep, CallPublish, CallProvision, Begin, Step, Lock, LockAllocation, Replay,
           IdempotencyConflict, StaleParent, CommitAnswered, ProbeFound, ProbeMismatch,
           ProbeFailed, ProvisionReplay, ProvisionConflict, MintCollision, CommitLost, Abort,
           OutcomeUnknown, Answer
  <2>2. pc'[c] \in {"idle", "probing", "minting", "locking space", "locking allocation"}
    BY <2>1 DEF WellTyped
  <2> QED BY <2>2
<1> QED BY <1>2, <1>3, <1>4
LEMMA PlacedStep ==
    ASSUME WellTyped, Placed, NEW c \in Clients, ClientStep(c)
    PROVE  Placed'
<1> SUFFICES ASSUME NEW d \in Clients
             PROVE  /\ pc'[d] \in {"deciding", "committing"} => spaceLock'[call'[d].space] = d
                    /\ pc'[d] = "committing" => head'[call'[d].space] = call'[d].parent
  BY DEF Placed
<1>1. CASE d = c
  <2>1. ASSUME pc'[c] \in {"deciding", "committing"}
        PROVE  spaceLock'[call'[c].space] = c
    BY <2>1, OwnMove DEF Placed
  <2>2. ASSUME pc'[c] = "committing"
        PROVE  head'[call'[c].space] = call'[c].parent
    BY <2>2, OwnMove DEF tables
  <2> QED BY <1>1, <2>1, <2>2
<1>2. CASE d # c
  <2>1. pc'[d] = pc[d] /\ call'[d] = call[d]
    BY <1>2, OthersKeep
  <2>2. ASSUME pc[d] \in {"deciding", "committing"}
        PROVE  spaceLock'[call[d].space] = d
    <3>1. spaceLock[call[d].space] = d /\ call[d].space \in Spaces
      BY <2>2 DEF Placed, WellTyped, WellAsked, Asked
    <3> QED BY <1>2, <3>1, OthersKeep
  <2>3. ASSUME pc[d] = "committing"
        PROVE  head'[call[d].space] = head[call[d].space]
    <3>1. CASE Commits(c)
      <4>1. spaceLock[call[c].space] = c /\ spaceLock[call[d].space] = d
        BY <2>3, <3>1 DEF Commits, Placed
      <4>2. call[d].space # call[c].space /\ call[d].space \in Spaces
        BY <1>2, <2>3, <4>1 DEF WellTyped, WellAsked, Asked
      <4> QED BY <3>1, <4>2, CommitHead
    <3>2. CASE UNCHANGED tables
      BY <3>2 DEF tables
    <3> QED BY <3>1, <3>2, StepCommitsOrNot
  <2> QED BY <2>1, <2>2, <2>3 DEF Placed
<1> QED BY <1>1, <1>2

(* A call keeps its space and parent, unless it begins or is minting.      *)
LEMMA CallKept ==
    ASSUME WellTyped, NEW c \in Clients, ClientStep(c), pc'[c] # "idle"
    PROVE  \/ pc[c] # "idle" /\ call'[c] = call[c]
           \/ /\ \E s \in Spaces : call'[c].space = s
              /\ call'[c].parent \in revisions[call'[c].space] \cup {<<>>}
<1>1. ASSUME NEW m, NEW stage, Begin(c, m, stage), m.space \in Spaces,
             m.parent \in revisions[m.space] \cup {<<>>}
      PROVE  /\ \E s \in Spaces : call'[c].space = s
             /\ call'[c].parent \in revisions[call'[c].space] \cup {<<>>}
  BY <1>1 DEF Begin, WellTyped
<1>2. CASE CallPublish(c)
  <2>1. PICK q \in Requests : \E parent \in revisions[q.space] \cup {<<>>} :
          Begin(c, [kind |-> q.kind, space |-> q.space, pid |-> q.pid, op |-> q.op,
                    parent |-> parent, alloc |-> None, mints |-> 0], "locking space")
    BY <1>2 DEF CallPublish
  <2>2. q.space \in Spaces
    BY SpacesAssumption
  <2> QED BY <1>1, <2>1, <2>2
<1>3. CASE CallProvision(c)
  BY <1>1, <1>3 DEF CallProvision
<1>4. CASE MintCollision(c)
  <2>1. ~Answer(c, "exhausted")
    BY DEF Answer, WellTyped
  <2>2. PICK s \in Spaces : call' = [call EXCEPT ![c].space = s, ![c].mints = @ + 1]
    BY <1>4, <2>1 DEF MintCollision
  <2>3. call[c] \in Asked /\ call[c].parent = <<>>
    BY <1>4 DEF MintCollision, WellTyped, WellAsked
  <2>4. call'[c] = [call[c] EXCEPT !.space = s, !.mints = @ + 1]
    BY <2>2 DEF WellTyped
  <2>5. call'[c].space = s /\ call'[c].parent = <<>>
    <3> DEFINE m == call[c]
    <3>1. call'[c] = [kind |-> m.kind, space |-> s, pid |-> m.pid, op |-> m.op,
                      parent |-> m.parent, alloc |-> m.alloc, mints |-> m.mints + 1]
      BY <2>3, <2>4 DEF Asked
    <3> QED BY <2>3, <3>1
  <2> QED BY <2>5
<1>5. ASSUME NEW what, Answer(c, what) PROVE FALSE
  BY <1>5 DEF Answer, WellTyped
<1>6. CASE Abort(c) \/ CommitLost(c)
  <2>1. call'[c] = call[c]
    BY <1>5, <1>6 DEF Abort, CommitLost, OutcomeUnknown
  <2> QED BY <1>6, <2>1 DEF Abort, CommitLost
<1>7. CASE ProvisionReplay(c)
  BY <1>7 DEF ProvisionReplay, WellTyped
<1>8. CASE Lock(c) \/ Write(c)
  BY <1>8 DEF Lock, LockSpace, LockAllocation, MintSpace, Write
<1>9. CASE \/ Replay(c) \/ IdempotencyConflict(c) \/ StaleParent(c) \/ CommitAnswered(c)
           \/ ProbeFound(c) \/ ProbeMismatch(c) \/ ProbeFailed(c) \/ ProvisionConflict(c)
  BY <1>5, <1>9 DEF Replay, IdempotencyConflict, StaleParent, CommitAnswered, ProbeFound,
                    ProbeMismatch, ProbeFailed, ProvisionConflict
<1> QED BY <1>2, <1>3, <1>4, <1>6, <1>7, <1>8, <1>9 DEF ClientStep, Step

LEMMA KnownParentsStep ==
    ASSUME WellTyped, KnownParents, NEW c \in Clients, ClientStep(c)
    PROVE  KnownParents'
<1> SUFFICES ASSUME NEW d \in Clients, pc'[d] # "idle"
             PROVE  call'[d].parent \in revisions'[call'[d].space] \cup {<<>>}
  BY DEF KnownParents
<1>1. CASE pc[d] # "idle" /\ call'[d] = call[d]
  <2>1. call[d].parent \in revisions[call[d].space] \cup {<<>>} /\ call[d].space \in Spaces
    BY <1>1 DEF KnownParents, WellTyped, WellAsked, Asked
  <2> QED BY <1>1, <2>1, RowsStay
<1>2. CASE /\ \E s \in Spaces : call'[d].space = s
           /\ call'[d].parent \in revisions[call'[d].space] \cup {<<>>}
  BY <1>2, RowsStay
<1>3. CASE d = c
  BY <1>1, <1>2, <1>3, CallKept
<1>4. CASE d # c
  BY <1>1, <1>4, OthersKeep
<1> QED BY <1>3, <1>4

(* A commit adds one revision after the head, which it compared.           *)
LEMMA LineStep ==
    ASSUME WellTyped, Placed, LinearHistory, NEW c \in Clients, ClientStep(c)
    PROVE  LinearHistory'
<1>1. CASE UNCHANGED tables
  BY <1>1 DEF tables, LinearHistory
<1>2. CASE Commits(c)
  <2>1. PICK m : m = call[c]
    OBVIOUS
  <2>2. /\ WellAsked(m)
        /\ m.space \in Spaces /\ m.op \in Ops
        /\ head[m.space] = m.parent /\ head[m.space] \in Seq(Ops)
    BY <1>2, <2>1 DEF Commits, Placed, WellTyped, WellAsked, Asked
  <2>3. /\ revisions'[m.space] = revisions[m.space] \cup {RevisionOf(m)}
        /\ head'[m.space] = RevisionOf(m)
        /\ \A s \in Spaces : s # m.space => revisions'[s] = revisions[s] /\ head'[s] = head[s]
    BY <1>2, <2>1, CommitHead
  <2>4. RevisionOf(m) = Append(head[m.space], m.op)
    BY <2>2 DEF RevisionOf
  <2>5. revisions[m.space] = AncestorsOf(head[m.space])
    BY <2>2 DEF LinearHistory, AncestorsOf
  <2>6. revisions'[m.space] = AncestorsOf(head'[m.space])
    BY <2>2, <2>3, <2>4, <2>5, PrefixesOfAppend
  <2>7. \A s \in Spaces : revisions'[s] = AncestorsOf(head'[s])
    BY <2>3, <2>6 DEF LinearHistory, AncestorsOf
  <2> QED BY <2>7 DEF LinearHistory, AncestorsOf
<1> QED BY <1>1, <1>2, StepCommitsOrNot
-----------------------------------------------------------------------------
(* A row is a row.                                                         *)
LEMMA RowIsNotNone ==
    ASSUME NEW o \in Ops
    PROVE  /\ \A parent \in Seq(Ops) : [op |-> o, parent |-> parent] # None
           /\ \A s \in Spaces : [space |-> s, op |-> o] # None
<1>1. ASSUME NEW parent \in Seq(Ops) PROVE [op |-> o, parent |-> parent] # None
  <2>1. [op |-> o, parent |-> parent] \in [op : Ops, parent : Seq(Ops)]
    OBVIOUS
  <2>2. None \notin [op : Ops, parent : Seq(Ops)]
    BY SpacesAssumption, Zenon
  <2> QED BY <2>1, <2>2, Zenon
<1>2. ASSUME NEW s \in Spaces PROVE [space |-> s, op |-> o] # None
  <2>1. [space |-> s, op |-> o] \in [space : Spaces, op : Ops]
    OBVIOUS
  <2>2. None \notin [space : Spaces, op : Ops]
    BY SpacesAssumption, Zenon
  <2> QED BY <2>1, <2>2, Zenon
<1> QED BY <1>1, <1>2

(* A receipt's revision is stored, and an allocated space began with the   *)
(* genesis of its allocation.                                              *)
Grounded ==
    /\ \A s \in Spaces, p \in Pids :
         receipts[s][p] # None =>
           Append(receipts[s][p].parent, receipts[s][p].op) \in revisions[s]
    /\ \A a \in Allocations :
         allocated[a] # None =>
           receipts[allocated[a].space][Genesis] = [op |-> allocated[a].op, parent |-> <<>>]

LEMMA GroundedStep ==
    ASSUME WellTyped, Grounded, NEW c \in Clients, ClientStep(c)
    PROVE  Grounded'
<1>1. CASE UNCHANGED tables
  BY <1>1 DEF tables, Grounded
<1>2. CASE Commits(c)
  <2>1. PICK m : m = call[c]
    OBVIOUS
  <2>2. WellAsked(m) /\ m \in Asked
    BY <1>2, <2>1, CommitOf
  <2>3. m.space \in Spaces /\ m.pid \in Pids
    BY <2>2 DEF Asked
  <2>4. ASSUME NEW s \in Spaces, NEW p \in Pids, receipts'[s][p] # None
        PROVE  Append(receipts'[s][p].parent, receipts'[s][p].op) \in revisions'[s]
    <3>1. CASE receipts[s][p] # None
      BY <2>4, <3>1, RowsStay DEF Grounded
    <3>2. CASE receipts[s][p] = None
      <4>1. m.kind # "raw" /\ s = m.space /\ p = m.pid
        BY <1>2, <2>1, <2>4, <3>2, CommitReceipt
      <4>2. receipts'[s][p] = Command(m)
        BY <1>2, <2>1, <4>1, CommitReceipt
      <4>3. RevisionOf(m) \in revisions'[s]
        BY <1>2, <2>1, <4>1, CommitHead
      <4> QED BY <4>2, <4>3 DEF Command, RevisionOf
    <3> QED BY <3>1, <3>2
  <2>6. \A a \in Allocations :
          m.kind # "provision" \/ a # m.alloc => allocated'[a] = allocated[a]
    BY <1>2, <2>1, CommitAllocation, ZenonT(60)
  <2>5. ASSUME NEW a \in Allocations, allocated'[a] # None
        PROVE  receipts'[allocated'[a].space][Genesis]
                 = [op |-> allocated'[a].op, parent |-> <<>>]
    <3>1. CASE allocated[a] # None
      <4>1. allocated'[a] = allocated[a] /\ allocated[a] \in AllocationRecord
        BY <3>1, RowsStay DEF WellTyped
      <4>2. allocated[a].space \in Spaces /\ Genesis \in Pids
        BY <4>1, SpacesAssumption DEF AllocationRecord
      <4>3. receipts[allocated[a].space][Genesis] = [op |-> allocated[a].op, parent |-> <<>>]
        BY <3>1 DEF Grounded
      <4>4. allocated[a].op \in Ops /\ <<>> \in Seq(Ops)
        BY <4>1, EmptySeq DEF AllocationRecord
      <4>5. receipts[allocated[a].space][Genesis] # None
        BY <4>3, <4>4, RowIsNotNone
      <4> QED BY <4>1, <4>2, <4>3, <4>5, RowsStay
    <3>2. CASE allocated[a] = None
      <4>1. m.kind = "provision" /\ a = m.alloc
        BY <2>5, <2>6, <3>2
      <4>2. allocated'[a] = [space |-> m.space, op |-> m.op]
        BY <1>2, <2>1, <4>1, CommitAllocation
      <4>3. m.pid = Genesis /\ m.parent = <<>>
        BY <2>2, <4>1 DEF WellAsked
      <4>4. receipts'[m.space][m.pid] = Command(m)
        BY <1>2, <2>1, <4>1, CommitReceipt
      <4> QED BY <4>2, <4>3, <4>4 DEF Command
    <3> QED BY <3>1, <3>2
  <2> QED BY <2>4, <2>5 DEF Grounded
<1> QED BY <1>1, <1>2, StepCommitsOrNot

-----------------------------------------------------------------------------
(* What a client is told.                                                  *)
Publishes(m) == m.kind \in {"publish", "prospect"}

Truthful(m) ==
    /\ RevisionOf(m) \in revisions[m.space]
    /\ Publishes(m) =>
         /\ receipts[m.space][m.pid] = Command(m)
         /\ m.kind = "prospect" => <<m.space, m.pid>> \in results
    /\ m.kind = "provision" =>
         /\ allocated[m.alloc] = [space |-> m.space, op |-> m.op]
         /\ receipts[m.space][Genesis] = [op |-> m.op, parent |-> <<>>]

(* A command that cannot be recorded any more: its id is taken, or its     *)
(* parent is behind the head.                                              *)
Refused(m) ==
    /\ ~Recorded(m)
    /\ receipts[m.space][m.pid] # None \/ Len(m.parent) < Len(head[m.space])

RefusedForGood ==
    \A t \in told :
        t.answer \in {"stale", "conflict"} /\ Publishes(t.request) => Refused(t.request)

LEMMA TruthfulAsStated == ReceiptsAreTrue <=> \A t \in told : t.answer = "receipt" => Truthful(t.request)
BY DEF ReceiptsAreTrue, Truthful, Publishes

LEMMA RefusedAsStated == RefusedForGood => RefusalsAreFinal
BY DEF RefusedForGood, Refused, Recorded, RefusalsAreFinal, Publishes

(* The rows behind a receipt stay.                                         *)
LEMMA TruthfulStays ==
    ASSUME WellTyped, NEW c \in Clients, ClientStep(c), NEW m, WellAsked(m), Truthful(m)
    PROVE  Truthful(m)'
<1>1. /\ m.space \in Spaces /\ m.pid \in Pids /\ m.op \in Ops /\ m.parent \in Seq(Ops)
      /\ <<>> \in Seq(Ops) /\ Genesis \in Pids
      /\ m.kind = "provision" => m.alloc \in Allocations
  BY EmptySeq, SpacesAssumption DEF WellAsked, Asked
<1>2. Command(m) # None /\ [op |-> m.op, parent |-> <<>>] # None
      /\ [space |-> m.space, op |-> m.op] # None
  BY <1>1, RowIsNotNone DEF Command
<1>3. RevisionOf(m) \in revisions'[m.space]
  BY <1>1, RowsStay DEF Truthful
<1>4. Publishes(m) => /\ receipts'[m.space][m.pid] = Command(m)
                      /\ m.kind = "prospect" => <<m.space, m.pid>> \in results'
  BY <1>1, <1>2, RowsStay DEF Truthful
<1>5. m.kind = "provision" =>
        /\ allocated'[m.alloc] = [space |-> m.space, op |-> m.op]
        /\ receipts'[m.space][Genesis] = [op |-> m.op, parent |-> <<>>]
  BY <1>1, <1>2, RowsStay DEF Truthful
<1> QED BY <1>3, <1>4, <1>5 DEF Truthful, Publishes

(* Heads grow, so a command behind the head stays behind it.               *)
LEMMA RefusedStays ==
    ASSUME WellTyped, Placed, NEW c \in Clients, ClientStep(c),
           NEW q, WellAsked(q), Publishes(q), Refused(q)
    PROVE  Refused(q)'
<1>1. q.space \in Spaces /\ q.pid \in Pids /\ q.op \in Ops /\ q.parent \in Seq(Ops)
  BY DEF WellAsked, Asked
<1>2. CASE UNCHANGED tables
  BY <1>2 DEF Refused, Recorded, tables
<1>3. CASE receipts[q.space][q.pid] # None
  BY <1>1, <1>3, RowsStay DEF Refused, Recorded
<1>4. CASE Commits(c) /\ receipts[q.space][q.pid] = None
  <2>1. PICK m : m = call[c]
    OBVIOUS
  <2>2. /\ WellAsked(m) /\ m.space \in Spaces /\ m.op \in Ops
        /\ m.parent \in Seq(Ops) /\ head[m.space] = m.parent
    BY <1>4, <2>1 DEF Commits, Placed, WellTyped, WellAsked, Asked
  <2>3. Len(q.parent) < Len(head[q.space]) /\ Len(q.parent) \in Nat
    BY <1>1, <1>4, LenProperties DEF Refused
  <2>4. Len(RevisionOf(m)) = Len(m.parent) + 1 /\ Len(m.parent) \in Nat
    BY <2>2, AppendProperties, LenProperties DEF RevisionOf
  <2>5. Len(q.parent) < Len(head'[q.space])
    <3>1. CASE q.space = m.space
      <4>1. head'[q.space] = RevisionOf(m)
        BY <1>4, <2>1, <3>1, CommitHead
      <4> QED BY <2>2, <2>3, <2>4, <3>1, <4>1
    <3>2. CASE q.space # m.space
      <4>1. head'[q.space] = head[q.space]
        BY <1>1, <1>4, <2>1, <3>2, CommitHead
      <4> QED BY <2>3, <4>1
    <3> QED BY <3>1, <3>2
  <2>6. receipts'[q.space][q.pid] # Command(q)
    <3>1. Command(q) # None
      BY <1>1, RowIsNotNone DEF Command
    <3>2. CASE m.kind # "raw" /\ q.space = m.space /\ q.pid = m.pid
      <4>1. receipts'[q.space][q.pid] = Command(m)
        BY <1>4, <2>1, <3>2, CommitReceipt
      <4>2. q.parent # m.parent
        BY <2>2, <2>3, <3>2
      <4>3. Command(m) # Command(q)
        BY <4>2 DEF Command
      <4> QED BY <4>1, <4>3
    <3>3. CASE m.kind = "raw" \/ q.space # m.space \/ q.pid # m.pid
      <4>1. receipts'[q.space][q.pid] = receipts[q.space][q.pid]
        BY <1>1, <1>4, <2>1, <3>3, CommitReceipt
      <4> QED BY <1>4, <3>1, <4>1
    <3> QED BY <3>2, <3>3
  <2> QED BY <2>5, <2>6 DEF Refused, Recorded
<1> QED BY <1>2, <1>3, <1>4, StepCommitsOrNot
(* A receipt is given for what is committed in this step, or was before.   *)
LEMMA NewReceipt ==
    ASSUME WellTyped, Grounded, NEW c \in Clients, ClientStep(c), NEW m, m = call[c],
           \/ Commits(c)
           \/ /\ pc[c] # "idle" /\ UNCHANGED tables
              /\ Publishes(m) /\ Recorded(m)
    PROVE  Truthful(m)'
<1>1. CASE Commits(c)
  <2>1. WellAsked(m) /\ m \in Asked
    BY <1>1, CommitOf
  <2>2. m.space \in Spaces /\ m.pid \in Pids
    BY <2>1 DEF Asked
  <2>3. RevisionOf(m) \in revisions'[m.space]
    BY <1>1, CommitHead
  <2>4. m.kind # "raw" => receipts'[m.space][m.pid] = Command(m)
    BY <1>1, CommitReceipt
  <2>5. m.kind = "prospect" => <<m.space, m.pid>> \in results'
    BY <1>1, <2>2, CommitResult
  <2>6. m.kind = "provision" => allocated'[m.alloc] = [space |-> m.space, op |-> m.op]
    BY <1>1, CommitAllocation
  <2>7. m.kind = "provision" => m.pid = Genesis /\ m.parent = <<>>
    BY <2>1 DEF WellAsked
  <2>8. m.kind = "provision" => receipts'[m.space][Genesis] = [op |-> m.op, parent |-> <<>>]
    BY <2>4, <2>7 DEF Command
  <2>9. Publishes(m) => m.kind # "raw"
    BY DEF Publishes
  <2> QED BY <2>3, <2>4, <2>5, <2>6, <2>8, <2>9 DEF Truthful, Publishes
<1>2. CASE /\ pc[c] # "idle" /\ UNCHANGED tables
           /\ Publishes(m) /\ Recorded(m)
  <2>1. WellAsked(m)
    BY <1>2 DEF WellTyped
  <2>2. m.space \in Spaces /\ m.pid \in Pids /\ m.op \in Ops /\ m.parent \in Seq(Ops)
    BY <2>1 DEF WellAsked, Asked
  <2>3. receipts[m.space][m.pid] = Command(m) /\ Command(m) # None
    BY <1>2, <2>2, RowIsNotNone DEF Recorded, Command
  <2>4. RevisionOf(m) \in revisions[m.space]
    BY <2>2, <2>3 DEF Grounded, Command, RevisionOf
  <2>5. m.kind # "provision"
    BY <1>2 DEF Publishes
  <2>6. Truthful(m)
    BY <1>2, <2>3, <2>4, <2>5 DEF Truthful, Recorded
  <2> QED BY <1>2, <2>6 DEF Truthful, tables, Publishes
<1> QED BY <1>1, <1>2

(* A provisioning is answered from the row of its allocation.              *)
LEMMA ReplayedProvision ==
    ASSUME WellTyped, Grounded, NEW c \in Clients, ProvisionReplay(c),
           NEW m, m = [call[c] EXCEPT !.space = Allocated(c).space]
    PROVE  m.kind = "provision" /\ Truthful(m)'
<1>1. /\ WellAsked(call[c]) /\ call[c].kind = "provision"
      /\ allocated[call[c].alloc] # None
      /\ allocated[call[c].alloc].op = call[c].op
      /\ UNCHANGED tables
  BY DEF ProvisionReplay, WellTyped, Allocated, SameRequest
<1>2. PICK q : q = call[c]
  OBVIOUS
<1>3. PICK a : a = call[c].alloc
  OBVIOUS
<1>4. q \in Asked /\ a \in Allocations /\ q.parent = <<>> /\ q.kind = "provision"
  BY <1>1, <1>2, <1>3 DEF WellAsked
<1>5. allocated[a] \in AllocationRecord /\ allocated[a] # None /\ allocated[a].op = q.op
  BY <1>1, <1>2, <1>3, <1>4 DEF WellTyped
<1>6. m = [kind |-> q.kind, space |-> allocated[a].space, pid |-> q.pid, op |-> q.op,
           parent |-> q.parent, alloc |-> q.alloc, mints |-> q.mints]
  BY <1>2, <1>3, <1>4 DEF Asked, Allocated
<1>7. /\ m.kind = "provision" /\ m.space = allocated[a].space /\ m.op = q.op
      /\ m.parent = <<>> /\ m.alloc = a
  BY <1>2, <1>3, <1>4, <1>6
<1>8. /\ m.space \in Spaces /\ Genesis \in Pids /\ m.op \in Ops /\ <<>> \in Seq(Ops)
      /\ allocated[a] = [space |-> m.space, op |-> m.op]
  BY <1>4, <1>5, <1>7, EmptySeq, SpacesAssumption DEF AllocationRecord, Asked
<1>9. receipts[m.space][Genesis] = [op |-> m.op, parent |-> <<>>]
  BY <1>4, <1>5, <1>7 DEF Grounded
<1>10. receipts[m.space][Genesis] # None
  BY <1>8, <1>9, RowIsNotNone
<1>11. Append(<<>>, m.op) \in revisions[m.space]
  <2>1. PICK r : r = receipts[m.space][Genesis]
    OBVIOUS
  <2>2. Append(r.parent, r.op) \in revisions[m.space]
    BY <1>8, <1>10, <2>1 DEF Grounded
  <2>3. r.parent = <<>> /\ r.op = m.op
    BY <1>9, <2>1
  <2> QED BY <2>2, <2>3
<1>12. Truthful(m)
  BY <1>7, <1>8, <1>9, <1>11 DEF Truthful, Publishes, RevisionOf
<1> QED BY <1>1, <1>7, <1>12 DEF Truthful, Publishes, tables

(* A refusal: the id is taken by another command, or the head has moved on *)
(* from the revision the command was built on.                             *)
LEMMA NewRefusal ==
    ASSUME WellTyped, KnownParents, LinearHistory, NEW c \in Clients, NEW m, m = call[c],
           pc[c] # "idle", Publishes(m), UNCHANGED tables,
           \/ ReceiptOf(c) # None /\ ~Recorded(m)
           \/ ReceiptOf(c) = None /\ head[m.space] # m.parent
    PROVE  Refused(m)'
<1>1. m.space \in Spaces /\ m.pid \in Pids /\ m.op \in Ops /\ m.parent \in Seq(Ops)
  BY DEF WellTyped, WellAsked, Asked
<1>2. CASE ReceiptOf(c) # None /\ ~Recorded(m)
  BY <1>2 DEF ReceiptOf, Refused, Recorded, tables
<1>3. CASE ReceiptOf(c) = None /\ head[m.space] # m.parent
  <2>1. m.parent \in AncestorsOf(head[m.space]) \cup {<<>>}
    BY <1>1 DEF KnownParents, LinearHistory, AncestorsOf
  <2>2. Len(m.parent) < Len(head[m.space])
    BY <1>1, <1>3, <2>1, PrefixIsShorter DEF WellTyped
  <2>3. receipts[m.space][m.pid] # Command(m)
    BY <1>1, <1>3, RowIsNotNone DEF ReceiptOf, Command
  <2> QED BY <2>2, <2>3 DEF Refused, Recorded, tables
<1> QED BY <1>2, <1>3
-----------------------------------------------------------------------------
(* The inductive invariant.                                                *)
IInv ==
    /\ WellTyped /\ Placed /\ KnownParents /\ LinearHistory /\ Grounded
    /\ ReceiptsAreTrue /\ RefusedForGood

(* The answer given by a step is true and final.                           *)
LEMMA NewAnswer ==
    ASSUME IInv, NEW c \in Clients, ClientStep(c), NEW t \in told', t \notin told
    PROVE  /\ t.answer = "receipt" => Truthful(t.request)'
           /\ t.answer \in {"stale", "conflict"} /\ Publishes(t.request) => Refused(t.request)'
<1>1. PICK m : m = call[c]
  OBVIOUS
<1>2. ASSUME NEW what, Answer(c, what)
      PROVE  t.answer = what /\ t.request = m
  <2>1. t = [answer |-> what, request |-> m]
    BY <1>1, <1>2 DEF Answer
  <2> QED BY <2>1
<1>3. CASE Replay(c) \/ ProbeFound(c)
  <2>1. /\ pc[c] # "idle" /\ UNCHANGED tables /\ Recorded(m)
        /\ t.answer = "receipt" /\ t.request = m
    BY <1>1, <1>2, <1>3 DEF Replay, ProbeFound
  <2>2. Publishes(m)
    BY <1>1, <1>3 DEF IInv, WellTyped, Replay, ProbeFound, Publishes
  <2> QED BY <1>1, <2>1, <2>2, NewReceipt DEF IInv
<1>4. CASE CommitAnswered(c)
  <2>1. CASE KeyTaken(call[c])
    <3>1. t.answer = "duplicate key"
      BY <1>2, <1>4, <2>1 DEF CommitAnswered
    <3> QED BY <3>1
  <2>2. CASE ~KeyTaken(call[c])
    <3>1. Commits(c) /\ t.answer = "receipt" /\ t.request = m
      BY <1>2, <1>4, <2>2 DEF CommitAnswered, Commits
    <3> QED BY <1>1, <3>1, NewReceipt DEF IInv
  <2> QED BY <2>1, <2>2
<1>5. CASE ProvisionReplay(c)
  <2>1. PICK q : q = [call[c] EXCEPT !.space = Allocated(c).space]
    OBVIOUS
  <2>2. t = [answer |-> "receipt", request |-> q]
    BY <1>5, <2>1 DEF ProvisionReplay
  <2>3. t.answer = "receipt" /\ t.request = q
    BY <2>2
  <2> QED BY <1>5, <2>1, <2>3, ReplayedProvision DEF IInv
<1>6. CASE IdempotencyConflict(c) \/ StaleParent(c)
  <2>1. /\ pc[c] # "idle" /\ UNCHANGED tables
        /\ t.answer \in {"stale", "conflict"} /\ t.request = m
    BY <1>2, <1>6 DEF IdempotencyConflict, StaleParent
  <2>2. ASSUME Publishes(m)
        PROVE  \/ ReceiptOf(c) # None /\ ~Recorded(m)
               \/ ReceiptOf(c) = None /\ head[m.space] # m.parent
    BY <1>1, <1>6, <2>2 DEF IdempotencyConflict, StaleParent, Unrecorded, Publishes
  <2>3. Publishes(m) => Refused(m)'
    BY <1>1, <2>1, <2>2, NewRefusal DEF IInv
  <2> QED BY <2>1, <2>3
<1>7. CASE ProbeMismatch(c)
  <2>1. /\ pc[c] # "idle" /\ UNCHANGED tables
        /\ ReceiptOf(c) # None /\ ~Recorded(m)
    BY <1>1, <1>7 DEF ProbeMismatch
  <2>2. t.answer # "receipt" /\ t.request = m
    <3>1. Answer(c, "conflict") \/ Answer(c, "integrity error")
      BY <1>7 DEF ProbeMismatch
    <3>2. t.answer \in {"conflict", "integrity error"} /\ t.request = m
      BY <1>2, <3>1
    <3> QED BY <3>2
  <2>3. Publishes(m) => Refused(m)'
    BY <1>1, <2>1, NewRefusal DEF IInv
  <2> QED BY <2>2, <2>3
<1>8. CASE ProvisionConflict(c)
  <2>1. t.answer = "conflict" /\ t.request = m
    BY <1>2, <1>8 DEF ProvisionConflict
  <2>2. m.kind = "provision"
    BY <1>1, <1>8 DEF ProvisionConflict, IInv, WellTyped
  <2> QED BY <2>1, <2>2 DEF Publishes
<1>9. CASE ProbeFailed(c) \/ MintCollision(c) \/ Abort(c) \/ CommitLost(c)
  <2>1. t.answer \in {"unknown", "exhausted"}
    BY <1>2, <1>9 DEF ProbeFailed, MintCollision, Abort, CommitLost, OutcomeUnknown
  <2> QED BY <2>1
<1>10. CASE CallPublish(c) \/ CallProvision(c) \/ Lock(c) \/ Write(c)
  BY <1>10 DEF CallPublish, CallProvision, Begin, Lock, LockSpace, LockAllocation, MintSpace, Write
<1> QED BY <1>3, <1>4, <1>5, <1>6, <1>7, <1>8, <1>9, <1>10 DEF ClientStep, Step

LEMMA AnswersStep ==
    ASSUME IInv, NEW c \in Clients, ClientStep(c)
    PROVE  ReceiptsAreTrue' /\ RefusedForGood'
<1>1. ASSUME NEW t \in told', t.answer = "receipt"
      PROVE  Truthful(t.request)'
  <2>1. CASE t \in told
    <3>1. WellAsked(t.request) /\ Truthful(t.request)
      BY <1>1, <2>1, TruthfulAsStated DEF IInv, WellTyped
    <3> QED BY <3>1, TruthfulStays DEF IInv
  <2> QED BY <1>1, <2>1, NewAnswer
<1>2. ASSUME NEW t \in told', t.answer \in {"stale", "conflict"}, Publishes(t.request)
      PROVE  Refused(t.request)'
  <2>1. CASE t \in told
    <3>1. WellAsked(t.request) /\ Refused(t.request)
      BY <1>2, <2>1 DEF IInv, WellTyped, RefusedForGood
    <3> QED BY <1>2, <3>1, RefusedStays DEF IInv
  <2> QED BY <1>2, <2>1, NewAnswer
<1>3. ReceiptsAreTrue'
  <2>1. \A t \in told' : t.answer = "receipt" => Truthful(t.request)'
    BY <1>1
  <2> QED BY <2>1 DEF ReceiptsAreTrue, Truthful, Publishes
<1>4. RefusedForGood'
  BY <1>2 DEF RefusedForGood, Publishes
<1> QED BY <1>3, <1>4

LEMMA InitHolds == Init => IInv
<1> SUFFICES ASSUME Init PROVE IInv
  OBVIOUS
<1>1. Placed /\ KnownParents /\ Grounded /\ ReceiptsAreTrue /\ RefusedForGood
  BY DEF Init, Placed, KnownParents, Grounded, ReceiptsAreTrue, RefusedForGood
<1>2. LinearHistory
  <2>1. 1..Len(<<>>) = {}
    BY EmptySeq
  <2> QED BY <2>1 DEF Init, LinearHistory
<1> QED BY <1>1, <1>2, TypeInit DEF IInv

LEMMA StepHolds ==
    ASSUME IInv, [Next]_vars
    PROVE  IInv'
<1>1. CASE UNCHANGED vars
  <2>1. WellTyped'
    BY TypeStep DEF IInv
  <2>2. Placed' /\ KnownParents' /\ LinearHistory' /\ Grounded'
    BY <1>1 DEF IInv, vars, tables, locks, Placed, KnownParents, LinearHistory, Grounded
  <2>3. ReceiptsAreTrue' /\ RefusedForGood'
    BY <1>1 DEF IInv, vars, tables, ReceiptsAreTrue, RefusedForGood, Refused, Recorded
  <2> QED BY <2>1, <2>2, <2>3 DEF IInv
<1>2. ASSUME NEW c \in Clients, ClientStep(c)
      PROVE  IInv'
  <2>1. WellTyped /\ Placed /\ KnownParents /\ LinearHistory /\ Grounded
    BY DEF IInv
  <2>2. WellTyped'
    BY TypeStep DEF IInv
  <2>3. Placed' /\ KnownParents' /\ LinearHistory' /\ Grounded'
    BY <1>2, <2>1, PlacedStep, KnownParentsStep, LineStep, GroundedStep
  <2> QED BY <1>2, <2>2, <2>3, AnswersStep DEF IInv
<1> QED BY <1>1, <1>2 DEF Next, ClientStep

THEOREM IInvAlways == Spec => []IInv
<1> QED BY InitHolds, StepHolds, PTL DEF Spec

(* Any number of publishers of a space leave one line of revisions: what   *)
(* vnext_knowledge.py compares under the lock of the space is what it      *)
(* moves.                                                                  *)
THEOREM HistoryIsLinear == Spec => []LinearHistory
<1>1. IInv => LinearHistory
  BY DEF IInv
<1> QED BY <1>1, IInvAlways, PTL

(* A receipt stays true of the tables, whoever publishes later and however *)
(* often a command is repeated or lost on its way.                         *)
THEOREM ReceiptsStayTrue == Spec => []ReceiptsAreTrue
<1>1. IInv => ReceiptsAreTrue
  BY DEF IInv
<1> QED BY <1>1, IInvAlways, PTL

(* A command refused as stale or conflicting is never recorded later, by   *)
(* any copy of it, since its parent stays behind the head or its id taken. *)
THEOREM RefusalsStayFinal == Spec => []RefusalsAreFinal
<1>1. IInv => RefusalsAreFinal
  BY RefusedAsStated DEF IInv
<1> QED BY <1>1, IInvAlways, PTL

(* Types: see WellTyped.                                                   *)
THEOREM TypeCorrect == Spec => []WellTyped
<1>1. IInv => WellTyped
  BY DEF IInv
<1> QED BY <1>1, IInvAlways, PTL

(* No step takes a revision away or changes a row that is stored under a   *)
(* publication id or an allocation id, and a receipt does not become a     *)
(* prospective one later.                                                  *)
THEOREM RowsAreFinal ==
    Spec => [][/\ \A s \in Spaces : revisions[s] \subseteq revisions'[s]
               /\ \A s \in Spaces, p \in Pids :
                    /\ <<s, p>> \in results => <<s, p>> \in results'
                    /\ receipts[s][p] # None =>
                         /\ receipts'[s][p] = receipts[s][p]
                         /\ <<s, p>> \in results' => <<s, p>> \in results
               /\ \A a \in Allocations : allocated[a] # None => allocated'[a] = allocated[a]]_vars
<1>1. IInv /\ [Next]_vars =>
        [/\ \A s \in Spaces : revisions[s] \subseteq revisions'[s]
         /\ \A s \in Spaces, p \in Pids :
              /\ <<s, p>> \in results => <<s, p>> \in results'
              /\ receipts[s][p] # None =>
                   /\ receipts'[s][p] = receipts[s][p]
                   /\ <<s, p>> \in results' => <<s, p>> \in results
         /\ \A a \in Allocations : allocated[a] # None => allocated'[a] = allocated[a]]_vars
  BY RowsStay DEF IInv, Next, ClientStep
<1> QED BY <1>1, IInvAlways, PTL DEF Spec

-----------------------------------------------------------------------------
(* What a client asks for was materialized over the parent it names, or is *)
(* the genesis it provisions.                                              *)
MadeOf(parent, op) ==
    Sealed(parent, op) \/ (parent = <<>> /\ \E q \in Provisions : q.op = op)

CallsMade == \A c \in Clients : pc[c] # "idle" => MadeOf(call[c].parent, call[c].op)

(* A call keeps what it asks for, unless it begins.                        *)
LEMMA OperationKept ==
    ASSUME WellTyped, CallsMade, NEW c \in Clients, ClientStep(c), pc'[c] # "idle"
    PROVE  MadeOf(call'[c].parent, call'[c].op)
<1>1. CASE CallPublish(c)
  <2>1. PICK q \in Requests : \E parent \in revisions[q.space] \cup {<<>>} :
          /\ Sealed(parent, q.op)
          /\ Begin(c, [kind |-> q.kind, space |-> q.space, pid |-> q.pid, op |-> q.op,
                       parent |-> parent, alloc |-> None, mints |-> 0], "locking space")
    BY <1>1 DEF CallPublish
  <2>2. PICK parent \in revisions[q.space] \cup {<<>>} :
          /\ Sealed(parent, q.op)
          /\ Begin(c, [kind |-> q.kind, space |-> q.space, pid |-> q.pid, op |-> q.op,
                       parent |-> parent, alloc |-> None, mints |-> 0], "locking space")
    BY <2>1
  <2>3. call'[c].parent = parent /\ call'[c].op = q.op
    BY <2>2 DEF Begin, WellTyped
  <2> QED BY <2>2, <2>3 DEF MadeOf
<1>2. CASE CallProvision(c)
  <2>1. PICK q \in Provisions, s \in Spaces :
          Begin(c, [kind |-> "provision", space |-> s, pid |-> Genesis, op |-> q.op,
                    parent |-> <<>>, alloc |-> q.alloc, mints |-> 1], "locking allocation")
    BY <1>2 DEF CallProvision
  <2>2. call'[c].parent = <<>> /\ call'[c].op = q.op
    BY <2>1 DEF Begin, WellTyped
  <2> QED BY <2>2 DEF MadeOf
<1>3. ASSUME NEW what, Answer(c, what) PROVE FALSE
  BY <1>3 DEF Answer, WellTyped
<1>4. CASE MintCollision(c)
  <2>1. PICK s \in Spaces : call' = [call EXCEPT ![c].space = s, ![c].mints = @ + 1]
    BY <1>3, <1>4 DEF MintCollision
  <2>2. call[c] \in Asked /\ pc[c] # "idle"
    BY <1>4 DEF MintCollision, WellTyped, WellAsked
  <2>3. call'[c] = [call[c] EXCEPT !.space = s, !.mints = @ + 1]
    BY <2>1 DEF WellTyped
  <2>4. call'[c].parent = call[c].parent /\ call'[c].op = call[c].op
    BY <2>2, <2>3 DEF Asked
  <2> QED BY <2>2, <2>4 DEF CallsMade
<1>5. CASE Lock(c) \/ Write(c)
  <2>1. call'[c] = call[c] /\ pc[c] # "idle"
    BY <1>5 DEF Lock, LockSpace, LockAllocation, MintSpace, Write
  <2> QED BY <2>1 DEF CallsMade
<1>6. CASE Abort(c) \/ CommitLost(c)
  <2>1. call'[c] = call[c] /\ pc[c] # "idle"
    BY <1>3, <1>6 DEF Abort, CommitLost, OutcomeUnknown
  <2> QED BY <2>1 DEF CallsMade
<1>7. CASE ProvisionReplay(c)
  BY <1>7 DEF ProvisionReplay, WellTyped
<1>8. CASE \/ Replay(c) \/ IdempotencyConflict(c) \/ StaleParent(c) \/ CommitAnswered(c)
           \/ ProbeFound(c) \/ ProbeMismatch(c) \/ ProbeFailed(c) \/ ProvisionConflict(c)
  BY <1>3, <1>8 DEF Replay, IdempotencyConflict, StaleParent, CommitAnswered, ProbeFound,
                    ProbeMismatch, ProbeFailed, ProvisionConflict
<1> QED BY <1>1, <1>2, <1>4, <1>5, <1>6, <1>7, <1>8 DEF ClientStep, Step

LEMMA CallsMadeAlways == Spec => []CallsMade
<1>1. Init => CallsMade
  BY DEF Init, CallsMade
<1>2. IInv /\ CallsMade /\ [Next]_vars => CallsMade'
  <2> SUFFICES ASSUME IInv, CallsMade, [Next]_vars, NEW d \in Clients, pc'[d] # "idle"
               PROVE  MadeOf(call'[d].parent, call'[d].op)
    BY DEF CallsMade, MadeOf
  <2>1. CASE UNCHANGED vars
    BY <2>1 DEF vars, CallsMade
  <2>2. ASSUME NEW c \in Clients, ClientStep(c)
        PROVE  MadeOf(call'[d].parent, call'[d].op)
    <3>1. CASE d = c
      BY <2>2, <3>1, OperationKept DEF IInv
    <3>2. CASE d # c
      BY <2>2, <3>2, OthersKeep DEF IInv, CallsMade
    <3> QED BY <3>1, <3>2
  <2> QED BY <2>1, <2>2 DEF Next, ClientStep
<1> QED BY <1>1, <1>2, IInvAlways, PTL DEF Spec

(* A head only moves to a child of itself, by an operation that its client *)
(* materialized over just that head, although it did so before it took the *)
(* lock of the space; or it is the genesis of a provisioned space.         *)
THEOREM HeadsMoveAsMaterialized ==
    Spec => [][\A s \in Spaces : head'[s] # head[s] =>
                 \E op \in Ops : head'[s] = Append(head[s], op) /\ MadeOf(head[s], op)]_vars
<1>1. IInv /\ CallsMade /\ [Next]_vars =>
        [\A s \in Spaces : head'[s] # head[s] =>
           \E op \in Ops : head'[s] = Append(head[s], op) /\ MadeOf(head[s], op)]_vars
  <2> SUFFICES ASSUME IInv, CallsMade, NEW c \in Clients, ClientStep(c),
                      NEW s \in Spaces, head'[s] # head[s]
               PROVE  \E op \in Ops : head'[s] = Append(head[s], op) /\ MadeOf(head[s], op)
    BY DEF Next, ClientStep
  <2>1. Commits(c)
    BY StepCommitsOrNot DEF tables
  <2>2. PICK m : m = call[c]
    OBVIOUS
  <2>3. s = m.space /\ head'[s] = RevisionOf(m)
    BY <2>1, <2>2, CommitHead DEF IInv
  <2>4. head[s] = m.parent /\ m.op \in Ops /\ MadeOf(m.parent, m.op)
    BY <2>1, <2>2, <2>3 DEF IInv, Commits, Placed, CallsMade, WellTyped, WellAsked, Asked
  <2> QED BY <2>3, <2>4 DEF RevisionOf
<1> QED BY <1>1, IInvAlways, CallsMadeAlways, PTL DEF Spec

-----------------------------------------------------------------------------
(* Least and greatest elements: induction is by the least counterexample.  *)

LEMMA LeastExists ==
    ASSUME NEW S, S \subseteq Nat, S # {}
    PROVE  \E n \in S : \A m \in S : n <= m
<1> DEFINE R == {ss \in Nat \X Nat : ss[1] < ss[2]}
<1>1. R = OpToRel(<, Nat)
    BY DEF OpToRel
<1>2. IsWellFoundedOn(R, Nat)
    BY NatLessThanWellFounded, <1>1
<1>3. PICK n \in S : \A m \in S : <<m, n>> \notin R
    BY <1>2, WFMin
<1>4. ASSUME NEW m \in S PROVE n <= m
    <2>1. m \in Nat /\ n \in Nat
        OBVIOUS
    <2>2. <<m, n>> \in R <=> m < n
        BY <2>1
    <2> QED BY <2>1, <2>2, <1>3
<1> QED BY <1>4

LEMMA GreatestExists ==
    ASSUME NEW S, NEW k \in Nat, S \subseteq 0..k, S # {}
    PROVE  \E n \in S : \A m \in S : m <= n
<1> DEFINE T == {k - n : n \in S}
<1>0. PICK s \in S : TRUE
    OBVIOUS
<1>1. T \subseteq Nat /\ T # {}
    <2>1. \A n \in S : n \in 0..k
        OBVIOUS
    <2>2. \A n \in 0..k : k - n \in Nat
        OBVIOUS
    <2>3. k - s \in T
        BY <1>0
    <2>4. \A t \in T : t \in Nat
        BY <2>1, <2>2
    <2> QED BY <2>3, <2>4
<1>2. PICK t \in T : \A m \in T : t <= m
    BY <1>1, LeastExists
<1>3. PICK n \in S : t = k - n
    OBVIOUS
<1>4. ASSUME NEW m \in S PROVE m <= n
    <2>1. k - m \in T
        OBVIOUS
    <2>2. k - n <= k - m
        BY <2>1, <1>2, <1>3
    <2>3. m \in 0..k /\ n \in 0..k
        OBVIOUS
    <2> QED BY <2>2, <2>3
<1> QED BY <1>4

LEMMA AtIsValueAt ==
    ASSUME NEW history, IsHistory(history), NEW e \in Nat
    PROVE  At(history, e) = ValueAt(history, e)
<1> DEFINE seen == {n \in DOMAIN history : \A m \in 1..n : history[m].generation <= e}
           old == {n \in DOMAIN history : history[n].generation <= e}
           latest == CHOOSE n \in seen : \A m \in seen : m <= n
           newest == CHOOSE n \in old : \A m \in old : history[m].generation <= history[n].generation
<1>1. /\ Len(history) \in Nat /\ DOMAIN history = 1..Len(history)
      /\ \A n \in DOMAIN history : history[n].generation \in Nat
      /\ \A m, n \in DOMAIN history : m < n => history[m].generation < history[n].generation
    BY DEF IsHistory
<1>2. seen = old
    <2>1. ASSUME NEW n \in old, NEW m \in 1..n PROVE history[m].generation <= e
        <3>1. m \in DOMAIN history /\ n \in DOMAIN history /\ (m < n \/ m = n)
            BY <1>1
        <3>2. history[m].generation \in Nat /\ history[n].generation \in Nat /\ history[n].generation <= e
            BY <3>1, <1>1
        <3>3. CASE m = n
            BY <3>3, <3>2
        <3>4. CASE m < n
            <4>1. history[m].generation < history[n].generation
                BY <3>4, <3>1, <1>1
            <4> QED BY <4>1, <3>2
        <3> QED BY <3>1, <3>3, <3>4
    <2>2. ASSUME NEW n \in seen PROVE history[n].generation <= e
        BY <1>1
    <2> QED BY <2>1, <2>2
<1>3. CASE old = {}
    BY <1>2, <1>3 DEF At, ValueAt
<1>4. CASE old # {}
    <2>1. \E n \in old : \A m \in old : m <= n
        <3>1. old \subseteq 0..Len(history)
            BY <1>1
        <3> QED BY <3>1, <1>1, <1>4, GreatestExists
    <2>2. latest \in old /\ \A m \in old : m <= latest
        BY <2>1, <1>2
    <2>3. ASSUME NEW m \in old PROVE history[m].generation <= history[latest].generation
        <3>1. m \in DOMAIN history /\ latest \in DOMAIN history /\ m <= latest
            BY <2>2
        <3>2. history[m].generation \in Nat /\ history[latest].generation \in Nat
            BY <3>1, <1>1
        <3>3. m \in Nat /\ latest \in Nat
            BY <3>1, <1>1
        <3>4. m = latest \/ m < latest
            BY <3>1, <3>3
        <3>5. m < latest => history[m].generation < history[latest].generation
            BY <3>1, <1>1
        <3> HIDE DEF latest
        <3> QED BY <3>2, <3>4, <3>5
    <2>4. newest \in old /\ \A m \in old : history[m].generation <= history[newest].generation
        BY <2>2, <2>3
    <2>5. newest = latest
        <3>1. newest \in DOMAIN history /\ latest \in DOMAIN history /\ newest <= latest
            BY <2>4, <2>2
        <3>2. history[newest].generation \in Nat /\ history[latest].generation \in Nat
            BY <3>1, <1>1
        <3>3. newest \in Nat /\ latest \in Nat
            BY <3>1, <1>1
        <3>4. history[latest].generation <= history[newest].generation
            BY <2>2, <2>4
        <3>5. newest < latest => history[newest].generation < history[latest].generation
            BY <3>1, <1>1
        <3> HIDE DEF newest, latest
        <3> QED BY <3>1, <3>2, <3>3, <3>4, <3>5
    <2>6. At(history, e) = history[latest].value
        BY <1>2, <1>4 DEF At
    <2>7. ValueAt(history, e) = history[newest].value
        BY <1>4 DEF ValueAt
    <2> QED BY <2>5, <2>6, <2>7
<1> QED BY <1>3, <1>4

-----------------------------------------------------------------------------
(* Contexts.                                                               *)

LEMMA ContextFacts ==
    ASSUME ReadAssumption, NEW r, NEW ctx \in ContextsOf(r)
    PROVE  /\ ctx.revision = r
           /\ ctx.view.artifacts = Sources.artifacts /\ ctx.view.revisions = Sources.revisions
           /\ ctx.view.epoch \in Nat
           /\ ctx.policy \in Policies
           /\ Opens(ctx.request, ctx.policy, r, r.domain, r.profile)
BY DEF ContextsOf, ReadAssumption

(* What a snapshot holds of a piece of evidence it was taken for is what   *)
(* is known of its sources at the epoch.                                   *)
LEMMA PinnedIsKnown ==
    ASSUME NEW histories, \A i \in DOMAIN histories : IsHistory(histories[i]), NEW e \in Nat, NEW i
    PROVE  /\ i \in DOMAIN Pinned(histories, e) <=> Known(histories, i, e) # Failed
           /\ i \in DOMAIN Pinned(histories, e) => Pinned(histories, e)[i] = Known(histories, i, e)
<1>1. CASE i \in DOMAIN histories
    <2>1. At(histories[i], e) = ValueAt(histories[i], e)
        BY <1>1, AtIsValueAt
    <2> QED BY <1>1, <2>1 DEF Pinned, Known
<1>2. CASE i \notin DOMAIN histories
    BY <1>2 DEF Pinned, Known
<1> QED BY <1>1, <1>2

LEMMA SnapshotHolds ==
    ASSUME ReadAssumption, NEW r, NEW ctx \in ContextsOf(r), NEW refs,
           NEW v \in refs, v \in DOMAIN r.graph.evidence
    PROVE  LET s == SourcesOf(refs, ctx)
               a == r.graph.evidence[v].artifact
               epoch == ctx.view.epoch
           IN /\ a \in DOMAIN s.artifacts <=> Known(Sources.artifacts, a, epoch) # Failed
              /\ a \in DOMAIN s.artifacts => s.artifacts[a] = Known(Sources.artifacts, a, epoch)
              /\ \A t \in r.graph.evidence[v].revision :
                   /\ t \in DOMAIN s.revisions <=> Known(Sources.revisions, t, epoch) # Failed
                   /\ t \in DOMAIN s.revisions =>
                        s.revisions[t] = Known(Sources.revisions, t, epoch)
<1> DEFINE s == SourcesOf(refs, ctx)
           epoch == ctx.view.epoch
           arts == ArtifactsOf(r.graph, refs)
           texts == RevisionsOf(r.graph, refs)
           held == Pinned(Sources.artifacts, epoch)
           read == Pinned(Sources.revisions, epoch)
<1>1. s = [artifacts |-> [i \in arts \cap DOMAIN held |-> held[i]],
           revisions |-> [i \in texts \cap DOMAIN read |-> read[i]]]
    BY ContextFacts DEF SourcesOf, Snapshot
<1>2. r.graph.evidence[v].artifact \in arts
    BY DEF ArtifactsOf
<1>3. ASSUME NEW t \in r.graph.evidence[v].revision PROVE t \in texts
    BY DEF RevisionsOf
<1>4. epoch \in Nat /\ (\A i \in DOMAIN Sources.artifacts : IsHistory(Sources.artifacts[i]))
      /\ (\A i \in DOMAIN Sources.revisions : IsHistory(Sources.revisions[i]))
    BY ContextFacts DEF ReadAssumption
<1>5. \A i : /\ i \in DOMAIN held <=> Known(Sources.artifacts, i, epoch) # Failed
             /\ i \in DOMAIN held => held[i] = Known(Sources.artifacts, i, epoch)
    BY <1>4, PinnedIsKnown
<1>6. \A i : /\ i \in DOMAIN read <=> Known(Sources.revisions, i, epoch) # Failed
             /\ i \in DOMAIN read => read[i] = Known(Sources.revisions, i, epoch)
    BY <1>4, PinnedIsKnown
<1>7. DOMAIN s.artifacts = arts \cap DOMAIN held /\ DOMAIN s.revisions = texts \cap DOMAIN read
      /\ (\A i \in arts \cap DOMAIN held : s.artifacts[i] = held[i])
      /\ (\A i \in texts \cap DOMAIN read : s.revisions[i] = read[i])
    BY <1>1
<1> HIDE DEF s, held, read, arts, texts, epoch
<1>8. /\ r.graph.evidence[v].artifact \in DOMAIN s.artifacts <=>
             Known(Sources.artifacts, r.graph.evidence[v].artifact, epoch) # Failed
      /\ r.graph.evidence[v].artifact \in DOMAIN s.artifacts =>
             s.artifacts[r.graph.evidence[v].artifact] =
                Known(Sources.artifacts, r.graph.evidence[v].artifact, epoch)
    BY <1>2, <1>5, <1>7
<1>9. ASSUME NEW t \in r.graph.evidence[v].revision
      PROVE /\ t \in DOMAIN s.revisions <=> Known(Sources.revisions, t, epoch) # Failed
            /\ t \in DOMAIN s.revisions => s.revisions[t] = Known(Sources.revisions, t, epoch)
    BY <1>3, <1>6, <1>7
<1> QED BY <1>8, <1>9 DEF s, epoch

-----------------------------------------------------------------------------
(* Admission: the gates together pass exactly what a reader is entitled to.*)

LEMMA VisibleShows ==
    ASSUME NEW ctx, NEW v, NEW declared
    PROVE  Visible(v, ctx.request.audience, declared)
             <=> Shows(ctx, v) /\ DeclaredLabels(v, declared)
BY DEF Visible, Shows, DeclaredLabels

LEMMA EvidencePasses ==
    ASSUME ReadAssumption, NEW r, NEW ctx \in ContextsOf(r), NEW refs, NEW v \in refs
    PROVE  EvidenceReason(v, ctx, SourcesOf(refs, ctx)) = "" <=> Reliable(ctx, v)
<1> DEFINE g == ctx.revision.graph
           domain == ctx.revision.domain
           e == g.evidence[v]
           s == SourcesOf(refs, ctx)
           epoch == ctx.view.epoch
           artifact == s.artifacts[e.artifact]
           known == Known(Sources.artifacts, e.artifact, epoch)
           Text(t) == Known(Sources.revisions, t, epoch)
<1> SUFFICES EvidenceReason(v, ctx, s) = "" <=> Reliable(ctx, v)
    OBVIOUS
<1>1. CASE v \notin DOMAIN g.evidence
    <2>1. EvidenceReason(v, ctx, s) = "source_missing"
        BY <1>1 DEF EvidenceReason
    <2>2. ~Reliable(ctx, v)
        BY <1>1 DEF Reliable
    <2> QED BY <2>1, <2>2
<1>2. CASE v \in DOMAIN g.evidence
    <2>1. ctx.revision = r
        BY ContextFacts
    <2>2. /\ e.artifact \in DOMAIN s.artifacts <=> known # Failed
          /\ e.artifact \in DOMAIN s.artifacts => artifact = known
          /\ \A t \in e.revision : /\ t \in DOMAIN s.revisions <=> Text(t) # Failed
                                   /\ t \in DOMAIN s.revisions => s.revisions[t] = Text(t)
        BY <2>1, <1>2, SnapshotHolds
    <2>3. EvidenceReason(v, ctx, s) = "" <=>
            /\ e.schemas \subseteq domain.sources
            /\ e.artifact \in DOMAIN s.artifacts
            /\ Visible(artifact.visibility, ctx.request.audience, domain.labels)
            /\ artifact.status = "active"
            /\ artifact.schemas \subseteq domain.sources
            /\ ~\E t \in e.revision : t \notin DOMAIN s.revisions \/ s.revisions[t].artifact # e.artifact
        <3> HIDE DEF s
        <3> QED BY <1>2 DEF EvidenceReason
    <2>4. Reliable(ctx, v) <=>
            /\ known # Failed
            /\ known.status = "active" /\ Shows(ctx, known.visibility)
            /\ DeclaredLabels(known.visibility, domain.labels)
            /\ e.schemas \cup known.schemas \subseteq domain.sources
            /\ \A t \in e.revision : Text(t) # Failed /\ Text(t).artifact = e.artifact
        BY <1>2 DEF Reliable
    <2>5. Visible(artifact.visibility, ctx.request.audience, domain.labels) <=>
            Shows(ctx, artifact.visibility) /\ DeclaredLabels(artifact.visibility, domain.labels)
        BY VisibleShows
    <2>6. (~\E t \in e.revision : t \notin DOMAIN s.revisions \/ s.revisions[t].artifact # e.artifact)
          <=> \A t \in e.revision : Text(t) # Failed /\ Text(t).artifact = e.artifact
        <3> HIDE DEF s, e, Text
        <3> QED BY <2>2
    <2>7. CASE e.artifact \notin DOMAIN s.artifacts
        <3> HIDE DEF s, e, known, artifact, Text, g, domain, epoch
        <3> QED BY <2>7, <2>2, <2>3, <2>4
    <2>8. CASE e.artifact \in DOMAIN s.artifacts
        <3>1. artifact = known /\ known # Failed
            BY <2>8, <2>2
        <3>2. e.schemas \cup known.schemas \subseteq domain.sources
              <=> e.schemas \subseteq domain.sources /\ known.schemas \subseteq domain.sources
            <4> HIDE DEF e, known, domain
            <4> QED OBVIOUS
        <3> HIDE DEF s, e, known, artifact, Text, g, domain, epoch
        <3> QED BY <3>1, <3>2, <2>8, <2>3, <2>4, <2>5, <2>6
    <2> QED BY <2>7, <2>8
<1> QED BY <1>1, <1>2

LEMMA RefsPass ==
    ASSUME ReadAssumption, NEW r, NEW ctx \in ContextsOf(r), NEW all, NEW refs, refs \subseteq all
    PROVE  RefsReason(refs, ctx, SourcesOf(all, ctx)) = "" <=> \A v \in refs : Reliable(ctx, v)
<1> DEFINE s == SourcesOf(all, ctx)
           refused == {v \in refs : EvidenceReason(v, ctx, s) # ""}
<1>1. \A v \in refs : EvidenceReason(v, ctx, s) = "" <=> Reliable(ctx, v)
    BY EvidencePasses
<1>2. RefsReason(refs, ctx, s) = "" <=> refused = {}
    <2> HIDE DEF s
    <2> QED BY DEF RefsReason
<1> QED BY <1>1, <1>2

LEMMA ReasonPasses ==
    ASSUME ReadAssumption, NEW r, NEW ctx \in ContextsOf(r), NEW all,
           NEW i \in DOMAIN ctx.revision.graph.assertions,
           ctx.revision.graph.assertions[i].evidence \subseteq all
    PROVE  Reason(i, ctx, SourcesOf(all, ctx)) = "" <=> i \in Entitled(ctx)
<1> DEFINE a == ctx.revision.graph.assertions[i]
           domain == ctx.revision.domain
           s == SourcesOf(all, ctx)
           gates == <<StandingReason(a, ctx.request),
                      ScopeReason(a, ctx.request, domain.axes),
                      IF DomainPasses(a, domain) THEN "" ELSE "domain_declaration",
                      IF Visible(a.visibility, ctx.request.audience, domain.labels) THEN ""
                      ELSE "visibility",
                      IF ProfilePasses(a, ctx.revision.profile) THEN "" ELSE "semantic_profile",
                      RefsReason(a.evidence, ctx, s),
                      IF Narrow(ctx.policy, i, a) THEN "" ELSE "domain_policy">>
           failed == {n \in DOMAIN gates : gates[n] # ""}
<1> SUFFICES Reason(i, ctx, s) = "" <=> i \in Entitled(ctx)
    OBVIOUS
<1>1. Reason(i, ctx, s) = IF failed = {} THEN ""
                          ELSE gates[CHOOSE n \in failed : \A m \in failed : n <= m]
    BY Zenon DEF Reason
<1>2. DOMAIN gates = 1..7
    OBVIOUS
<1>3. Reason(i, ctx, s) = "" <=> failed = {}
    <2>1. ASSUME failed # {} PROVE Reason(i, ctx, s) # ""
        <3> HIDE DEF gates
        <3>0. \A n \in failed : n \in 1..7
            BY <1>2
        <3>1. failed \subseteq Nat
            <4> HIDE DEF failed
            <4>1. 1..7 \subseteq Nat
                OBVIOUS
            <4> QED BY <3>0, <4>1
        <3>2. \E n \in failed : \A m \in failed : n <= m
            BY <3>1, <2>1, LeastExists
        <3>3. (CHOOSE n \in failed : \A m \in failed : n <= m) \in failed
            BY <3>2
        <3> QED BY <3>3, <2>1, <1>1
    <2> QED BY <2>1, <1>1
<1>4. failed = {} <=>
        /\ gates[1] = "" /\ gates[2] = "" /\ gates[3] = "" /\ gates[4] = "" /\ gates[5] = ""
        /\ gates[6] = "" /\ gates[7] = ""
    <2> HIDE DEF gates
    <2>1. 1..7 = {1, 2, 3, 4, 5, 6, 7}
        OBVIOUS
    <2> QED BY <2>1, <1>2
<1>5. /\ gates[1] = "" <=> a.standing \in ctx.request.standing
      /\ gates[3] = "" <=> DomainPasses(a, domain)
      /\ gates[4] = "" <=> Visible(a.visibility, ctx.request.audience, domain.labels)
      /\ gates[5] = "" <=> ProfilePasses(a, ctx.revision.profile)
      /\ gates[6] = "" <=> RefsReason(a.evidence, ctx, s) = ""
      /\ gates[7] = "" <=> Narrow(ctx.policy, i, a)
    <2> HIDE DEF a, domain, s
    <2> QED BY DEF StandingReason
<1>6. DomainPasses(a, domain) =>
        (gates[2] = "" <=>
          IF a.scope = {} THEN ctx.request.unscoped
          ELSE \A b \in a.scope : b \in ctx.request.bindings \/ b[1] \in ctx.request.wildcards)
    <2>1. gates[2] = ScopeReason(a, ctx.request, domain.axes)
        OBVIOUS
    <2> HIDE DEF gates, a, domain
    <2>2. DomainPasses(a, domain) => \A b \in a.scope : b[1] \in domain.axes
        BY DEF DomainPasses
    <2> QED BY <2>1, <2>2 DEF ScopeReason
<1>7. DomainPasses(a, domain) =>
        (Visible(a.visibility, ctx.request.audience, domain.labels) <=> Shows(ctx, a.visibility))
    <2>1. DomainPasses(a, domain) => DeclaredLabels(a.visibility, domain.labels)
        BY DEF DomainPasses
    <2> QED BY <2>1, VisibleShows
<1>8. RefsReason(a.evidence, ctx, s) = "" <=> \A v \in a.evidence : Reliable(ctx, v)
    BY RefsPass
<1>9. Narrow(ctx.policy, i, a) <=>
        /\ ctx.policy.kind = "modes" => a.mode \in ctx.policy.of
        /\ ctx.policy.kind = "exclude" => i \notin ctx.policy.of
    <2>1. ctx.policy.kind \in {"always", "exclude", "modes"}
        BY ContextFacts DEF ReadAssumption
    <2> HIDE DEF a
    <2> QED BY <2>1 DEF Narrow
<1>10. i \in Entitled(ctx) <=>
        /\ a.standing \in ctx.request.standing
        /\ IF a.scope = {} THEN ctx.request.unscoped
           ELSE \A b \in a.scope : b \in ctx.request.bindings \/ b[1] \in ctx.request.wildcards
        /\ Shows(ctx, a.visibility)
        /\ \A v \in a.evidence : Reliable(ctx, v)
        /\ ctx.policy.kind = "modes" => a.mode \in ctx.policy.of
        /\ ctx.policy.kind = "exclude" => i \notin ctx.policy.of
        /\ DomainPasses(a, domain) /\ ProfilePasses(a, ctx.revision.profile)
    BY Zenon DEF Entitled
<1> DEFINE bound == IF a.scope = {} THEN ctx.request.unscoped
                    ELSE \A b \in a.scope : b \in ctx.request.bindings \/ b[1] \in ctx.request.wildcards
           relied == \A v \in a.evidence : Reliable(ctx, v)
<1>11. /\ DomainPasses(a, domain) => (gates[2] = "" <=> bound)
       /\ gates[6] = "" <=> relied
    BY <1>5, <1>6, <1>8
<1>12. i \in Entitled(ctx) <=>
        /\ a.standing \in ctx.request.standing
        /\ bound /\ Shows(ctx, a.visibility) /\ relied
        /\ ctx.policy.kind = "modes" => a.mode \in ctx.policy.of
        /\ ctx.policy.kind = "exclude" => i \notin ctx.policy.of
        /\ DomainPasses(a, domain) /\ ProfilePasses(a, ctx.revision.profile)
    BY <1>10
<1> HIDE DEF bound, relied, a, domain, s, gates, failed
<1> QED BY <1>3, <1>4, <1>5, <1>7, <1>9, <1>11, <1>12

LEMMA AdmitServes ==
    ASSUME ReadAssumption, NEW r, NEW ctx \in ContextsOf(r), NEW candidates,
           candidates \subseteq DOMAIN ctx.revision.graph.assertions
    PROVE  Admit(candidates, ctx) = candidates \cap Entitled(ctx)
<1> DEFINE all == EvidenceOf(ctx.revision.graph, candidates)
<1>1. ASSUME NEW i \in candidates
      PROVE  Reason(i, ctx, SourcesOf(all, ctx)) = "" <=> i \in Entitled(ctx)
    <2>1. ctx.revision.graph.assertions[i].evidence \subseteq all
        BY DEF EvidenceOf
    <2> QED BY <2>1, ReasonPasses
<1>2. Admit(candidates, ctx) = {i \in candidates : Reason(i, ctx, SourcesOf(all, ctx)) = ""}
    BY DEF Admit
<1> HIDE DEF all
<1> QED BY <1>1, <1>2

-----------------------------------------------------------------------------
(* Entity reads.                                                           *)

LEMMA EntitledAreAssertions ==
    ASSUME NEW ctx
    PROVE  Entitled(ctx) \subseteq DOMAIN ctx.revision.graph.assertions
BY DEF Entitled

LEMMA CompleteEntityServed ==
    ASSUME ReadAssumption, NEW r, NEW ctx \in ContextsOf(r), NEW e \in ctx.revision.graph.entities
    PROVE  LET g == ctx.revision.graph
               touch == {i \in Entitled(ctx) : e \in EndsOf(g.assertions[i])}
               whole == GetCompleteEntity(ctx, e)
           IN /\ whole.assertions = touch
              /\ whole.related = (UNION {EndsOf(g.assertions[i]) : i \in touch}) \ {e}
              /\ \A v \in whole.evidence : Reliable(ctx, v)
<1> DEFINE g == ctx.revision.graph
           touch == {i \in Entitled(ctx) : e \in EndsOf(g.assertions[i])}
           whole == GetCompleteEntity(ctx, e)
           admitted == Admit(Touching(g, e), ctx)
           aliases == AdmittedAliases(ctx, e)
<1>1. Touching(g, e) \subseteq DOMAIN g.assertions
    BY DEF Touching, BySubject, Incoming
<1>2. admitted = Touching(g, e) \cap Entitled(ctx)
    BY <1>1, AdmitServes
<1>3. ASSUME NEW i \in DOMAIN g.assertions
      PROVE  i \in Touching(g, e) <=> e \in EndsOf(g.assertions[i])
    BY DEF Touching, BySubject, Incoming, EndsOf, Target
<1>4. admitted = touch
    <2> HIDE DEF g
    <2> QED BY <1>2, <1>3, EntitledAreAssertions DEF g
<1>5. /\ whole.assertions = admitted
      /\ whole.related = UNION {Opposite(g.assertions[i], e) : i \in admitted}
      /\ whole.evidence = EvidenceOf(g, admitted) \cup UNION {g.aliases[i].evidence : i \in aliases}
    BY Zenon DEF GetCompleteEntity
<1>6. ASSUME NEW i \in touch
      PROVE  Opposite(g.assertions[i], e) = EndsOf(g.assertions[i]) \ {e}
    BY DEF Opposite, EndsOf, Target
<1>7. UNION {Opposite(g.assertions[i], e) : i \in touch}
      = (UNION {EndsOf(g.assertions[i]) : i \in touch}) \ {e}
    <2> DEFINE Ends(i) == EndsOf(g.assertions[i])
               Opp(i) == Opposite(g.assertions[i], e)
    <2>1. \A i \in touch : Opp(i) = Ends(i) \ {e}
        BY <1>6
    <2> HIDE DEF touch, Ends, Opp
    <2>2. UNION {Opp(i) : i \in touch} = (UNION {Ends(i) : i \in touch}) \ {e}
        BY <2>1
    <2> QED BY <2>2 DEF Ends, Opp
<1>8. ASSUME NEW v \in EvidenceOf(g, admitted) PROVE Reliable(ctx, v)
    <2>1. PICK i \in admitted : v \in g.assertions[i].evidence
        BY DEF EvidenceOf
    <2>2. i \in Entitled(ctx)
        BY <1>4, <2>1
    <2> QED BY <2>1, <2>2 DEF Entitled
<1>9. ASSUME NEW i \in aliases, NEW v \in g.aliases[i].evidence PROVE Reliable(ctx, v)
    <2> DEFINE eligible == {j \in AliasesOf(g, e) : g.aliases[j].standing \in ctx.request.standing}
               all == UNION {g.aliases[j].evidence : j \in eligible}
    <2>1. i \in eligible /\ RefsReason(g.aliases[i].evidence, ctx, SourcesOf(all, ctx)) = ""
        BY DEF AdmittedAliases
    <2>2. g.aliases[i].evidence \subseteq all
        BY <2>1
    <2> HIDE DEF all, eligible
    <2> QED BY <2>1, <2>2, RefsPass
<1>10. \A v \in whole.evidence : Reliable(ctx, v)
    <2> HIDE DEF whole, admitted, aliases, g
    <2> QED BY <1>5, <1>8, <1>9
<1>11. whole.assertions = touch
    BY <1>4, <1>5
<1>12. whole.related = (UNION {EndsOf(g.assertions[i]) : i \in touch}) \ {e}
    <2> HIDE DEF whole, touch, g
    <2> QED BY <1>4, <1>5, <1>7
<1> QED BY <1>10, <1>11, <1>12

LEMMA EntitiesAreServed ==
    ASSUME ReadAssumption, NEW r, NEW ctx \in ContextsOf(r)
    PROVE  EntitiesServed(ctx)
<1> DEFINE g == ctx.revision.graph
<1>1. ASSUME NEW e \in g.entities
      PROVE  GetEntity(ctx, e).assertions = {i \in Entitled(ctx) : g.assertions[i].subject = e}
    <2>1. BySubject(g, e) \subseteq DOMAIN g.assertions
        BY DEF BySubject
    <2>2. Admit(BySubject(g, e), ctx) = BySubject(g, e) \cap Entitled(ctx)
        BY <2>1, AdmitServes
    <2>3. GetEntity(ctx, e).assertions = Admit(BySubject(g, e), ctx)
        BY DEF GetEntity
    <2>4. BySubject(g, e) \cap Entitled(ctx) = {i \in Entitled(ctx) : g.assertions[i].subject = e}
        BY EntitledAreAssertions DEF BySubject
    <2> QED BY <2>2, <2>3, <2>4
<1>2. Admit(DOMAIN g.assertions, ctx) = Entitled(ctx)
    BY AdmitServes, EntitledAreAssertions
<1>3. ListEntities(ctx) = UNION {EndsOf(g.assertions[i]) : i \in Entitled(ctx)}
    BY <1>2 DEF ListEntities
<1>4. ASSUME NEW e \in g.entities
      PROVE  LET touch == {i \in Entitled(ctx) : e \in EndsOf(g.assertions[i])}
                 whole == GetCompleteEntity(ctx, e)
             IN /\ whole.assertions = touch
                /\ whole.related = (UNION {EndsOf(g.assertions[i]) : i \in touch}) \ {e}
                /\ \A v \in whole.evidence : Reliable(ctx, v)
    BY CompleteEntityServed
<1> QED BY <1>1, <1>3, <1>4 DEF EntitiesServed

-----------------------------------------------------------------------------
(* Neighborhoods.                                                          *)

LEMMA LayerServed ==
    ASSUME ReadAssumption, NEW r, NEW ctx \in ContextsOf(r), NEW walk, NEW n
    PROVE  LET g == ctx.revision.graph
               fresh == (UNION {Edges(g, e) : e \in walk.frontier}) \ walk.evaluated
               ends == UNION {EndsOf(g.assertions[i]) : i \in fresh \cap Entitled(ctx)}
               next == Layer(ctx, walk, n)
           IN /\ next.depth = Joined(walk.depth, [e \in ends |-> n])
              /\ next.frontier = ends \ DOMAIN walk.depth
              /\ next.evaluated = walk.evaluated \cup fresh
<1> DEFINE g == ctx.revision.graph
           fresh == (UNION {Edges(g, e) : e \in walk.frontier}) \ walk.evaluated
<1>1. fresh \subseteq DOMAIN g.assertions
    BY DEF Edges, Outgoing, Incoming, BySubject
<1>2. Admit(fresh, ctx) = fresh \cap Entitled(ctx)
    BY <1>1, AdmitServes
<1> QED BY <1>2, Zenon DEF Layer

LEMMA EdgeEnds ==
    ASSUME NEW ctx, NEW e, NEW i \in Entitled(ctx)
    PROVE  i \in Edges(ctx.revision.graph, e)
           <=> /\ ctx.revision.graph.assertions[i].value.kind = "entity"
               /\ e \in EndsOf(ctx.revision.graph.assertions[i])
BY EntitledAreAssertions DEF Edges, Outgoing, Incoming, BySubject, EndsOf, Target

LEMMA NeighborsAreServed ==
    ASSUME ReadAssumption, NEW r, NEW ctx \in ContextsOf(r)
    PROVE  NeighborsServed(ctx)
<1> DEFINE g == ctx.revision.graph
           edges == {EndsOf(g.assertions[i]) :
                       i \in {j \in Entitled(ctx) : g.assertions[j].value.kind = "entity"}}
           Around(s) == s \cup UNION {ends \in edges : ends \cap s # {}}
<1> SUFFICES ASSUME NEW e \in g.entities, NEW d \in {1, 2}
             PROVE  LET walk == GetNeighborhood(ctx, {e}, d) IN
                    /\ DOMAIN walk.depth = Within(ctx, {e}, d)
                    /\ \A f \in DOMAIN walk.depth : \A n \in {0, 1, 2} :
                         walk.depth[f] <= n <=> f \in Within(ctx, {e}, IF n < d THEN n ELSE d)
    BY Zenon DEF NeighborsServed
<1> DEFINE found == {e} \cap g.entities
           start == [depth |-> [f \in found |-> 0], frontier |-> found, evaluated |-> {},
                     assertions |-> {}]
           first == Layer(ctx, start, 1)
           second == Layer(ctx, first, 2)
           fresh1 == (UNION {Edges(g, f) : f \in start.frontier}) \ start.evaluated
           ends1 == UNION {EndsOf(g.assertions[i]) : i \in fresh1 \cap Entitled(ctx)}
           fresh2 == (UNION {Edges(g, f) : f \in first.frontier}) \ first.evaluated
           ends2 == UNION {EndsOf(g.assertions[i]) : i \in fresh2 \cap Entitled(ctx)}
<1>1. found = {e} /\ start.frontier = {e} /\ start.evaluated = {} /\ start.depth = [f \in {e} |-> 0]
    OBVIOUS
<1>2. /\ first.depth = Joined(start.depth, [f \in ends1 |-> 1])
      /\ first.frontier = ends1 \ DOMAIN start.depth
      /\ first.evaluated = start.evaluated \cup fresh1
    <2> HIDE DEF start
    <2> QED BY LayerServed
<1>3. second.depth = Joined(first.depth, [f \in ends2 |-> 2])
    <2> HIDE DEF first
    <2> QED BY LayerServed
<1>4. Within(ctx, {e}, 0) = {e} /\ Within(ctx, {e}, 1) = Around({e})
      /\ Within(ctx, {e}, 2) = Around(Around({e}))
    <2>1. {e} \cap g.entities = {e}
        OBVIOUS
    <2>2. Within(ctx, {e}, 0) = {e} \cap g.entities
        BY DEF Within
    <2>3. Within(ctx, {e}, 1) = Around({e} \cap g.entities)
        BY DEF Within
    <2>4. Within(ctx, {e}, 2) = Around(Around({e} \cap g.entities))
        BY DEF Within
    <2> HIDE DEF Around, edges, g
    <2> QED BY <2>1, <2>2, <2>3, <2>4
<1>5. fresh1 = Edges(g, e)
    <2> HIDE DEF start
    <2> QED BY <1>1
<1> HIDE DEF start, first, second, fresh1, fresh2
<1>6. first.frontier = ends1 \ {e} /\ first.evaluated = fresh1
    BY <1>1, <1>2
<1>7. /\ DOMAIN first.depth = {e} \cup ends1
      /\ first.depth[e] = 0
      /\ \A f \in ends1 \ {e} : first.depth[f] = 1
    <2> HIDE DEF ends1
    <2> QED BY <1>1, <1>2 DEF Joined
<1>8. /\ DOMAIN second.depth = {e} \cup ends1 \cup ends2
      /\ \A f \in {e} \cup ends1 : second.depth[f] = first.depth[f]
      /\ \A f \in ends2 \ ({e} \cup ends1) : second.depth[f] = 2
    <2> HIDE DEF ends1, ends2
    <2> QED BY <1>7, <1>3 DEF Joined
<1>9. \A f : \A i \in Entitled(ctx) :
        i \in Edges(g, f) <=> g.assertions[i].value.kind = "entity" /\ f \in EndsOf(g.assertions[i])
    BY EdgeEnds
<1>10. Around({e}) = {e} \cup ends1
    <2>1. ASSUME NEW f \in ends1 PROVE f \in Around({e})
        <3>1. PICK i \in Edges(g, e) \cap Entitled(ctx) : f \in EndsOf(g.assertions[i])
            BY <1>5
        <3>2. EndsOf(g.assertions[i]) \in edges /\ e \in EndsOf(g.assertions[i])
            BY <3>1, <1>9
        <3> HIDE DEF edges
        <3> QED BY <3>1, <3>2
    <2>2. ASSUME NEW ends \in edges, ends \cap {e} # {} PROVE ends \subseteq ends1
        <3>1. PICK i \in Entitled(ctx) : g.assertions[i].value.kind = "entity"
                                         /\ ends = EndsOf(g.assertions[i])
            OBVIOUS
        <3>2. i \in fresh1
            BY <3>1, <2>2, <1>5, <1>9
        <3> QED BY <3>1, <3>2
    <2> HIDE DEF ends1, edges
    <2> QED BY <2>1, <2>2
<1>11. Around({e} \cup ends1) = {e} \cup ends1 \cup ends2
    <2> DEFINE near == {e} \cup ends1
    <2>1. ASSUME NEW f \in ends2 PROVE f \in Around(near)
        <3>1. PICK i \in fresh2 \cap Entitled(ctx) : f \in EndsOf(g.assertions[i])
            OBVIOUS
        <3>2. PICK h \in first.frontier : i \in Edges(g, h)
            BY <3>1 DEF fresh2
        <3>3. EndsOf(g.assertions[i]) \in edges /\ h \in EndsOf(g.assertions[i]) /\ h \in near
            BY <3>1, <3>2, <1>6, <1>9
        <3> HIDE DEF edges, near
        <3> QED BY <3>1, <3>3
    <2>2. ASSUME NEW ends \in edges, ends \cap near # {} PROVE ends \subseteq near \cup ends2
        <3>1. PICK i \in Entitled(ctx) : g.assertions[i].value.kind = "entity"
                                         /\ ends = EndsOf(g.assertions[i])
            OBVIOUS
        <3>2. PICK h \in near : h \in EndsOf(g.assertions[i])
            BY <2>2, <3>1
        <3>3. i \in Edges(g, h)
            BY <3>1, <3>2, <1>9
        <3>4. CASE i \in fresh1
            BY <3>1, <3>4
        <3>5. CASE i \notin fresh1
            <4>1. h # e
                BY <3>3, <3>5, <1>5
            <4>2. h \in first.frontier /\ i \notin first.evaluated
                BY <4>1, <3>2, <3>5, <1>6
            <4>3. i \in fresh2
                BY <4>2, <3>3, Zenon DEF fresh2
            <4> QED BY <4>3, <3>1
        <3> QED BY <3>4, <3>5
    <2> HIDE DEF ends1, ends2, edges
    <2> QED BY <2>1, <2>2
<1>12. /\ Within(ctx, {e}, 0) = {e}
       /\ Within(ctx, {e}, 1) = DOMAIN first.depth
       /\ Within(ctx, {e}, 2) = DOMAIN second.depth
    BY <1>4, <1>7, <1>8, <1>10, <1>11
<1> HIDE DEF edges, Around, ends1, ends2
<1>13. CASE d = 1
    <2>1. GetNeighborhood(ctx, {e}, d) = first
        BY <1>13, Zenon DEF GetNeighborhood, first, start
    <2>2. ASSUME NEW f \in DOMAIN first.depth, NEW n \in {0, 1, 2}
          PROVE  first.depth[f] <= n <=> f \in Within(ctx, {e}, IF n < 1 THEN n ELSE 1)
        <3>1. first.depth[f] = IF f = e THEN 0 ELSE 1
            BY <1>7
        <3>2. CASE n = 0
            <4>1. (IF n < 1 THEN n ELSE 1) = 0 /\ (first.depth[f] <= n <=> f = e)
                BY <3>1, <3>2
            <4>2. f \in Within(ctx, {e}, 0) <=> f = e
                BY <1>12
            <4> QED BY <4>1, <4>2
        <3>3. CASE n # 0
            BY <3>1, <3>3, <1>12
        <3> QED BY <3>2, <3>3
    <2> QED BY <2>1, <2>2, <1>12, <1>13
<1>14. CASE d = 2
    <2>1. GetNeighborhood(ctx, {e}, d) = second
        <3>1. d # 1
            BY <1>14
        <3> QED BY <3>1, Zenon DEF GetNeighborhood, second, first, start
    <2>2. ASSUME NEW f \in DOMAIN second.depth, NEW n \in {0, 1, 2}
          PROVE  second.depth[f] <= n <=> f \in Within(ctx, {e}, IF n < 2 THEN n ELSE 2)
        <3>1. second.depth[f] = IF f = e THEN 0 ELSE IF f \in ends1 THEN 1 ELSE 2
            BY <1>7, <1>8
        <3>2. Within(ctx, {e}, 1) = {e} \cup ends1
            BY <1>12, <1>7
        <3>3. CASE n = 0
            <4>1. (IF n < 2 THEN n ELSE 2) = 0 /\ (second.depth[f] <= n <=> f = e)
                BY <3>1, <3>3
            <4>2. f \in Within(ctx, {e}, 0) <=> f = e
                BY <1>12
            <4> QED BY <4>1, <4>2
        <3>4. CASE n = 1
            BY <3>1, <3>2, <3>4
        <3>5. CASE n = 2
            BY <3>1, <3>5, <1>12
        <3> QED BY <3>3, <3>4, <3>5
    <2> QED BY <2>1, <2>2, <1>12, <1>14
<1> QED BY <1>13, <1>14

-----------------------------------------------------------------------------
(* Search.                                                                 *)

LEMMA ImageIsFinite ==
    ASSUME NEW f, IsFiniteSet(DOMAIN f)
    PROVE  IsFiniteSet({f[x] : x \in DOMAIN f})
<1> DEFINE T == {f[x] : x \in DOMAIN f}
           h == [x \in DOMAIN f |-> f[x]]
<1>1. h \in Surjection(DOMAIN f, T)
    BY DEF Surjection
<1> QED BY <1>1, FS_Surjection

(* A finite set has an element that none is ahead of, if being ahead is a  *)
(* strict order.                                                           *)
LEMMA FirstExists ==
    ASSUME NEW hits, IsFiniteSet(hits), hits # {},
           \A h \in hits : h.class \in Nat /\ h.score \in Nat
    PROVE  \E h \in hits : \A k \in hits : ~Ahead(k, h)
<1> DEFINE Before(h) == {k \in hits : Ahead(k, h)}
           sizes == {Cardinality(Before(h)) : h \in hits}
<1>1. ASSUME NEW h \in hits PROVE IsFiniteSet(Before(h)) /\ Cardinality(Before(h)) \in Nat
    <2>1. Before(h) \in SUBSET hits
        OBVIOUS
    <2>2. IsFiniteSet(Before(h))
        BY <2>1, FS_Subset
    <2> QED BY <2>2, FS_CardinalityType
<1>2. sizes \subseteq Nat /\ sizes # {}
    <2> HIDE DEF Before
    <2> QED BY <1>1
<1>3. PICK n \in sizes : \A m \in sizes : n <= m
    <2> HIDE DEF sizes
    <2> QED BY <1>2, LeastExists
<1>4. PICK h \in hits : n = Cardinality(Before(h))
    OBVIOUS
<1>5. ASSUME NEW k \in hits PROVE ~Ahead(k, h)
    <2> SUFFICES ASSUME Ahead(k, h) PROVE FALSE
        OBVIOUS
    <2>1. /\ h.class \in Nat /\ h.score \in Nat /\ k.class \in Nat /\ k.score \in Nat
          /\ (k.class < h.class \/ (k.class = h.class /\ k.score > h.score))
        BY DEF Ahead
    <2>2. k \in Before(h)
        OBVIOUS
    <2>3. k \notin Before(k)
        BY <2>1 DEF Ahead
    <2>4. Before(k) \in SUBSET Before(h)
        <3> SUFFICES ASSUME NEW j \in Before(k) PROVE Ahead(j, h)
            OBVIOUS
        <3>1. /\ j.class \in Nat /\ j.score \in Nat
              /\ (j.class < k.class \/ (j.class = k.class /\ j.score > k.score))
            BY DEF Ahead
        <3>2. j.class < h.class \/ (j.class = h.class /\ j.score > h.score)
            BY <2>1, <3>1
        <3> QED BY <3>2 DEF Ahead
    <2> HIDE DEF Before
    <2>5. Cardinality(Before(k)) <= Cardinality(Before(h))
          /\ Cardinality(Before(k)) # Cardinality(Before(h))
        BY <1>1, <2>2, <2>3, <2>4, FS_Subset
    <2>6. Cardinality(Before(h)) <= Cardinality(Before(k))
        BY <1>3, <1>4
    <2>7. Cardinality(Before(h)) \in Nat /\ Cardinality(Before(k)) \in Nat
        BY <1>1
    <2> QED BY <2>5, <2>6, <2>7
<1> QED BY <1>5

LEMMA BestHitIsFirst ==
    ASSUME NEW ctx, NEW query, IsFiniteSet(Hits(ctx, query)), Hits(ctx, query) # {},
           \A h \in Hits(ctx, query) : h.class \in Nat /\ h.score \in Nat
    PROVE  /\ Len(SearchEntities(ctx, query, 1)) = 1
           /\ ~\E h \in Hits(ctx, query) : Ahead(h, SearchEntities(ctx, query, 1)[1])
<1> DEFINE hits == Hits(ctx, query)
           length == IF 1 < Cardinality(hits) THEN 1 ELSE Cardinality(hits)
           IsBest(best) ==
             /\ \A m, n \in 1..length : m < n => best[m] # best[n] /\ ~Ahead(best[n], best[m])
             /\ \A h \in hits : \A n \in 1..length :
                  Ahead(h, best[n]) => \E m \in 1..length : best[m] = h
           found == CHOOSE best \in [1..length -> hits] : IsBest(best)
<1>1. length = 1
    <2>1. Cardinality(hits) \in Nat /\ Cardinality(hits) # 0
        BY FS_CardinalityType, FS_EmptySet
    <2> HIDE DEF hits
    <2> QED BY <2>1
<1>2. SearchEntities(ctx, query, 1) = found
    BY Zenon DEF SearchEntities
<1>3. PICK h \in hits : \A k \in hits : ~Ahead(k, h)
    BY FirstExists
<1>4. [n \in 1..length |-> h] \in [1..length -> hits] /\ IsBest([n \in 1..length |-> h])
    <2> HIDE DEF length, hits
    <2> QED BY <1>1, <1>3
<1>5. found \in [1..length -> hits] /\ IsBest(found)
    <2> HIDE DEF IsBest, hits, length
    <2> QED BY <1>4
<1>6. Len(found) = 1 /\ found[1] \in hits
    <2> HIDE DEF found, hits, length
    <2> QED BY <1>1, <1>5
<1>7. ASSUME NEW k \in hits PROVE ~Ahead(k, found[1])
    <2> SUFFICES ASSUME Ahead(k, found[1]) PROVE FALSE
        OBVIOUS
    <2>1. found[1] = k
        <3>1. 1..1 = {1}
            OBVIOUS
        <3> HIDE DEF found, hits, length
        <3> QED BY <3>1, <1>1, <1>5
    <2>2. Ahead(k, k) /\ k.class \in Nat /\ k.score \in Nat
        BY <2>1
    <2> HIDE DEF found, hits
    <2> QED BY <2>2 DEF Ahead
<1> QED BY <1>2, <1>6, <1>7

LEMMA HitsAreServed ==
    ASSUME ReadAssumption, NEW r, NEW ctx \in ContextsOf(r),
           WellFormed(r.graph), IsContent(r.graph)
    PROVE  HitsServed(ctx)
<1> DEFINE g == ctx.revision.graph
           About(e, query) == {i \in Entitled(ctx) : g.assertions[i].subject = e
                                                     /\ Matches(g.assertions[i], query)}
<1>1. g = r.graph
    BY ContextFacts
<1> SUFFICES ASSUME NEW query \in Queries
    PROVE  /\ {h.entity : h \in Hits(ctx, query)}
                = {e \in g.entities : e = query.raw \/ About(e, query) # {}}
           /\ \A h \in Hits(ctx, query) : h.assertions = About(h.entity, query)
           /\ Hits(ctx, query) # {} =>
                /\ Len(SearchEntities(ctx, query, 1)) = 1
                /\ ~\E h \in Hits(ctx, query) : Ahead(h, SearchEntities(ctx, query, 1)[1])
    BY Zenon DEF HitsServed
<1> DEFINE hits == Hits(ctx, query)
           admitted == Admit(Witnesses(g, query), ctx)
           found == Found(g, query, admitted)
           Matched(e) == {i \in admitted : g.assertions[i].subject = e}
<1>2. Witnesses(g, query) \subseteq DOMAIN g.assertions
    BY DEF Witnesses, ByPredicate, ByTerm, ByToken
<1>3. admitted = Witnesses(g, query) \cap Entitled(ctx)
    BY <1>2, AdmitServes
<1>4. ASSUME NEW i \in DOMAIN g.assertions
      PROVE  i \in Witnesses(g, query) <=> Matches(g.assertions[i], query)
    <2> DEFINE a == g.assertions[i]
    <2>1. i \in Witnesses(g, query) <=>
            \/ a.predicate = query.predicate
            \/ IsTerm(a, query.term)
            \/ \E t \in query.tokens : t \in Tokens(a)
        <3>1. i \in ByPredicate(g, query.predicate) <=> a.predicate = query.predicate
            BY DEF ByPredicate
        <3>2. i \in ByTerm(g, query.term) <=> IsTerm(a, query.term)
            BY DEF ByTerm
        <3>3. \A t : i \in ByToken(g, t) <=> t \in Tokens(a)
            BY DEF ByToken
        <3> HIDE DEF a
        <3> QED BY <3>1, <3>2, <3>3 DEF Witnesses
    <2>2. (\E t \in query.tokens : t \in Tokens(a)) <=>
            a.value.kind = "literal" /\ a.value.of \cap query.tokens # {}
        BY DEF Tokens
    <2> QED BY <2>1, <2>2 DEF Matches
<1>5. admitted = {i \in Entitled(ctx) : Matches(g.assertions[i], query)}
    <2> HIDE DEF admitted, g
    <2> QED BY <1>3, <1>4, EntitledAreAssertions DEF g
<1>6. \A e : Matched(e) = About(e, query)
    <2> HIDE DEF admitted
    <2> QED BY <1>5
<1>7. hits = {Hit(g, query, e, admitted) : e \in found}
    BY DEF Hits
<1>8. \A e : /\ Hit(g, query, e, admitted).entity = e
             /\ Hit(g, query, e, admitted).assertions = Matched(e)
             /\ Hit(g, query, e, admitted).score = Score(g, query, Matched(e))
             /\ Hit(g, query, e, admitted).class = RankClass(MatchKinds(g, query, e, Matched(e)))
    <2> HIDE DEF admitted, g
    <2> QED BY DEF Hit
<1>9. found = {e \in g.entities : e = query.raw \/ About(e, query) # {}}
    <2>1. found = {g.assertions[i].subject : i \in admitted} \cup ({query.raw} \cap g.entities)
        BY DEF Found
    <2>2. ASSUME NEW i \in admitted PROVE g.assertions[i].subject \in g.entities
        <3>1. i \in DOMAIN g.assertions
            BY <1>5, EntitledAreAssertions
        <3> QED BY <3>1, <1>1 DEF WellFormed
    <2>3. ASSUME NEW e PROVE (\E i \in admitted : g.assertions[i].subject = e) <=> About(e, query) # {}
        <3>1. Matched(e) = About(e, query)
            BY <1>6
        <3> HIDE DEF admitted, g, About
        <3> QED BY <3>1
    <2> HIDE DEF admitted, g, About, found
    <2> QED BY <2>1, <2>2, <2>3
<1>10. ASSUME NEW h \in hits
       PROVE  \E e \in found : h.entity = e /\ h.assertions = About(e, query)
                               /\ h.score = Score(g, query, Matched(e))
                               /\ h.class = RankClass(MatchKinds(g, query, e, Matched(e)))
    <2>1. PICK e \in found : h = Hit(g, query, e, admitted)
        BY <1>7
    <2> HIDE DEF admitted, g, About, found, Matched
    <2> QED BY <2>1, <1>6, <1>8
<1>11. {h.entity : h \in hits} = found
    <2>1. ASSUME NEW e \in found PROVE \E h \in hits : h.entity = e
        <3>1. Hit(g, query, e, admitted) \in hits
            BY <1>7
        <3> HIDE DEF admitted, g, hits
        <3> QED BY <3>1, <1>8
    <2> HIDE DEF hits, found
    <2> QED BY <2>1, <1>10
<1>12. \A h \in hits : h.assertions = About(h.entity, query)
    <2> HIDE DEF hits, found, About
    <2> QED BY <1>10
<1>13. IsFiniteSet(admitted)
    <2>1. IsFiniteSet(DOMAIN g.assertions)
        BY <1>1 DEF IsContent
    <2>2. admitted \in SUBSET DOMAIN g.assertions
        BY <1>5, EntitledAreAssertions
    <2> QED BY <2>1, <2>2, FS_Subset
<1>14. IsFiniteSet(hits)
    <2> DEFINE subjects == [i \in admitted |-> g.assertions[i].subject]
               list == [e \in found |-> Hit(g, query, e, admitted)]
    <2>1. IsFiniteSet({subjects[i] : i \in DOMAIN subjects})
        <3> HIDE DEF admitted
        <3> QED BY <1>13, ImageIsFinite
    <2>2. {subjects[i] : i \in DOMAIN subjects} = {g.assertions[i].subject : i \in admitted}
        <3> HIDE DEF admitted, g
        <3> QED OBVIOUS
    <2>3. IsFiniteSet({query.raw}) /\ {query.raw} \cap g.entities \in SUBSET {query.raw}
        BY FS_Singleton
    <2>4. IsFiniteSet({query.raw} \cap g.entities)
        BY <2>3, FS_Subset
    <2>5. IsFiniteSet(found)
        BY <2>1, <2>2, <2>4, FS_Union DEF Found
    <2>6. IsFiniteSet({list[e] : e \in DOMAIN list})
        <3> HIDE DEF found
        <3> QED BY <2>5, ImageIsFinite
    <2>7. {list[e] : e \in DOMAIN list} = hits
        <3> HIDE DEF found, admitted, hits, g
        <3> QED BY <1>7
    <2> QED BY <2>6, <2>7
<1>15. ASSUME NEW h \in hits PROVE h.class \in Nat /\ h.score \in Nat
    <2>1. PICK e \in found : /\ h.score = Score(g, query, Matched(e))
                             /\ h.class = RankClass(MatchKinds(g, query, e, Matched(e)))
        BY <1>10
    <2>2. \A kinds : RankClass(kinds) \in {0, 1, 2}
        BY DEF RankClass
    <2> DEFINE tokens == UNION {Tokens(g.assertions[i]) \cap query.tokens : i \in Matched(e)}
    <2>3. Cardinality(Matched(e)) \in Nat
        <3>1. Matched(e) \in SUBSET admitted
            OBVIOUS
        <3> HIDE DEF Matched, admitted
        <3> QED BY <3>1, <1>13, FS_Subset, FS_CardinalityType
    <2>4. Cardinality(tokens) \in Nat
        <3>1. tokens \in SUBSET query.tokens
            OBVIOUS
        <3>2. IsFiniteSet(query.tokens)
            BY DEF ReadAssumption
        <3> HIDE DEF tokens
        <3> QED BY <3>1, <3>2, FS_Subset, FS_CardinalityType
    <2>5. Score(g, query, Matched(e)) = 10 * Cardinality(tokens) + Cardinality(Matched(e))
        BY DEF Score
    <2> HIDE DEF tokens, Matched, g
    <2> QED BY <2>1, <2>2, <2>3, <2>4, <2>5
<1>16. hits # {} => /\ Len(SearchEntities(ctx, query, 1)) = 1
                    /\ ~\E h \in hits : Ahead(h, SearchEntities(ctx, query, 1)[1])
    <2> SUFFICES ASSUME hits # {}
                 PROVE  /\ Len(SearchEntities(ctx, query, 1)) = 1
                        /\ ~\E h \in hits : Ahead(h, SearchEntities(ctx, query, 1)[1])
        OBVIOUS
    <2> QED BY <1>14, <1>15, BestHitIsFirst
<1> QED BY <1>9, <1>11, <1>12, <1>16

-----------------------------------------------------------------------------
(* Contents: the recursive function has its value, and every history of    *)
(* it continues one with one change less.                                  *)

NextContents(contents) ==
    [h \in Longer(contents) |-> ChildOf(contents[Front(h)], Change[Last(h)])]

AreContents(f, k) ==
    f = [n \in 0..k |-> IF n = 0 THEN [h \in {<<>>} |-> NoRevision] ELSE NextContents(f[n - 1])]

LEMMA ContentsExist ==
    ASSUME NEW k \in Nat
    PROVE  \E f : AreContents(f, k)
<1> DEFINE Missing == {n \in Nat : ~\E f : AreContents(f, n)}
<1> SUFFICES ASSUME Missing # {} PROVE FALSE
    OBVIOUS
<1>1. PICK n \in Missing : \A m \in Missing : n <= m
    <2>1. Missing \subseteq Nat
        OBVIOUS
    <2> HIDE DEF Missing
    <2> QED BY <2>1, LeastExists
<1>2. n # 0
    <2> DEFINE f == [m \in 0..0 |-> [h \in {<<>>} |-> NoRevision]]
    <2>1. AreContents(f, 0)
        <3> DEFINE base == [h \in {<<>>} |-> NoRevision]
        <3> HIDE DEF base
        <3>1. 0..0 = {0}
            OBVIOUS
        <3> QED BY <3>1 DEF AreContents, base
    <2> HIDE DEF f
    <2> QED BY <2>1
<1>3. n - 1 \in Nat /\ n - 1 \notin Missing
    <2>1. n \in Nat
        OBVIOUS
    <2>2. n - 1 \in Nat /\ ~(n <= n - 1)
        BY <2>1, <1>2
    <2> HIDE DEF Missing
    <2> QED BY <2>2, <1>1
<1>4. PICK f : AreContents(f, n - 1)
    BY <1>3
<1> DEFINE longer == [m \in 0..n |-> IF m = n THEN NextContents(f[n - 1]) ELSE f[m]]
<1>5. AreContents(longer, n)
    <2> DEFINE base == [h \in {<<>>} |-> NoRevision]
    <2>1. n \in Nat /\ n # 0
        BY <1>2
    <2>2. f = [m \in 0..(n - 1) |-> IF m = 0 THEN base ELSE NextContents(f[m - 1])]
        BY <1>4 DEF AreContents
    <2> HIDE DEF base
    <2>3. ASSUME NEW m \in 0..n
          PROVE  longer[m] = IF m = 0 THEN base ELSE NextContents(longer[m - 1])
        <3>1. CASE m = n
            <4>1. longer[m] = NextContents(f[n - 1]) /\ longer[m - 1] = f[n - 1]
                BY <2>1, <3>1
            <4> QED BY <4>1, <2>1, <3>1
        <3>2. CASE m # n
            <4>1. m \in 0..(n - 1)
                BY <2>1, <3>2
            <4>2. longer[m] = f[m] /\ (m # 0 => longer[m - 1] = f[m - 1])
                BY <2>1, <4>1
            <4>3. f[m] = IF m = 0 THEN base ELSE NextContents(f[m - 1])
                BY <2>2, <4>1
            <4> QED BY <4>2, <4>3
        <3> QED BY <3>1, <3>2
    <2>4. longer = [m \in 0..n |-> longer[m]]
        OBVIOUS
    <2> HIDE DEF longer
    <2>5. longer = [m \in 0..n |-> IF m = 0 THEN base ELSE NextContents(longer[m - 1])]
        BY <2>3, <2>4
    <2> QED BY <2>5 DEF AreContents, base
<1> QED BY <1>5

LEMMA ContentsAre == AreContents(Contents, MaxCalls)
<1>1. \E f : AreContents(f, MaxCalls)
    BY ContentsExist, SpacesAssumption
<1>2. Contents = CHOOSE f : AreContents(f, MaxCalls)
    BY DEF Contents, AreContents, NextContents
<1> QED BY <1>1, <1>2

-----------------------------------------------------------------------------
(* Materialization: what one item does, and what all of them do.           *)

IsItem(item) == item.kind \in {"assertion", "supersede"} => IsClaim(item.assertion)

LEMMA PutKeeps ==
    ASSUME NEW g, IsContent(g), NEW x, IsClaim(x), NEW id, NEW gone
    PROVE  /\ IsContent([g EXCEPT !.assertions = Put(@, id, x)])
           /\ IsContent([g EXCEPT !.assertions = Without(@, gone)])
           /\ IsContent([g EXCEPT !.assertions = Put(Without(@, gone), id, x)])
<1> DEFINE left == Without(g.assertions, gone)
<1>1. IsGraph(g) /\ IsFiniteSet(DOMAIN g.assertions) /\ \A i \in DOMAIN g.assertions : IsClaim(g.assertions[i])
    BY DEF IsContent
<1>2. DOMAIN left = DOMAIN g.assertions \ gone /\ \A i \in DOMAIN left : left[i] = g.assertions[i]
    BY DEF Without
<1>3. IsFiniteSet(DOMAIN left)
    BY <1>1, <1>2, FS_Subset
<1>4. ASSUME NEW f, IsFiniteSet(DOMAIN f), \A i \in DOMAIN f : IsClaim(f[i])
      PROVE  IsFiniteSet(DOMAIN Put(f, id, x)) /\ \A i \in DOMAIN Put(f, id, x) : IsClaim(Put(f, id, x)[i])
    <2>1. DOMAIN Put(f, id, x) = DOMAIN f \cup {id}
          /\ \A i \in DOMAIN Put(f, id, x) : Put(f, id, x)[i] = IF i = id THEN x ELSE f[i]
        BY DEF Put
    <2>2. IsFiniteSet(DOMAIN f \cup {id})
        BY <1>4, FS_AddElement
    <2> QED BY <2>1, <2>2, <1>4
<1>5. ASSUME NEW f, IsFiniteSet(DOMAIN f), \A i \in DOMAIN f : IsClaim(f[i])
      PROVE  IsContent([g EXCEPT !.assertions = f])
    BY <1>1, <1>5 DEF IsContent, IsGraph
<1>6. \A i \in DOMAIN left : IsClaim(left[i])
    BY <1>1, <1>2
<1>7. IsContent([g EXCEPT !.assertions = Put(g.assertions, id, x)])
    BY <1>1, <1>4, <1>5
<1>8. IsContent([g EXCEPT !.assertions = left])
    BY <1>3, <1>6, <1>5
<1>9. IsContent([g EXCEPT !.assertions = Put(left, id, x)])
    BY <1>3, <1>6, <1>4, <1>5
<1> QED BY <1>7, <1>8, <1>9

LEMMA OtherFieldsKeep ==
    ASSUME NEW g, IsContent(g), NEW x
    PROVE  /\ IsContent([g EXCEPT !.entities = x])
           /\ IsContent([g EXCEPT !.aliases = x])
           /\ IsContent([g EXCEPT !.evidence = x])
BY DEF IsContent, IsGraph

LEMMA MergeKeeps ==
    ASSUME NEW g, IsContent(g), NEW d, Merge(g, d) # Failed
    PROVE  IsContent(Merge(g, d))
<1> DEFINE gone == d.subjects \ {d.target}
           entities == g.entities \ gone
           after == [i \in DOMAIN g.assertions |-> Redirect(g.assertions[i], gone, d.target)]
           aliases == [i \in DOMAIN g.aliases |->
                         [g.aliases[i] EXCEPT !.entity = IF @ \in gone THEN d.target ELSE @]]
           evidence == g.evidence
<1>1. Merge(g, d) = [entities |-> entities, assertions |-> after, aliases |-> aliases,
                     evidence |-> evidence]
    BY Zenon DEF Merge
<1>2. ASSUME NEW i \in DOMAIN after PROVE IsClaim(after[i])
    <2>1. IsClaim(g.assertions[i])
        BY DEF IsContent
    <2> QED BY <2>1 DEF IsClaim, Redirect
<1>3. DOMAIN after = DOMAIN g.assertions
    OBVIOUS
<1>4. IsFiniteSet(DOMAIN after)
    BY <1>3 DEF IsContent
<1> HIDE DEF entities, after, aliases, evidence
<1> QED BY <1>1, <1>2, <1>4 DEF IsContent, IsGraph

LEMMA ApplyKeeps ==
    ASSUME NEW g, IsContent(g), NEW item, IsItem(item), NEW space, Apply(g, item, space) # Failed
    PROVE  IsContent(Apply(g, item, space))
<1>1. CASE g # Failed /\ item.kind = "entity"
    BY <1>1, OtherFieldsKeep DEF Apply, ProposeEntity
<1>2. CASE g # Failed /\ item.kind = "assertion"
    <2>1. Apply(g, item, space) = ProposeAssertion(g, item) /\ IsClaim(item.assertion)
        BY <1>2 DEF Apply, IsItem
    <2>2. IsContent([g EXCEPT !.assertions = Put(@, item.id, item.assertion)])
        BY <2>1, PutKeeps
    <2> QED BY <2>1, <2>2 DEF ProposeAssertion
<1>3. CASE g # Failed /\ item.kind = "retract"
    <2>1. Apply(g, item, space) = RetractAssertion(g, item)
        BY <1>3 DEF Apply
    <2>2. IsClaim([subject |-> 0, value |-> 0])
        BY DEF IsClaim
    <2>3. IsContent([g EXCEPT !.assertions = Without(@, {item.target})])
        BY <2>2, PutKeeps
    <2> QED BY <2>1, <2>3 DEF RetractAssertion
<1>4. CASE g # Failed /\ item.kind = "supersede"
    <2>1. Apply(g, item, space) = SupersedeAssertion(g, item) /\ IsClaim(item.assertion)
        BY <1>4 DEF Apply, IsItem
    <2>2. IsContent([g EXCEPT !.assertions =
                       Put(Without(@, {item.target}), item.id, item.assertion)])
        BY <2>1, PutKeeps
    <2> QED BY <2>1, <2>2 DEF SupersedeAssertion
<1>5. CASE g # Failed /\ item.kind = "identity"
    <2> DEFINE d == item.decision
    <2>1. Apply(g, item, space) = DecideIdentity(g, item, space)
        BY <1>5 DEF Apply
    <2>2. DecideIdentity(g, item, space) \in {Failed, g, AddAlias(g, d), RemoveAlias(g, d), Merge(g, d)}
        BY DEF DecideIdentity
    <2>3. AddAlias(g, d) # Failed => IsContent(AddAlias(g, d))
        BY OtherFieldsKeep DEF AddAlias
    <2>4. RemoveAlias(g, d) # Failed => IsContent(RemoveAlias(g, d))
        BY OtherFieldsKeep DEF RemoveAlias
    <2>5. Merge(g, d) # Failed => IsContent(Merge(g, d))
        BY MergeKeeps
    <2> QED BY <2>1, <2>2, <2>3, <2>4, <2>5
<1>6. CASE g = Failed \/ item.kind \notin {"entity", "assertion", "retract", "supersede", "identity"}
    BY <1>6 DEF Apply
<1> QED BY <1>1, <1>2, <1>3, <1>4, <1>5, <1>6

AreApplied(f, k, parent, c, dispositions) ==
    f = [n \in 0..k |->
            IF n = 0 THEN parent.graph
            ELSE IF c.items[n].item \in AcceptedItems(dispositions)
            THEN Apply(f[n - 1], c.items[n], parent.space)
            ELSE f[n - 1]]

LEMMA AppliedExists ==
    ASSUME NEW k \in Nat, NEW parent, NEW c, NEW dispositions
    PROVE  \E f : AreApplied(f, k, parent, c, dispositions)
<1> DEFINE Missing == {n \in Nat : ~\E f : AreApplied(f, n, parent, c, dispositions)}
           After(g, n) == IF c.items[n].item \in AcceptedItems(dispositions)
                          THEN Apply(g, c.items[n], parent.space) ELSE g
<1>0. \A f, n : AreApplied(f, n, parent, c, dispositions) <=>
                f = [m \in 0..n |-> IF m = 0 THEN parent.graph ELSE After(f[m - 1], m)]
    BY DEF AreApplied
<1> SUFFICES ASSUME Missing # {} PROVE FALSE
    OBVIOUS
<1> HIDE DEF After
<1>1. PICK n \in Missing : \A m \in Missing : n <= m
    <2>1. Missing \subseteq Nat
        OBVIOUS
    <2> HIDE DEF Missing
    <2> QED BY <2>1, LeastExists
<1>2. n # 0
    <2> DEFINE f == [m \in 0..0 |-> parent.graph]
    <2>1. f = [m \in 0..0 |-> IF m = 0 THEN parent.graph ELSE After(f[m - 1], m)]
        <3>1. 0..0 = {0}
            OBVIOUS
        <3> QED BY <3>1
    <2> HIDE DEF f
    <2>2. AreApplied(f, 0, parent, c, dispositions)
        BY <2>1, <1>0
    <2> QED BY <2>2
<1>3. n - 1 \in Nat /\ n - 1 \notin Missing
    <2>1. n \in Nat
        OBVIOUS
    <2>2. n - 1 \in Nat /\ ~(n <= n - 1)
        BY <2>1, <1>2
    <2> HIDE DEF Missing
    <2> QED BY <2>2, <1>1
<1>4. PICK f : AreApplied(f, n - 1, parent, c, dispositions)
    BY <1>3
<1> DEFINE longer == [m \in 0..n |-> IF m = n THEN After(f[n - 1], n) ELSE f[m]]
<1>5. longer = [m \in 0..n |-> IF m = 0 THEN parent.graph ELSE After(longer[m - 1], m)]
    <2>1. n \in Nat /\ n # 0
        BY <1>2
    <2>2. f = [m \in 0..(n - 1) |-> IF m = 0 THEN parent.graph ELSE After(f[m - 1], m)]
        BY <1>4, <1>0
    <2>3. ASSUME NEW m \in 0..n
          PROVE  longer[m] = IF m = 0 THEN parent.graph ELSE After(longer[m - 1], m)
        <3>1. CASE m = n
            <4>1. longer[m] = After(f[n - 1], n) /\ longer[m - 1] = f[n - 1]
                BY <2>1, <3>1
            <4> QED BY <4>1, <2>1, <3>1
        <3>2. CASE m # n
            <4>1. m \in 0..(n - 1)
                BY <2>1, <3>2
            <4>2. longer[m] = f[m] /\ (m # 0 => longer[m - 1] = f[m - 1])
                BY <2>1, <4>1
            <4>3. f[m] = IF m = 0 THEN parent.graph ELSE After(f[m - 1], m)
                BY <2>2, <4>1
            <4> QED BY <4>2, <4>3
        <3> QED BY <3>1, <3>2
    <2>4. longer = [m \in 0..n |-> longer[m]]
        OBVIOUS
    <2> HIDE DEF longer
    <2> QED BY <2>3, <2>4
<1> HIDE DEF longer
<1>6. AreApplied(longer, n, parent, c, dispositions)
    BY <1>5, <1>0
<1> QED BY <1>6

(* The graphs after none, one and all of the items.                        *)
Applying(f, parent, c, dispositions) ==
    /\ Applied(parent, c, dispositions) = f[Len(c.items)]
    /\ f[0] = parent.graph
    /\ \A n \in 1..Len(c.items) :
         f[n] = IF c.items[n].item \in AcceptedItems(dispositions)
                THEN Apply(f[n - 1], c.items[n], parent.space)
                ELSE f[n - 1]

LEMMA AppliedIs ==
    ASSUME NEW parent, NEW c, Len(c.items) \in Nat, NEW dispositions
    PROVE  \E f : Applying(f, parent, c, dispositions)
<1> DEFINE f == CHOOSE f : AreApplied(f, Len(c.items), parent, c, dispositions)
<1>1. AreApplied(f, Len(c.items), parent, c, dispositions)
    BY AppliedExists
<1>2. Applied(parent, c, dispositions) = f[Len(c.items)]
    BY DEF Applied, AreApplied
<1> HIDE DEF f
<1> DEFINE After(g, n) == IF c.items[n].item \in AcceptedItems(dispositions)
                          THEN Apply(g, c.items[n], parent.space) ELSE g
<1>3. f = [m \in 0..Len(c.items) |-> IF m = 0 THEN parent.graph ELSE After(f[m - 1], m)]
    BY <1>1 DEF AreApplied
<1> HIDE DEF After
<1>4. f[0] = parent.graph /\ \A n \in 1..Len(c.items) : f[n] = After(f[n - 1], n)
    BY <1>3
<1> QED BY <1>2, <1>4 DEF After, Applying

(* What every accepted item keeps, all of them keep.                       *)
LEMMA AppliedKeeps ==
    ASSUME NEW parent, IsContent(parent.graph), NEW c, Len(c.items) \in Nat,
           \A n \in 1..Len(c.items) : IsItem(c.items[n]), NEW dispositions,
           Applied(parent, c, dispositions) # Failed
    PROVE  IsContent(Applied(parent, c, dispositions))
<1>0. PICK f : Applying(f, parent, c, dispositions)
    BY AppliedIs
<1>1. /\ Applied(parent, c, dispositions) = f[Len(c.items)]
      /\ f[0] = parent.graph
      /\ \A n \in 1..Len(c.items) :
           f[n] = IF c.items[n].item \in AcceptedItems(dispositions)
                  THEN Apply(f[n - 1], c.items[n], parent.space)
                  ELSE f[n - 1]
    BY <1>0, Zenon DEF Applying
<1> DEFINE Bad == {n \in 0..Len(c.items) : f[n] # Failed /\ ~IsContent(f[n])}
<1> SUFFICES ASSUME Bad # {} PROVE FALSE
    BY <1>1
<1>2. PICK n \in Bad : \A m \in Bad : n <= m
    <2>1. Bad \subseteq Nat
        OBVIOUS
    <2> HIDE DEF Bad
    <2> QED BY <2>1, LeastExists
<1>3. n \in 1..Len(c.items)
    BY <1>1
<1>4. n - 1 \notin Bad /\ n - 1 \in 0..Len(c.items)
    <2>1. ~(n <= n - 1) /\ n - 1 \in 0..Len(c.items)
        BY <1>3
    <2> HIDE DEF Bad
    <2> QED BY <2>1, <1>2
<1>5. f[n] = f[n - 1] \/ f[n] = Apply(f[n - 1], c.items[n], parent.space)
    BY <1>1, <1>3
<1>6. f[n - 1] # Failed
    <2>1. f[n - 1] = Failed => Apply(f[n - 1], c.items[n], parent.space) = Failed
        BY DEF Apply
    <2> QED BY <2>1, <1>5
<1>7. IsContent(f[n - 1])
    BY <1>4, <1>6
<1>8. f[n] # Failed /\ ~IsContent(f[n])
    OBVIOUS
<1> HIDE DEF Bad
<1> QED BY <1>3, <1>5, <1>7, <1>8, ApplyKeeps

LEMMA CanonicalItems ==
    ASSUME NEW c, IsContribution(c), NEW parent, NEW dispositions, NEW pid, NEW publication,
           ResolveProspective(parent, c, dispositions, pid, publication) # Failed
    PROVE  LET ordinary == ResolveProspective(parent, c, dispositions, pid, publication) IN
           /\ Len(ordinary.items) = Len(c.items)
           /\ DOMAIN ordinary.items = DOMAIN c.items
           /\ \A n \in DOMAIN c.items :
                /\ ordinary.items[n] = Canonical(c.items[n], c, dispositions, pid, parent)
                /\ ordinary.items[n] # Failed
                /\ IsItem(ordinary.items[n])
<1> DEFINE ordinary == ResolveProspective(parent, c, dispositions, pid, publication)
           Item(n) == Canonical(c.items[n], c, dispositions, pid, parent)
           items == [n \in DOMAIN c.items |-> Item(n)]
<1>1. ordinary = [c EXCEPT !.items = items]
      /\ \A n \in DOMAIN c.items : Item(n) # Failed
    <2> HIDE DEF Item
    <2> QED BY DEF ResolveProspective, Resolvable, Item
<1>2. ordinary.items = items
    <2> HIDE DEF items, ordinary
    <2> QED BY <1>1 DEF IsContribution
<1>3. Len(items) = Len(c.items) /\ DOMAIN items = DOMAIN c.items
    <2>1. Len(c.items) \in Nat /\ DOMAIN c.items = 1..Len(c.items)
        BY DEF IsContribution
    <2> HIDE DEF Item
    <2>2. items \in [1..Len(c.items) -> {Item(n) : n \in DOMAIN c.items}]
        BY <2>1
    <2> HIDE DEF items
    <2> QED BY <2>1, <2>2
<1>4. ASSUME NEW n \in DOMAIN c.items PROVE IsItem(Item(n))
    <2> DEFINE item == c.items[n]
    <2>1. CASE item.kind = "create entity"
        <3>1. Item(n) = CreatedEntity(item, c, dispositions, pid, parent)
            BY <2>1 DEF Canonical
        <3>2. Item(n) # Failed
            BY <1>1
        <3>3. Item(n) = [item |-> item.item, kind |-> "entity",
                         entity |-> AllocatedTo(c, item, pid)]
            BY <3>1, <3>2, Zenon DEF CreatedEntity
        <3> HIDE DEF Item
        <3> QED BY <3>3 DEF IsItem
    <2>2. CASE item.kind = "create assertion"
        <3>1. Item(n) = CreatedAssertion(item, c, dispositions, pid, parent)
            BY <2>2 DEF Canonical
        <3> DEFINE id == AllocatedTo(c, item, pid)
                   subject == Operand(item.subject, item.item, c, dispositions, pid, parent)
                   of == IF item.value.kind = "entity"
                         THEN Operand(item.value.of, item.item, c, dispositions, pid, parent)
                         ELSE item.value.of
                   ends == [subject |-> subject, predicate |-> item.predicate,
                            value |-> [kind |-> item.value.kind, of |-> of]]
        <3>2. Item(n) # Failed
            BY <1>1
        <3>3. Item(n) = [item |-> item.item, kind |-> "assertion", id |-> id,
                         assertion |-> Joined(item.metadata, ends)]
            BY <3>1, <3>2, Zenon DEF CreatedAssertion
        <3>4. IsClaim(Joined(item.metadata, ends))
            <4>1. {"subject", "value"} \subseteq DOMAIN ends
                OBVIOUS
            <4> HIDE DEF ends
            <4> QED BY <4>1 DEF IsClaim, Joined
        <3> HIDE DEF Item, ends, id
        <3> QED BY <3>3, <3>4 DEF IsItem
    <2>3. CASE item.kind # "create entity" /\ item.kind # "create assertion"
        <3>1. Item(n) = item
            <4>1. Item(n) # Failed
                BY <1>1
            <4> QED BY <2>3, <4>1 DEF Canonical, Ordinary
        <3> HIDE DEF Item
        <3> QED BY <3>1 DEF IsItem, IsContribution
    <2> QED BY <2>1, <2>2, <2>3
<1> HIDE DEF ordinary, Item
<1>5. \A n \in DOMAIN c.items : items[n] = Item(n)
    OBVIOUS
<1> HIDE DEF items
<1>6. Len(ordinary.items) = Len(c.items) /\ DOMAIN ordinary.items = DOMAIN c.items
    BY <1>2, <1>3
<1>7. \A n \in DOMAIN c.items : /\ ordinary.items[n] = Item(n)
                                /\ ordinary.items[n] # Failed
                                /\ IsItem(ordinary.items[n])
    BY <1>1, <1>2, <1>4, <1>5
<1> QED BY <1>6, <1>7 DEF ordinary, Item

LEMMA MaterializedKeeps ==
    ASSUME NEW parent, IsContent(parent.graph), NEW c, Len(c.items) \in Nat,
           \A n \in 1..Len(c.items) : IsItem(c.items[n]),
           NEW dispositions, NEW publication, NEW domain, NEW profile,
           MaterializeGoverned(parent, c, dispositions, publication, domain, profile) # Failed
    PROVE  LET g == MaterializeGoverned(parent, c, dispositions, publication, domain, profile) IN
           /\ g = Applied(parent, c, dispositions) /\ g # Failed
           /\ WellFormed(g) /\ IsContent(g)
<1> DEFINE g == MaterializeGoverned(parent, c, dispositions, publication, domain, profile)
<1>1. g = Applied(parent, c, dispositions) /\ Sound(g, domain, profile)
    BY Zenon DEF MaterializeGoverned
<1>2. g # Failed /\ WellFormed(g)
    BY <1>1 DEF Sound
<1>3. IsContent(g)
    BY <1>1, <1>2, AppliedKeeps
<1> QED BY <1>1, <1>2, <1>3

LEMMA ProspectiveIs ==
    ASSUME NEW parent, NEW c, NEW dispositions, NEW pid, NEW publication, NEW domain, NEW profile,
           MaterializeProspective(parent, c, dispositions, pid, publication, domain, profile) # Failed
    PROVE  LET ordinary == ResolveProspective(parent, c, dispositions, pid, publication) IN
           /\ ordinary # Failed
           /\ MaterializeProspective(parent, c, dispositions, pid, publication, domain, profile)
              = MaterializeGoverned(parent, ordinary, dispositions, publication, domain, profile)
<1> DEFINE ordinary == ResolveProspective(parent, c, dispositions, pid, publication)
           g == IF ordinary = Failed THEN Failed
                ELSE MaterializeGoverned(parent, ordinary, dispositions, publication, domain, profile)
           bindings == ResultBindings(c, dispositions, pid)
<1>1. MaterializeProspective(parent, c, dispositions, pid, publication, domain, profile)
      = IF g # Failed /\ BindingsStand(bindings, g) /\ BindingsAbsent(bindings, parent.graph)
        THEN g ELSE Failed
    BY DEF MaterializeProspective
<1> HIDE DEF ordinary, bindings
<1> QED BY <1>1 DEF ordinary

LEMMA ExtendedIs ==
    ASSUME NEW parent, IsContent(parent.graph), NEW added, NEW domain, NEW profile,
           ExtendEvidence(parent, added, domain, profile) # Failed
    PROVE  LET g == ExtendEvidence(parent, added, domain, profile) IN
           /\ g.entities = parent.graph.entities /\ g.assertions = parent.graph.assertions
           /\ g.aliases = parent.graph.aliases
           /\ g.evidence = Joined(added, parent.graph.evidence)
           /\ DescriptorsPinned(parent, domain, profile)
           /\ DOMAIN added \cap DOMAIN parent.graph.evidence = {}
<1> DEFINE all == Joined(added, parent.graph.evidence)
<1>1. /\ ExtendEvidence(parent, added, domain, profile) = [parent.graph EXCEPT !.evidence = all]
      /\ DescriptorsPinned(parent, domain, profile)
      /\ DOMAIN added \cap DOMAIN parent.graph.evidence = {}
    BY DEF ExtendEvidence
<1> HIDE DEF all
<1>2. LET g == [parent.graph EXCEPT !.evidence = all] IN
      /\ g.entities = parent.graph.entities /\ g.assertions = parent.graph.assertions
      /\ g.aliases = parent.graph.aliases /\ g.evidence = all
    BY DEF IsContent, IsGraph
<1> QED BY <1>1, <1>2 DEF all

LEMMA GraphAfterKeeps ==
    ASSUME ChangeAssumption, NEW o \in Ops, NEW parent,
           parent.id # <<>> => WellFormed(parent.graph) /\ IsContent(parent.graph),
           GraphAfter(parent, Change[o]) # Failed
    PROVE  WellFormed(GraphAfter(parent, Change[o])) /\ IsContent(GraphAfter(parent, Change[o]))
<1> DEFINE change == Change[o]
           publication == [parent |-> parent.id, operations |-> <<change.op>>]
           g == GraphAfter(parent, change)
<1>1. CASE change.kind = "initialize" /\ parent.id = <<>>
    <2>1. g = EmptyGraph
        BY <1>1 DEF GraphAfter
    <2>2. WellFormed(EmptyGraph) /\ IsContent(EmptyGraph)
        BY FS_EmptySet DEF EmptyGraph, WellFormed, IsContent, IsGraph
    <2> QED BY <2>1, <2>2
<1>2. CASE change.kind = "migrate" /\ parent.id = <<>>
    <2>1. g = IF WellFormed(change.graph) THEN change.graph ELSE Failed
        BY <1>2 DEF GraphAfter
    <2>2. IsContent(change.graph)
        BY <1>2 DEF ChangeAssumption
    <2> QED BY <2>1, <2>2
<1>3. CASE change.kind = "extend" /\ parent.id # <<>>
    <2>1. g = ExtendEvidence(parent, change.evidence, change.domain, change.profile)
        BY <1>3 DEF GraphAfter
    <2>2. /\ g.entities = parent.graph.entities /\ g.assertions = parent.graph.assertions
          /\ g.aliases = parent.graph.aliases
          /\ g.evidence = Joined(change.evidence, parent.graph.evidence)
        BY <2>1, <1>3, ExtendedIs
    <2>3. DOMAIN parent.graph.evidence \subseteq DOMAIN g.evidence
        BY <2>2 DEF Joined
    <2>4. WellFormed(g)
        <3> HIDE DEF g
        <3> QED BY <2>2, <2>3, <1>3 DEF WellFormed
    <2>5. IsContent(g)
        <3> DEFINE all == Joined(change.evidence, parent.graph.evidence)
        <3>1. g = [parent.graph EXCEPT !.evidence = all]
            BY <2>1 DEF ExtendEvidence
        <3> HIDE DEF g, all
        <3> QED BY <3>1, <1>3, OtherFieldsKeep
    <2> QED BY <2>4, <2>5
<1>4. CASE change.kind = "transition" /\ parent.id # <<>>
    <2>1. g = TransitionProfile(parent, change.domain, change.from, change.profile)
        BY <1>4 DEF GraphAfter
    <2>2. g = parent.graph
        BY <2>1 DEF TransitionProfile
    <2> QED BY <2>2, <1>4
<1>5. CASE change.kind = "contribution" /\ parent.id # <<>>
    <2>1. g = MaterializeGoverned(parent, change.contribution, change.dispositions, publication,
                                  change.domain, change.profile)
        BY <1>5 DEF GraphAfter
    <2>2. IsContribution(change.contribution)
        BY <1>5 DEF ChangeAssumption
    <2>3. /\ Len(change.contribution.items) \in Nat
          /\ \A n \in 1..Len(change.contribution.items) : IsItem(change.contribution.items[n])
        BY <2>2 DEF IsContribution, IsItem
    <2> HIDE DEF publication
    <2> QED BY <2>1, <2>3, <1>5, MaterializedKeeps
<1>6. CASE change.kind = "prospective" /\ parent.id # <<>>
    <2> DEFINE ordinary == ResolveProspective(parent, change.contribution, change.dispositions,
                                              change.pid, publication)
    <2>1. g = MaterializeProspective(parent, change.contribution, change.dispositions, change.pid,
                                     publication, change.domain, change.profile)
        BY <1>6 DEF GraphAfter
    <2> HIDE DEF publication
    <2>2. ordinary # Failed
          /\ g = MaterializeGoverned(parent, ordinary, change.dispositions, publication,
                                     change.domain, change.profile)
        BY <2>1, ProspectiveIs
    <2>3. IsContribution(change.contribution)
        BY <1>6 DEF ChangeAssumption
    <2>4. Len(change.contribution.items) \in Nat
          /\ DOMAIN change.contribution.items = 1..Len(change.contribution.items)
        BY <2>3 DEF IsContribution
    <2>5. /\ Len(ordinary.items) \in Nat
          /\ \A n \in 1..Len(ordinary.items) : IsItem(ordinary.items[n])
        BY <2>2, <2>3, <2>4, CanonicalItems
    <2> HIDE DEF ordinary
    <2> QED BY <2>2, <2>5, <1>6, MaterializedKeeps
<1>7. g = Failed \/ \/ change.kind = "initialize" /\ parent.id = <<>>
                    \/ change.kind = "migrate" /\ parent.id = <<>>
                    \/ change.kind = "extend" /\ parent.id # <<>>
                    \/ change.kind = "transition" /\ parent.id # <<>>
                    \/ change.kind = "contribution" /\ parent.id # <<>>
                    \/ change.kind = "prospective" /\ parent.id # <<>>
    BY DEF GraphAfter
<1> QED BY <1>1, <1>2, <1>3, <1>4, <1>5, <1>6, <1>7

-----------------------------------------------------------------------------
(* Histories.                                                              *)

LEMMA FrontAndLast ==
    ASSUME NEW past \in Seq(Ops), NEW o \in Ops
    PROVE  /\ Append(past, o) \in Seq(Ops) /\ Len(Append(past, o)) = Len(past) + 1
           /\ Front(Append(past, o)) = past /\ Last(Append(past, o)) = o
<1> DEFINE h == Append(past, o)
<1>1. h \in Seq(Ops) /\ Len(h) = Len(past) + 1 /\ h[Len(past) + 1] = o /\ Len(past) \in Nat
      /\ \A i \in 1..Len(past) : h[i] = past[i]
    OBVIOUS
<1> HIDE DEF h
<1>2. SubSeq(h, 1, Len(past)) \in Seq(Ops) /\ Len(SubSeq(h, 1, Len(past))) = Len(past)
      /\ \A i \in 1..Len(past) : SubSeq(h, 1, Len(past))[i] = past[i]
    BY <1>1
<1>3. SubSeq(h, 1, Len(past)) = past
    BY <1>2
<1>4. Front(h) = SubSeq(h, 1, Len(h) - 1) /\ Last(h) = h[Len(h)]
    BY DEF Front, Last
<1>5. Len(h) - 1 = Len(past)
    BY <1>1
<1> QED BY <1>1, <1>3, <1>4, <1>5 DEF h

LEMMA ContentsAt ==
    /\ Contents[0] = [h \in {<<>>} |-> NoRevision]
    /\ \A n \in 1..MaxCalls : Contents[n] = NextContents(Contents[n - 1])
<1>1. Contents = [n \in 0..MaxCalls |-> IF n = 0 THEN [h \in {<<>>} |-> NoRevision]
                                        ELSE NextContents(Contents[n - 1])]
    BY ContentsAre DEF AreContents
<1>2. MaxCalls \in Nat
    BY SpacesAssumption
<1> QED BY <1>1, <1>2

LEMMA HistoriesAreSequences ==
    ASSUME NEW n \in 0..MaxCalls, NEW h \in DOMAIN Contents[n]
    PROVE  h \in Seq(Ops) /\ Len(h) = n
<1> DEFINE Bad == {m \in 0..MaxCalls : \E k \in DOMAIN Contents[m] : ~(k \in Seq(Ops) /\ Len(k) = m)}
<1>0. MaxCalls \in Nat
    BY SpacesAssumption
<1> SUFFICES ASSUME Bad # {} PROVE FALSE
    OBVIOUS
<1>1. PICK m \in Bad : \A l \in Bad : m <= l
    <2>1. Bad \subseteq Nat
        BY <1>0
    <2> HIDE DEF Bad
    <2> QED BY <2>1, LeastExists
<1>2. PICK k \in DOMAIN Contents[m] : ~(k \in Seq(Ops) /\ Len(k) = m)
    OBVIOUS
<1>3. m # 0
    <2> SUFFICES ASSUME m = 0 PROVE FALSE
        OBVIOUS
    <2>1. k = <<>>
        BY <1>2, ContentsAt
    <2> QED BY <2>1, <1>2
<1>4. m \in 1..MaxCalls /\ m - 1 \in 0..MaxCalls /\ m - 1 \notin Bad
    <2>1. m \in 1..MaxCalls /\ m - 1 \in 0..MaxCalls /\ ~(m <= m - 1)
        BY <1>0, <1>3
    <2> HIDE DEF Bad
    <2> QED BY <2>1, <1>1
<1>5. k \in Longer(Contents[m - 1])
    <2>1. Contents[m] = NextContents(Contents[m - 1])
        BY <1>4, ContentsAt
    <2>2. \A c : DOMAIN NextContents(c) = Longer(c)
        BY DEF NextContents
    <2> QED BY <2>1, <2>2
<1>6. PICK past \in DOMAIN Contents[m - 1], o \in Ops : k = Append(past, o)
    BY <1>5 DEF Longer
<1>7. past \in Seq(Ops) /\ Len(past) = m - 1
    BY <1>4, <1>6
<1>8. k \in Seq(Ops) /\ Len(k) = m
    BY <1>4, <1>6, <1>7
<1> QED BY <1>2, <1>8

LEMMA ContentContinues ==
    ASSUME NEW n \in 1..MaxCalls, NEW h
    PROVE  h \in DOMAIN Contents[n] <=>
             \E past \in DOMAIN Contents[n - 1], o \in Ops :
                /\ h = Append(past, o)
                /\ ChildOf(Contents[n - 1][past], Change[o]) # Failed
<1> DEFINE contents == Contents[n - 1]
<1>1. DOMAIN Contents[n] = Longer(contents)
    <2>1. Contents[n] = NextContents(contents)
        BY ContentsAt
    <2>2. \A c : DOMAIN NextContents(c) = Longer(c)
        BY DEF NextContents
    <2> QED BY <2>1, <2>2
<1>2. n - 1 \in 0..MaxCalls
    BY SpacesAssumption
<1>3. ASSUME NEW past \in DOMAIN contents, NEW o \in Ops
      PROVE  Front(Append(past, o)) = past /\ Last(Append(past, o)) = o
    <2>1. past \in Seq(Ops)
        BY <1>2, HistoriesAreSequences
    <2> QED BY <2>1, FrontAndLast
<1>4. h \in Longer(contents) <=>
        \E past \in DOMAIN contents, o \in Ops :
            h = Append(past, o) /\ ChildOf(contents[Front(h)], Change[Last(h)]) # Failed
    BY DEF Longer
<1> HIDE DEF contents
<1>5. h \in Longer(contents) <=>
        \E past \in DOMAIN contents, o \in Ops :
            h = Append(past, o) /\ ChildOf(contents[past], Change[o]) # Failed
    BY <1>3, <1>4
<1> QED BY <1>1, <1>5 DEF contents

LEMMA ContentOfChild ==
    ASSUME NEW n \in 1..MaxCalls, NEW past \in Seq(Ops), NEW o \in Ops,
           Append(past, o) \in DOMAIN Contents[n]
    PROVE  /\ past \in DOMAIN Contents[n - 1]
           /\ ChildOf(Contents[n - 1][past], Change[o]) # Failed
           /\ Contents[n][Append(past, o)] = ChildOf(Contents[n - 1][past], Change[o])
<1> DEFINE h == Append(past, o)
           contents == Contents[n - 1]
<1>1. Contents[n] = [k \in Longer(contents) |-> ChildOf(contents[Front(k)], Change[Last(k)])]
    BY ContentsAt DEF NextContents
<1>2. Front(h) = past /\ Last(h) = o
    BY FrontAndLast
<1>3. h \in Longer(contents)
    BY <1>1
<1>4. PICK before \in DOMAIN contents, p \in Ops : h = Append(before, p)
    BY <1>3 DEF Longer
<1>5. before \in Seq(Ops)
    <2>1. n - 1 \in 0..MaxCalls
        BY SpacesAssumption
    <2> QED BY <2>1, HistoriesAreSequences
<1>6. before = past
    BY <1>2, <1>4, <1>5, FrontAndLast
<1>7. ChildOf(contents[past], Change[o]) # Failed
    BY <1>2, <1>3 DEF Longer
<1>8. Contents[n][h] = ChildOf(contents[past], Change[o])
    <2> HIDE DEF h, contents
    <2> QED BY <1>1, <1>2, <1>3
<1> QED BY <1>6, <1>7, <1>8

(* Every stored revision is sound: a graph of finitely many claims whose   *)
(* references resolve.                                                     *)
IsRevision(r, h) == r.id = h /\ WellFormed(r.graph) /\ IsContent(r.graph)

LEMMA ChildIsRevision ==
    ASSUME ChangeAssumption, NEW o \in Ops, NEW parent, NEW h \in Seq(Ops), parent.id = h,
           h # <<>> => IsRevision(parent, h), ChildOf(parent, Change[o]) # Failed
    PROVE  LET child == ChildOf(parent, Change[o]) IN
           /\ IsRevision(child, Append(h, o))
           /\ child.graph = GraphAfter(parent, Change[o]) /\ child.graph # Failed
           /\ h # <<>> => child.space = parent.space
           /\ child.domain = Change[o].domain /\ child.profile = Change[o].profile
<1> DEFINE g == GraphAfter(parent, Change[o])
<1>1. g # Failed /\ ChildOf(parent, Change[o]) =
        [space |-> IF parent.id = <<>> THEN Change[o].space ELSE parent.space,
         id |-> Append(parent.id, Change[o].op), graph |-> g,
         domain |-> Change[o].domain, profile |-> Change[o].profile]
    BY DEF ChildOf
<1>2. Change[o].op = o
    BY DEF ChangeAssumption
<1>3. WellFormed(g) /\ IsContent(g)
    BY <1>1, GraphAfterKeeps DEF IsRevision
<1> HIDE DEF g
<1> QED BY <1>1, <1>2, <1>3 DEF IsRevision, g

LEMMA ContentsAreRevisions ==
    ASSUME ChangeAssumption, NEW n \in 1..MaxCalls, NEW h \in DOMAIN Contents[n]
    PROVE  IsRevision(Contents[n][h], h)
<1> DEFINE Bad == {m \in 1..MaxCalls : \E k \in DOMAIN Contents[m] : ~IsRevision(Contents[m][k], k)}
<1>0. MaxCalls \in Nat
    BY SpacesAssumption
<1> SUFFICES ASSUME Bad # {} PROVE FALSE
    OBVIOUS
<1>1. PICK m \in Bad : \A l \in Bad : m <= l
    <2>1. Bad \subseteq Nat
        BY <1>0
    <2> HIDE DEF Bad
    <2> QED BY <2>1, LeastExists
<1>2. PICK k \in DOMAIN Contents[m] : ~IsRevision(Contents[m][k], k)
    OBVIOUS
<1>3. m \in 1..MaxCalls
    OBVIOUS
<1>4. PICK past \in DOMAIN Contents[m - 1], o \in Ops : k = Append(past, o)
    BY <1>3, ContentContinues
<1>5. m - 1 \in 0..MaxCalls
    BY <1>0
<1>6. past \in Seq(Ops) /\ Len(past) = m - 1
    BY <1>5, HistoriesAreSequences
<1>7. /\ ChildOf(Contents[m - 1][past], Change[o]) # Failed
      /\ Contents[m][k] = ChildOf(Contents[m - 1][past], Change[o])
    BY <1>3, <1>4, <1>6, <1>2, ContentOfChild
<1>8. Contents[m - 1][past].id = past /\ (past # <<>> => IsRevision(Contents[m - 1][past], past))
    <2>1. CASE m - 1 = 0
        <3>1. past = <<>> /\ Contents[m - 1][past] = NoRevision
            BY <2>1, ContentsAt
        <3> QED BY <3>1 DEF NoRevision
    <2>2. CASE m - 1 # 0
        <3>1. m - 1 \in 1..MaxCalls /\ ~(m <= m - 1)
            BY <2>2, <1>3, <1>0
        <3>2. m - 1 \notin Bad
            <4> HIDE DEF Bad
            <4> QED BY <3>1, <1>1
        <3>3. IsRevision(Contents[m - 1][past], past)
            BY <3>1, <3>2
        <3> QED BY <3>3 DEF IsRevision
    <2> QED BY <2>1, <2>2
<1>9. IsRevision(Contents[m][k], k)
    BY <1>4, <1>6, <1>7, <1>8, ChildIsRevision
<1> QED BY <1>2, <1>9

LEMMA HistoryIs ==
    ASSUME ChangeAssumption, NEW h \in Histories
    PROVE  /\ h \in Seq(Ops) /\ Len(h) \in 1..MaxCalls /\ h \in DOMAIN Contents[Len(h)]
           /\ IsRevision(ContentOf(h), h)
<1>1. PICK n \in 1..MaxCalls : h \in DOMAIN Contents[n]
    BY DEF Histories
<1>2. h \in Seq(Ops) /\ Len(h) = n
    BY <1>1, HistoriesAreSequences, SpacesAssumption
<1> QED BY <1>1, <1>2, ContentsAreRevisions DEF ContentOf

(* A history of two changes or more continues another one by one change.   *)
LEMMA HistoryContinues ==
    ASSUME ChangeAssumption, NEW past \in Seq(Ops), past # <<>>, NEW o \in Ops,
           Append(past, o) \in Histories
    PROVE  /\ past \in Histories
           /\ ChildOf(ContentOf(past), Change[o]) # Failed
           /\ ContentOf(Append(past, o)) = ChildOf(ContentOf(past), Change[o])
<1> DEFINE h == Append(past, o)
           n == Len(h)
<1>1. n \in 1..MaxCalls /\ h \in DOMAIN Contents[n]
    BY HistoryIs
<1>2. Len(past) = n - 1 /\ n - 1 \in 1..MaxCalls
    <2>1. Len(past) # 0 /\ Len(past) \in Nat /\ n = Len(past) + 1
        OBVIOUS
    <2> HIDE DEF n
    <2> QED BY <2>1, <1>1, SpacesAssumption
<1> HIDE DEF n
<1>3. /\ past \in DOMAIN Contents[n - 1]
      /\ ChildOf(Contents[n - 1][past], Change[o]) # Failed
      /\ Contents[n][h] = ChildOf(Contents[n - 1][past], Change[o])
    BY <1>1, ContentOfChild
<1>4. past \in Histories
    BY <1>2, <1>3 DEF Histories
<1>5. ContentOf(past) = Contents[n - 1][past] /\ ContentOf(h) = Contents[n][h]
    BY <1>2 DEF ContentOf, n
<1> QED BY <1>3, <1>4, <1>5

-----------------------------------------------------------------------------
(* Evidence and texts.                                                     *)

LEMMA EvidenceServed ==
    ASSUME ReadAssumption, NEW r, NEW ctx \in ContextsOf(r), NEW v \in DOMAIN ctx.revision.graph.evidence
    PROVE  LET supported == {i \in Entitled(ctx) : v \in ctx.revision.graph.assertions[i].evidence} IN
           GetEvidence(ctx, v) =
             IF supported = {} THEN NoEvidence
             ELSE [available |-> TRUE, supporters |-> supported, anchors |-> {AnchorTo(ctx, v)}]
<1> DEFINE g == ctx.revision.graph
           admitted == Admit(Supporters(g, v), ctx)
           supported == {i \in Entitled(ctx) : v \in g.assertions[i].evidence}
<1>1. Supporters(g, v) \subseteq DOMAIN g.assertions
    BY DEF Supporters
<1>2. admitted = Supporters(g, v) \cap Entitled(ctx)
    BY <1>1, AdmitServes
<1>3. admitted = supported
    BY <1>2, EntitledAreAssertions DEF Supporters
<1>4. GetEvidence(ctx, v) = IF v \notin DOMAIN g.evidence \/ admitted = {} THEN NoEvidence
                            ELSE [available |-> TRUE, supporters |-> admitted,
                                  anchors |-> {AnchorTo(ctx, v)}]
    BY Zenon DEF GetEvidence
<1> HIDE DEF admitted, supported
<1>5. v \in DOMAIN g.evidence
    OBVIOUS
<1> QED BY <1>3, <1>4, <1>5 DEF supported

LEMMA OwnSnapshotHolds ==
    ASSUME ReadAssumption, NEW r, NEW ctx \in ContextsOf(r), NEW v \in DOMAIN r.graph.evidence
    PROVE  LET s == SourcesOf({v}, ctx)
               a == r.graph.evidence[v].artifact
               epoch == ctx.view.epoch
           IN /\ a \in DOMAIN s.artifacts <=> Known(Sources.artifacts, a, epoch) # Failed
              /\ a \in DOMAIN s.artifacts => s.artifacts[a] = Known(Sources.artifacts, a, epoch)
              /\ \A t \in r.graph.evidence[v].revision :
                   /\ t \in DOMAIN s.revisions <=> Known(Sources.revisions, t, epoch) # Failed
                   /\ t \in DOMAIN s.revisions =>
                        s.revisions[t] = Known(Sources.revisions, t, epoch)
<1> DEFINE refs == {v}
<1>1. v \in refs
    OBVIOUS
<1> SUFFICES LET s == SourcesOf(refs, ctx)
                 a == r.graph.evidence[v].artifact
                 epoch == ctx.view.epoch
             IN /\ a \in DOMAIN s.artifacts <=> Known(Sources.artifacts, a, epoch) # Failed
                /\ a \in DOMAIN s.artifacts => s.artifacts[a] = Known(Sources.artifacts, a, epoch)
                /\ \A t \in r.graph.evidence[v].revision :
                     /\ t \in DOMAIN s.revisions <=> Known(Sources.revisions, t, epoch) # Failed
                     /\ t \in DOMAIN s.revisions =>
                          s.revisions[t] = Known(Sources.revisions, t, epoch)
    OBVIOUS
<1> HIDE DEF refs
<1> QED BY <1>1, SnapshotHolds

LEMMA SameAnchor ==
    ASSUME ReadAssumption, NEW r, NEW ctx \in ContextsOf(r), NEW then \in ContextsOf(r),
           NEW v \in DOMAIN r.graph.evidence, AnchorTo(ctx, v) = AnchorTo(then, v)
    PROVE  LET artifact == r.graph.evidence[v].artifact IN
           /\ then.request = ctx.request
           /\ Known(Sources.artifacts, artifact, then.view.epoch)
              = Known(Sources.artifacts, artifact, ctx.view.epoch)
<1> DEFINE a == r.graph.evidence[v].artifact
           s == SourcesOf({v}, ctx)
           t == SourcesOf({v}, then)
<1>1. AnchorTo(ctx, v).identity = AnchorTo(then, v).identity
    OBVIOUS
<1>2. AnchorTo(ctx, v).identity.context = AnchorTo(then, v).identity.context
      /\ AnchorTo(ctx, v).identity.sources = AnchorTo(then, v).identity.sources
    BY <1>1
<1>3. ContextBinding(ctx) = ContextBinding(then) /\ s = t
    <2> HIDE DEF s, t
    <2>1. \A c : /\ AnchorTo(c, v).identity.context = ContextBinding(c)
                 /\ AnchorTo(c, v).identity.sources = SourcesOf({v}, c)
        BY DEF AnchorTo
    <2> QED BY <2>1, <1>2 DEF s, t
<1>4. then.request = ctx.request
    <2>1. ContextBinding(ctx).request = ctx.request /\ ContextBinding(then).request = then.request
        BY DEF ContextBinding
    <2> QED BY <2>1, <1>3
<1>5. /\ a \in DOMAIN s.artifacts <=> Known(Sources.artifacts, a, ctx.view.epoch) # Failed
      /\ a \in DOMAIN s.artifacts => s.artifacts[a] = Known(Sources.artifacts, a, ctx.view.epoch)
    BY OwnSnapshotHolds
<1>6. /\ a \in DOMAIN t.artifacts <=> Known(Sources.artifacts, a, then.view.epoch) # Failed
      /\ a \in DOMAIN t.artifacts => t.artifacts[a] = Known(Sources.artifacts, a, then.view.epoch)
    BY OwnSnapshotHolds
<1> HIDE DEF s, t, a
<1>7. Known(Sources.artifacts, a, then.view.epoch) = Known(Sources.artifacts, a, ctx.view.epoch)
    BY <1>3, <1>5, <1>6
<1> QED BY <1>4, <1>7 DEF a

(* A text is decided from what is known of its own sources, however many   *)
(* others are read at once.                                                *)
LEMMA TextReads ==
    ASSUME ReadAssumption, NEW r, NEW ctx \in ContextsOf(r), NEW refs, NEW more,
           NEW v \in refs, v \in more, v \in DOMAIN r.graph.evidence
    PROVE  LET one == SourcesOf(more, ctx)
               all == SourcesOf(refs, ctx)
           IN /\ Loaded(ctx, v, all) <=> Loaded(ctx, v, one)
              /\ Loaded(ctx, v, one) => /\ Misbound(ctx, v, all) <=> Misbound(ctx, v, one)
                                        /\ TextAllowed(ctx, v, all) <=> TextAllowed(ctx, v, one)
<1> DEFINE e == r.graph.evidence[v]
           one == SourcesOf(more, ctx)
           all == SourcesOf(refs, ctx)
           known == Known(Sources.artifacts, e.artifact, ctx.view.epoch)
           Text(t) == Known(Sources.revisions, t, ctx.view.epoch)
<1>1. ctx.revision = r
    BY ContextFacts
<1>2. /\ e.artifact \in DOMAIN one.artifacts <=> known # Failed
      /\ e.artifact \in DOMAIN one.artifacts => one.artifacts[e.artifact] = known
      /\ \A t \in e.revision : /\ t \in DOMAIN one.revisions <=> Text(t) # Failed
                               /\ t \in DOMAIN one.revisions => one.revisions[t] = Text(t)
    BY SnapshotHolds
<1>3. /\ e.artifact \in DOMAIN all.artifacts <=> known # Failed
      /\ e.artifact \in DOMAIN all.artifacts => all.artifacts[e.artifact] = known
      /\ \A t \in e.revision : /\ t \in DOMAIN all.revisions <=> Text(t) # Failed
                               /\ t \in DOMAIN all.revisions => all.revisions[t] = Text(t)
    BY SnapshotHolds
<1> HIDE DEF one, all, known, Text
<1>4. Loaded(ctx, v, all) <=> Loaded(ctx, v, one)
    BY <1>1, <1>2, <1>3 DEF Loaded
<1>5. ASSUME Loaded(ctx, v, one)
      PROVE  /\ Misbound(ctx, v, all) <=> Misbound(ctx, v, one)
             /\ TextAllowed(ctx, v, all) <=> TextAllowed(ctx, v, one)
    <2>1. Loaded(ctx, v, all)
        BY <1>4, <1>5
    <2>2. all.artifacts[e.artifact] = one.artifacts[e.artifact]
          /\ \A t \in e.revision : all.revisions[t] = one.revisions[t]
        BY <1>1, <1>2, <1>3, <1>5, <2>1 DEF Loaded
    <2>3. Current(ctx, v, all) <=> Current(ctx, v, one)
        BY <1>1, <2>2 DEF Current
    <2>4. Misbound(ctx, v, all) <=> Misbound(ctx, v, one)
        BY <1>1, <2>2, <2>3 DEF Misbound
    <2> QED BY <1>1, <2>2, <2>3, <2>4 DEF TextAllowed
<1> QED BY <1>4, <1>5 DEF one, all

LEMMA OpenTextsAreReliable ==
    ASSUME ReadAssumption, NEW r, NEW ctx \in ContextsOf(r), NEW v, OpenText(ctx, v)
    PROVE  Reliable(ctx, v)
<1> DEFINE e == r.graph.evidence[v]
           alone == {v}
           s == SourcesOf(alone, ctx)
           known == Known(Sources.artifacts, e.artifact, ctx.view.epoch)
           Text(t) == Known(Sources.revisions, t, ctx.view.epoch)
<1>1. ctx.revision = r
    BY ContextFacts
<1>2. v \in DOMAIN r.graph.evidence
    BY <1>1 DEF OpenText
<1>3. /\ e.artifact \in DOMAIN s.artifacts <=> known # Failed
      /\ e.artifact \in DOMAIN s.artifacts => s.artifacts[e.artifact] = known
      /\ \A t \in e.revision : /\ t \in DOMAIN s.revisions <=> Text(t) # Failed
                               /\ t \in DOMAIN s.revisions => s.revisions[t] = Text(t)
    <2>1. v \in alone
        OBVIOUS
    <2> HIDE DEF alone
    <2> QED BY <1>2, <2>1, SnapshotHolds
<1>4. Eligible(ctx, v) /\ Loaded(ctx, v, s) /\ TextAllowed(ctx, v, s)
    BY DEF OpenText
<1> HIDE DEF s
<1>5. e.artifact \in DOMAIN s.artifacts /\ e.revision \subseteq DOMAIN s.revisions
    BY <1>1, <1>4 DEF Loaded
<1>6. known # Failed /\ s.artifacts[e.artifact] = known
    BY <1>3, <1>5
<1> HIDE DEF known, Text
<1>7. /\ Current(ctx, v, s) /\ ~Misbound(ctx, v, s)
      /\ Visible(known.visibility, ctx.request.audience, r.domain.labels)
      /\ known.schemas \subseteq r.domain.sources
    BY <1>1, <1>4, <1>6 DEF TextAllowed
<1>8. known.status = "active"
    BY <1>1, <1>6, <1>7 DEF Current
<1>9. \A t \in e.revision : Text(t) # Failed /\ Text(t).artifact = e.artifact
    BY <1>1, <1>3, <1>5, <1>7 DEF Misbound
<1>10. Shows(ctx, known.visibility) /\ DeclaredLabels(known.visibility, r.domain.labels)
    BY <1>7, VisibleShows
<1>11. e.schemas \subseteq r.domain.sources
    BY <1>1, <1>4 DEF Eligible
<1> QED BY <1>1, <1>2, <1>6, <1>7, <1>8, <1>9, <1>10, <1>11 DEF Reliable, known, Text

LEMMA ListedTexts ==
    ASSUME ReadAssumption, NEW r, NEW ctx \in ContextsOf(r), NEW v \in DOMAIN ctx.revision.graph.evidence,
           ~ListTexts(ctx).raises
    PROVE  OpenText(ctx, v) <=> v \in ListTexts(ctx).evidence
<1> DEFINE g == ctx.revision.graph
           eligible == {w \in DOMAIN g.evidence : Eligible(ctx, w)}
           all == SourcesOf(eligible, ctx)
           one == SourcesOf({v}, ctx)
           loaded == {w \in eligible : Loaded(ctx, w, all)}
           raises == \E w \in loaded : Misbound(ctx, w, all)
<1>1. ListTexts(ctx) = [raises |-> raises, complete |-> loaded = eligible,
                        evidence |-> {w \in loaded : ~raises /\ TextAllowed(ctx, w, all)}]
    BY Zenon DEF ListTexts
<1>2. ListTexts(ctx).raises = raises
      /\ ListTexts(ctx).evidence = {w \in loaded : ~raises /\ TextAllowed(ctx, w, all)}
    <2> HIDE DEF raises, loaded, eligible, all
    <2> QED BY <1>1
<1>3. v \in ListTexts(ctx).evidence <=>
        Eligible(ctx, v) /\ Loaded(ctx, v, all) /\ TextAllowed(ctx, v, all)
    <2>1. ~raises
        BY <1>2
    <2> HIDE DEF raises, all
    <2> QED BY <1>2, <2>1
<1>4. Eligible(ctx, v) =>
        /\ Loaded(ctx, v, all) <=> Loaded(ctx, v, one)
        /\ Loaded(ctx, v, one) => (TextAllowed(ctx, v, all) <=> TextAllowed(ctx, v, one))
    <2> SUFFICES ASSUME Eligible(ctx, v)
                 PROVE  /\ Loaded(ctx, v, all) <=> Loaded(ctx, v, one)
                        /\ Loaded(ctx, v, one) => (TextAllowed(ctx, v, all) <=> TextAllowed(ctx, v, one))
        OBVIOUS
    <2>1. v \in eligible
        OBVIOUS
    <2>2. v \in DOMAIN r.graph.evidence
        BY ContextFacts
    <2> DEFINE alone == {v}
    <2>3. v \in alone
        OBVIOUS
    <2> HIDE DEF eligible, alone
    <2>4. LET own == SourcesOf(alone, ctx) IN
          /\ Loaded(ctx, v, all) <=> Loaded(ctx, v, own)
          /\ Loaded(ctx, v, own) => (TextAllowed(ctx, v, all) <=> TextAllowed(ctx, v, own))
        BY <2>1, <2>2, <2>3, TextReads
    <2> QED BY <2>4 DEF alone
<1>5. OpenText(ctx, v) <=> Eligible(ctx, v) /\ Loaded(ctx, v, one) /\ TextAllowed(ctx, v, one)
    BY DEF OpenText
<1> HIDE DEF all, one
<1> QED BY <1>3, <1>4, <1>5

LEMMA AnchorsAreBound ==
    ASSUME ReadAssumption, NEW r
    PROVE  AnchorsBoundIn(ContextsOf(r))
<1> SUFFICES ASSUME NEW ctx \in ContextsOf(r), NEW then \in ContextsOf(r),
                    NEW v \in DOMAIN ctx.revision.graph.evidence
    PROVE  LET supported == {i \in Entitled(ctx) : v \in ctx.revision.graph.assertions[i].evidence}
               artifact == ctx.revision.graph.evidence[v].artifact
           IN /\ GetEvidence(ctx, v).supporters = supported
              /\ \A anchor \in GetEvidence(ctx, v).anchors :
                   Resolves(then, anchor) =>
                      /\ then.request = ctx.request
                      /\ \E i \in Entitled(then) : v \in then.revision.graph.assertions[i].evidence
                      /\ Known(Sources.artifacts, artifact, then.view.epoch)
                         = Known(Sources.artifacts, artifact, ctx.view.epoch)
              /\ OpenText(ctx, v) => Reliable(ctx, v)
              /\ ~ListTexts(ctx).raises => (OpenText(ctx, v) <=> v \in ListTexts(ctx).evidence)
    BY Zenon DEF AnchorsBoundIn
<1> DEFINE supported == {i \in Entitled(ctx) : v \in ctx.revision.graph.assertions[i].evidence}
           after == {i \in Entitled(then) : v \in then.revision.graph.assertions[i].evidence}
           artifact == ctx.revision.graph.evidence[v].artifact
<1>0. ctx.revision = r /\ then.revision = r /\ v \in DOMAIN then.revision.graph.evidence
    BY ContextFacts
<1>1. GetEvidence(ctx, v) =
        IF supported = {} THEN NoEvidence
        ELSE [available |-> TRUE, supporters |-> supported, anchors |-> {AnchorTo(ctx, v)}]
    BY EvidenceServed
<1>2. GetEvidence(then, v) =
        IF after = {} THEN NoEvidence
        ELSE [available |-> TRUE, supporters |-> after, anchors |-> {AnchorTo(then, v)}]
    BY <1>0, EvidenceServed
<1>3. GetEvidence(ctx, v).supporters = supported
    <2> HIDE DEF supported
    <2> QED BY <1>1 DEF NoEvidence
<1>4. ASSUME NEW anchor \in GetEvidence(ctx, v).anchors, Resolves(then, anchor)
      PROVE  /\ then.request = ctx.request
             /\ \E i \in Entitled(then) : v \in then.revision.graph.assertions[i].evidence
             /\ Known(Sources.artifacts, artifact, then.view.epoch)
                = Known(Sources.artifacts, artifact, ctx.view.epoch)
    <2>1. anchor = AnchorTo(ctx, v)
        <3> HIDE DEF supported
        <3> QED BY <1>1 DEF NoEvidence
    <2>2. anchor.evidence = v
        BY <2>1 DEF AnchorTo
    <2>3. anchor \in GetEvidence(then, v).anchors
        BY <1>4, <2>2 DEF Resolves
    <2>4. after # {} /\ anchor = AnchorTo(then, v)
        <3> HIDE DEF after
        <3> QED BY <1>2, <2>3 DEF NoEvidence
    <2>5. /\ then.request = ctx.request
          /\ Known(Sources.artifacts, artifact, then.view.epoch)
             = Known(Sources.artifacts, artifact, ctx.view.epoch)
        <3>1. AnchorTo(ctx, v) = AnchorTo(then, v) /\ v \in DOMAIN r.graph.evidence
            BY <1>0, <2>1, <2>4
        <3> QED BY <1>0, <3>1, SameAnchor
    <2>6. \E i \in Entitled(then) : v \in then.revision.graph.assertions[i].evidence
        BY <2>4
    <2> QED BY <2>5, <2>6
<1>5. OpenText(ctx, v) => Reliable(ctx, v)
    BY OpenTextsAreReliable
<1>6. ~ListTexts(ctx).raises => (OpenText(ctx, v) <=> v \in ListTexts(ctx).evidence)
    BY ListedTexts
<1> QED BY <1>3, <1>4, <1>5, <1>6

LEMMA EvidenceIsShown ==
    ASSUME ReadAssumption, NEW r, NEW ctx \in ContextsOf(r), WellFormed(r.graph)
    PROVE  EvidenceShown(ctx)
<1> DEFINE g == ctx.revision.graph
<1>0. g = r.graph
    BY ContextFacts
<1> SUFFICES ASSUME NEW i \in DOMAIN g.assertions
    PROVE  LET shown == GetAssertionEvidence(ctx, i)
           IN  /\ shown.supporters = {i} \cap Entitled(ctx)
               /\ shown.anchors =
                    IF i \notin Entitled(ctx) THEN {}
                    ELSE UNION {GetEvidence(ctx, v).anchors : v \in g.assertions[i].evidence}
    BY Zenon DEF EvidenceShown
<1> DEFINE shown == GetAssertionEvidence(ctx, i)
<1>1. {i} \subseteq DOMAIN g.assertions
    OBVIOUS
<1>2. Admit({i}, ctx) = {i} \cap Entitled(ctx)
    BY <1>1, AdmitServes
<1>3. CASE i \notin Entitled(ctx)
    <2>1. Admit({i}, ctx) = {}
        BY <1>2, <1>3
    <2>2. shown = NoEvidence
        BY <2>1 DEF GetAssertionEvidence
    <2> QED BY <2>2, <1>3 DEF NoEvidence
<1>4. CASE i \in Entitled(ctx)
    <2>1. Admit({i}, ctx) # {}
        BY <1>2, <1>4
    <2>2. shown = [available |-> TRUE, supporters |-> {i},
                   anchors |-> {AnchorTo(ctx, v) : v \in g.assertions[i].evidence}]
        BY <2>1 DEF GetAssertionEvidence
    <2>3. ASSUME NEW v \in g.assertions[i].evidence
          PROVE  GetEvidence(ctx, v).anchors = {AnchorTo(ctx, v)}
        <3> DEFINE supported == {j \in Entitled(ctx) : v \in g.assertions[j].evidence}
        <3>1. v \in DOMAIN g.evidence
            BY <1>0 DEF WellFormed
        <3>2. GetEvidence(ctx, v) =
                IF supported = {} THEN NoEvidence
                ELSE [available |-> TRUE, supporters |-> supported, anchors |-> {AnchorTo(ctx, v)}]
            BY <3>1, EvidenceServed
        <3>3. i \in supported
            BY <1>4
        <3> HIDE DEF supported
        <3> QED BY <3>2, <3>3
    <2> DEFINE Anchors(v) == GetEvidence(ctx, v).anchors
               To(v) == AnchorTo(ctx, v)
    <2>4. \A v \in g.assertions[i].evidence : Anchors(v) = {To(v)}
        BY <2>3
    <2> HIDE DEF Anchors, To
    <2>5. {To(v) : v \in g.assertions[i].evidence} = UNION {Anchors(v) : v \in g.assertions[i].evidence}
        BY <2>4
    <2>6. shown.anchors = {To(v) : v \in g.assertions[i].evidence} /\ shown.supporters = {i}
        BY <2>2 DEF To
    <2>7. shown.anchors = UNION {GetEvidence(ctx, v).anchors : v \in g.assertions[i].evidence}
        BY <2>5, <2>6 DEF Anchors
    <2> QED BY <2>6, <2>7, <1>4
<1> QED BY <1>3, <1>4

-----------------------------------------------------------------------------
(* Every history.                                                          *)

LEMMA AllServed ==
    ASSUME ChangeAssumption, ReadAssumption
    PROVE  Histories \subseteq ServedIn
<1> SUFFICES ASSUME NEW h \in Histories, NEW ctx \in ContextsOf(ContentOf(h))
             PROVE  EntitiesServed(ctx) /\ NeighborsServed(ctx) /\ HitsServed(ctx)
    BY DEF ServedIn, Contexts
<1>1. IsRevision(ContentOf(h), h)
    BY HistoryIs
<1> QED BY <1>1, EntitiesAreServed, NeighborsAreServed, HitsAreServed DEF IsRevision

LEMMA AllAnchored ==
    ASSUME ChangeAssumption, ReadAssumption
    PROVE  Histories \subseteq AnchoredIn
<1> SUFFICES ASSUME NEW h \in Histories
             PROVE  /\ AnchorsBoundIn(ContextsOf(ContentOf(h)))
                    /\ \A ctx \in ContextsOf(ContentOf(h)) : EvidenceShown(ctx)
    BY DEF AnchoredIn, Contexts
<1>1. IsRevision(ContentOf(h), h)
    BY HistoryIs
<1> QED BY <1>1, AnchorsAreBound, EvidenceIsShown DEF IsRevision

-----------------------------------------------------------------------------
(* What the items of a change account for.                                 *)

Renamed(change, a, b) ==
    /\ b.subject \in Becomes(change, a.subject)
    /\ DOMAIN b = DOMAIN a
    /\ \A field \in DOMAIN a \ {"subject", "value"} : b[field] = a[field]
    /\ b.value = a.value \/ \E e \in Target(a) : Target(b) \subseteq Becomes(change, e)

AccountedSoFar(p, g, change) ==
    /\ DOMAIN p.assertions \ Targeted(change) \subseteq DOMAIN g.assertions
    /\ DOMAIN g.assertions \subseteq DOMAIN p.assertions \cup Brought(change)
    /\ \A i \in (DOMAIN p.assertions \cap DOMAIN g.assertions) \ Brought(change) :
         Renamed(change, p.assertions[i], g.assertions[i])
    /\ \A e \in p.entities \ g.entities : \E d \in Merges(change) : e \in d.subjects /\ e # d.target
    /\ g.evidence = p.evidence

(* What an accepted item of a change may do.                               *)
Licensed(item, change) ==
    /\ item.kind \in {"retract", "supersede"} => item.target \in Targeted(change)
    /\ item.kind \in {"assertion", "supersede"} => item.id \in Brought(change)
    /\ item.kind = "identity" =>
         (item.decision.kind = "merge" => item.decision \in Merges(change))

LEMMA BecomesItself == ASSUME NEW change, NEW e PROVE e \in Becomes(change, e)
BY DEF Becomes

LEMMA BecomesMore ==
    ASSUME NEW change, NEW e, NEW f \in Becomes(change, e), NEW d \in Merges(change), f \in d.subjects
    PROVE  d.target \in Becomes(change, e)
<1> DEFINE reach == {e} \cup {c.target : c \in Merges(change)}
           Closed(s) == e \in s /\ \A c \in Merges(change) : c.subjects \cap s # {} => c.target \in s
<1>1. f \in reach /\ \A s \in SUBSET reach : Closed(s) => f \in s
    BY Zenon DEF Becomes
<1>2. d.target \in reach
    OBVIOUS
<1>3. ASSUME NEW s \in SUBSET reach, Closed(s) PROVE d.target \in s
    <2>1. f \in s
        BY <1>1, <1>3
    <2>2. d.subjects \cap s # {}
        BY <2>1
    <2> HIDE DEF reach
    <2> QED BY <2>2, <1>3
<1> HIDE DEF reach, Closed
<1>4. Becomes(change, e) = {x \in reach : \A s \in SUBSET reach : Closed(s) => x \in s}
    BY Zenon DEF Becomes, reach, Closed
<1> QED BY <1>2, <1>3, <1>4

LEMMA RenamedItself == ASSUME NEW change, NEW a PROVE Renamed(change, a, a)
BY BecomesItself DEF Renamed

LEMMA StartAccounted == ASSUME NEW p, NEW change PROVE AccountedSoFar(p, p, change)
BY RenamedItself DEF AccountedSoFar

LEMMA RedirectIs ==
    ASSUME NEW a, IsClaim(a), NEW gone, NEW target
    PROVE  LET b == Redirect(a, gone, target) IN
           /\ DOMAIN b = DOMAIN a
           /\ b.subject = IF a.subject \in gone THEN target ELSE a.subject
           /\ b.value = IF Target(a) \cap gone # {} THEN [kind |-> "entity", of |-> target]
                        ELSE a.value
           /\ \A field \in DOMAIN a \ {"subject", "value"} : b[field] = a[field]
<1> DEFINE value == IF Target(a) \cap gone # {} THEN [kind |-> "entity", of |-> target] ELSE a.value
           subject == IF a.subject \in gone THEN target ELSE a.subject
<1>1. Redirect(a, gone, target) = [a EXCEPT !.subject = subject, !.value = value]
    BY DEF Redirect
<1>2. "subject" \in DOMAIN a /\ "value" \in DOMAIN a
    BY DEF IsClaim
<1> HIDE DEF value, subject
<1>3. /\ DOMAIN Redirect(a, gone, target) = DOMAIN a
      /\ Redirect(a, gone, target).subject = subject
      /\ Redirect(a, gone, target).value = value
      /\ \A field \in DOMAIN a \ {"subject", "value"} : Redirect(a, gone, target)[field] = a[field]
    BY <1>1, <1>2
<1> QED BY <1>3 DEF value, subject

LEMMA RenamedByMerge ==
    ASSUME NEW change, NEW a, NEW b, IsClaim(b), Renamed(change, a, b), NEW d \in Merges(change)
    PROVE  Renamed(change, a, Redirect(b, d.subjects \ {d.target}, d.target))
<1> DEFINE gone == d.subjects \ {d.target}
           c == Redirect(b, gone, d.target)
<1>1. /\ DOMAIN c = DOMAIN b
      /\ c.subject = IF b.subject \in gone THEN d.target ELSE b.subject
      /\ c.value = IF Target(b) \cap gone # {} THEN [kind |-> "entity", of |-> d.target] ELSE b.value
      /\ \A field \in DOMAIN b \ {"subject", "value"} : c[field] = b[field]
    BY RedirectIs
<1> HIDE DEF c
<1>2. c.subject \in Becomes(change, a.subject)
    <2>1. b.subject \in Becomes(change, a.subject)
        BY DEF Renamed
    <2>2. CASE b.subject \in gone
        <3>1. c.subject = d.target /\ b.subject \in d.subjects
            BY <1>1, <2>2
        <3> QED BY <2>1, <3>1, BecomesMore
    <2> QED BY <1>1, <2>1, <2>2
<1>3. c.value = a.value \/ \E e \in Target(a) : Target(c) \subseteq Becomes(change, e)
    <2>1. b.value = a.value \/ \E e \in Target(a) : Target(b) \subseteq Becomes(change, e)
        BY DEF Renamed
    <2>2. CASE Target(b) \cap gone # {}
        <3>1. Target(c) = {d.target}
            BY <1>1, <2>2 DEF Target
        <3>2. b.value.kind = "entity" /\ Target(b) = {b.value.of} /\ b.value.of \in gone
            BY <2>2 DEF Target
        <3>3. b.value.of \in d.subjects
            BY <3>2
        <3>4. CASE b.value = a.value
            <4>1. b.value.of \in Target(a)
                BY <3>2, <3>4 DEF Target
            <4>2. d.target \in Becomes(change, b.value.of)
                BY <3>3, BecomesItself, BecomesMore
            <4> QED BY <3>1, <4>1, <4>2
        <3>5. CASE \E e \in Target(a) : Target(b) \subseteq Becomes(change, e)
            <4>1. PICK e \in Target(a) : Target(b) \subseteq Becomes(change, e)
                BY <3>5
            <4>2. b.value.of \in Becomes(change, e)
                BY <3>2, <4>1
            <4>3. d.target \in Becomes(change, e)
                BY <3>3, <4>2, BecomesMore
            <4> QED BY <3>1, <4>1, <4>3
        <3> QED BY <2>1, <3>4, <3>5
    <2>3. CASE Target(b) \cap gone = {}
        <3>1. c.value = b.value
            BY <1>1, <2>3
        <3>2. Target(c) = Target(b)
            BY <3>1 DEF Target
        <3> QED BY <2>1, <3>1, <3>2
    <2> QED BY <2>2, <2>3
<1>4. DOMAIN c = DOMAIN a /\ \A field \in DOMAIN a \ {"subject", "value"} : c[field] = a[field]
    BY <1>1 DEF Renamed
<1>5. Renamed(change, a, c)
    BY <1>2, <1>3, <1>4 DEF Renamed
<1> QED BY <1>5 DEF c

(* The assertions of a graph after a licensed put or removal.              *)
LEMMA AssertionsAccounted ==
    ASSUME NEW p, NEW g, NEW change, AccountedSoFar(p, g, change), NEW h,
           h.entities = g.entities, h.evidence = g.evidence,
           DOMAIN g.assertions \ Targeted(change) \subseteq DOMAIN h.assertions,
           DOMAIN h.assertions \subseteq DOMAIN g.assertions \cup Brought(change),
           \A i \in DOMAIN h.assertions \ Brought(change) : h.assertions[i] = g.assertions[i]
    PROVE  AccountedSoFar(p, h, change)
<1>1. DOMAIN p.assertions \ Targeted(change) \subseteq DOMAIN h.assertions
    BY DEF AccountedSoFar
<1>2. DOMAIN h.assertions \subseteq DOMAIN p.assertions \cup Brought(change)
    BY DEF AccountedSoFar
<1>3. ASSUME NEW i \in (DOMAIN p.assertions \cap DOMAIN h.assertions) \ Brought(change)
      PROVE  Renamed(change, p.assertions[i], h.assertions[i])
    BY DEF AccountedSoFar
<1>4. (\A e \in p.entities \ h.entities : \E d \in Merges(change) : e \in d.subjects /\ e # d.target)
      /\ h.evidence = p.evidence
    BY DEF AccountedSoFar
<1> QED BY <1>1, <1>2, <1>3, <1>4 DEF AccountedSoFar

LEMMA PutAccounted ==
    ASSUME NEW p, NEW g, IsContent(g), NEW change, AccountedSoFar(p, g, change),
           NEW id \in Brought(change), NEW x, NEW gone, gone \subseteq Targeted(change)
    PROVE  /\ AccountedSoFar(p, [g EXCEPT !.assertions = Put(@, id, x)], change)
           /\ AccountedSoFar(p, [g EXCEPT !.assertions = Put(Without(@, gone), id, x)], change)
<1>1. ASSUME NEW f PROVE LET h == [g EXCEPT !.assertions = f] IN
                         h.entities = g.entities /\ h.evidence = g.evidence /\ h.assertions = f
    BY DEF IsContent, IsGraph
<1>2. /\ DOMAIN Put(g.assertions, id, x) = DOMAIN g.assertions \cup {id}
      /\ \A i \in DOMAIN g.assertions \ {id} : Put(g.assertions, id, x)[i] = g.assertions[i]
    BY DEF Put
<1> DEFINE f == Put(Without(g.assertions, gone), id, x)
<1>3. /\ DOMAIN f = (DOMAIN g.assertions \ gone) \cup {id}
      /\ \A i \in (DOMAIN g.assertions \ gone) \ {id} : f[i] = g.assertions[i]
    BY DEF Put, Without
<1>4. AccountedSoFar(p, [g EXCEPT !.assertions = Put(g.assertions, id, x)], change)
    <2> DEFINE h == [g EXCEPT !.assertions = Put(g.assertions, id, x)]
    <2>1. h.entities = g.entities /\ h.evidence = g.evidence /\ h.assertions = Put(g.assertions, id, x)
        BY <1>1
    <2> HIDE DEF h
    <2>2. /\ DOMAIN g.assertions \ Targeted(change) \subseteq DOMAIN h.assertions
          /\ DOMAIN h.assertions \subseteq DOMAIN g.assertions \cup Brought(change)
          /\ \A i \in DOMAIN h.assertions \ Brought(change) : h.assertions[i] = g.assertions[i]
        BY <2>1, <1>2
    <2>3. AccountedSoFar(p, h, change)
        BY <2>1, <2>2, AssertionsAccounted
    <2> QED BY <2>3 DEF h
<1> HIDE DEF f
<1>5. AccountedSoFar(p, [g EXCEPT !.assertions = f], change)
    <2> DEFINE h == [g EXCEPT !.assertions = f]
    <2>1. h.entities = g.entities /\ h.evidence = g.evidence /\ h.assertions = f
        BY <1>1
    <2> HIDE DEF h
    <2>2. /\ DOMAIN g.assertions \ Targeted(change) \subseteq DOMAIN h.assertions
          /\ DOMAIN h.assertions \subseteq DOMAIN g.assertions \cup Brought(change)
          /\ \A i \in DOMAIN h.assertions \ Brought(change) : h.assertions[i] = g.assertions[i]
        BY <2>1, <1>3
    <2>3. AccountedSoFar(p, h, change)
        BY <2>1, <2>2, AssertionsAccounted
    <2> QED BY <2>3 DEF h
<1> QED BY <1>4, <1>5 DEF f

LEMMA WithoutAccounted ==
    ASSUME NEW p, NEW g, IsContent(g), NEW change, AccountedSoFar(p, g, change),
           NEW gone, gone \subseteq Targeted(change)
    PROVE  AccountedSoFar(p, [g EXCEPT !.assertions = Without(@, gone)], change)
<1> DEFINE h == [g EXCEPT !.assertions = Without(g.assertions, gone)]
<1>1. h.entities = g.entities /\ h.evidence = g.evidence
      /\ h.assertions = Without(g.assertions, gone)
    BY DEF IsContent, IsGraph
<1>2. DOMAIN Without(g.assertions, gone) = DOMAIN g.assertions \ gone
      /\ \A i \in DOMAIN g.assertions \ gone : Without(g.assertions, gone)[i] = g.assertions[i]
    BY DEF Without
<1> HIDE DEF h
<1>3. /\ DOMAIN g.assertions \ Targeted(change) \subseteq DOMAIN h.assertions
      /\ DOMAIN h.assertions \subseteq DOMAIN g.assertions \cup Brought(change)
      /\ \A i \in DOMAIN h.assertions \ Brought(change) : h.assertions[i] = g.assertions[i]
    BY <1>1, <1>2
<1>4. AccountedSoFar(p, h, change)
    BY <1>1, <1>3, AssertionsAccounted
<1> QED BY <1>4 DEF h

LEMMA AliasesAccounted ==
    ASSUME NEW p, NEW g, IsContent(g), NEW change, AccountedSoFar(p, g, change), NEW x
    PROVE  AccountedSoFar(p, [g EXCEPT !.aliases = x], change)
<1> DEFINE h == [g EXCEPT !.aliases = x]
<1>1. h.entities = g.entities /\ h.evidence = g.evidence /\ h.assertions = g.assertions
    BY DEF IsContent, IsGraph
<1> HIDE DEF h
<1>2. AccountedSoFar(p, h, change)
    BY <1>1 DEF AccountedSoFar
<1> QED BY <1>2 DEF h

LEMMA EntityAccounted ==
    ASSUME NEW p, NEW g, IsContent(g), NEW change, AccountedSoFar(p, g, change), NEW x
    PROVE  AccountedSoFar(p, [g EXCEPT !.entities = @ \cup x], change)
<1> DEFINE h == [g EXCEPT !.entities = g.entities \cup x]
<1>1. h.entities = g.entities \cup x /\ h.evidence = g.evidence /\ h.assertions = g.assertions
    BY DEF IsContent, IsGraph
<1> HIDE DEF h
<1>2. AccountedSoFar(p, h, change)
    BY <1>1 DEF AccountedSoFar
<1> QED BY <1>2 DEF h

LEMMA MergeAccounted ==
    ASSUME NEW p, NEW g, IsContent(g), NEW change, AccountedSoFar(p, g, change),
           NEW d \in Merges(change), Merge(g, d) # Failed
    PROVE  AccountedSoFar(p, Merge(g, d), change)
<1> DEFINE gone == d.subjects \ {d.target}
           after == [i \in DOMAIN g.assertions |-> Redirect(g.assertions[i], gone, d.target)]
           aliases == [i \in DOMAIN g.aliases |->
                         [g.aliases[i] EXCEPT !.entity = IF @ \in gone THEN d.target ELSE @]]
<1>1. Merge(g, d) = [entities |-> g.entities \ gone, assertions |-> after, aliases |-> aliases,
                     evidence |-> g.evidence]
    BY Zenon DEF Merge
<1>2. /\ Merge(g, d).entities = g.entities \ gone /\ Merge(g, d).evidence = g.evidence
      /\ Merge(g, d).assertions = after
    <2> HIDE DEF gone, after, aliases
    <2> QED BY <1>1
<1>3. DOMAIN after = DOMAIN g.assertions
    OBVIOUS
<1>4. ASSUME NEW i \in (DOMAIN p.assertions \cap DOMAIN g.assertions) \ Brought(change)
      PROVE  Renamed(change, p.assertions[i], after[i])
    <2>1. Renamed(change, p.assertions[i], g.assertions[i]) /\ IsClaim(g.assertions[i])
        BY DEF AccountedSoFar, IsContent
    <2>2. Renamed(change, p.assertions[i], Redirect(g.assertions[i], gone, d.target))
        BY <2>1, RenamedByMerge
    <2> QED BY <2>2
<1>5. ASSUME NEW e \in p.entities \ Merge(g, d).entities
      PROVE  \E c \in Merges(change) : e \in c.subjects /\ e # c.target
    <2>1. CASE e \in g.entities
        BY <1>2, <2>1
    <2>2. CASE e \notin g.entities
        BY <2>2 DEF AccountedSoFar
    <2> QED BY <2>1, <2>2
<1> HIDE DEF after
<1> QED BY <1>2, <1>3, <1>4, <1>5 DEF AccountedSoFar

LEMMA ApplyAccounted ==
    ASSUME NEW p, NEW g, IsContent(g), NEW change, AccountedSoFar(p, g, change),
           NEW item, Licensed(item, change), NEW space, Apply(g, item, space) # Failed
    PROVE  AccountedSoFar(p, Apply(g, item, space), change)
<1>1. CASE g # Failed /\ item.kind = "entity"
    BY <1>1, EntityAccounted DEF Apply, ProposeEntity
<1>2. CASE g # Failed /\ item.kind = "assertion"
    <2>1. Apply(g, item, space) = ProposeAssertion(g, item) /\ item.id \in Brought(change)
        BY <1>2 DEF Apply, Licensed
    <2>2. AccountedSoFar(p, [g EXCEPT !.assertions = Put(@, item.id, item.assertion)], change)
        <3>1. {} \subseteq Targeted(change)
            OBVIOUS
        <3> QED BY <2>1, <3>1, PutAccounted
    <2> QED BY <2>1, <2>2 DEF ProposeAssertion
<1>3. CASE g # Failed /\ item.kind = "retract"
    <2>1. Apply(g, item, space) = RetractAssertion(g, item) /\ {item.target} \subseteq Targeted(change)
        BY <1>3 DEF Apply, Licensed
    <2>2. AccountedSoFar(p, [g EXCEPT !.assertions = Without(@, {item.target})], change)
        BY <2>1, WithoutAccounted
    <2> QED BY <2>1, <2>2 DEF RetractAssertion
<1>4. CASE g # Failed /\ item.kind = "supersede"
    <2>1. Apply(g, item, space) = SupersedeAssertion(g, item) /\ {item.target} \subseteq Targeted(change)
          /\ item.id \in Brought(change)
        BY <1>4 DEF Apply, Licensed
    <2>2. AccountedSoFar(p, [g EXCEPT !.assertions =
                               Put(Without(@, {item.target}), item.id, item.assertion)], change)
        BY <2>1, PutAccounted
    <2> QED BY <2>1, <2>2 DEF SupersedeAssertion
<1>5. CASE g # Failed /\ item.kind = "identity"
    <2> DEFINE d == item.decision
    <2>1. Apply(g, item, space) = DecideIdentity(g, item, space)
        BY <1>5 DEF Apply
    <2>2. \/ DecideIdentity(g, item, space) \in {Failed, g, AddAlias(g, d), RemoveAlias(g, d)}
          \/ d.kind = "merge" /\ DecideIdentity(g, item, space) = Merge(g, d)
        BY DEF DecideIdentity
    <2>3. AddAlias(g, d) # Failed => AccountedSoFar(p, AddAlias(g, d), change)
        BY AliasesAccounted DEF AddAlias
    <2>4. RemoveAlias(g, d) # Failed => AccountedSoFar(p, RemoveAlias(g, d), change)
        BY AliasesAccounted DEF RemoveAlias
    <2>5. d.kind = "merge" => d \in Merges(change)
        BY <1>5 DEF Licensed
    <2>6. d.kind = "merge" /\ Merge(g, d) # Failed => AccountedSoFar(p, Merge(g, d), change)
        BY <2>5, MergeAccounted
    <2> HIDE DEF d
    <2> QED BY <2>1, <2>2, <2>3, <2>4, <2>6
<1>6. CASE g = Failed \/ item.kind \notin {"entity", "assertion", "retract", "supersede", "identity"}
    BY <1>6 DEF Apply
<1> QED BY <1>1, <1>2, <1>3, <1>4, <1>5, <1>6

LEMMA AppliedAccounted ==
    ASSUME NEW parent, IsContent(parent.graph), NEW c, Len(c.items) \in Nat,
           \A n \in 1..Len(c.items) : IsItem(c.items[n]), NEW dispositions, NEW change,
           \A n \in 1..Len(c.items) :
              c.items[n].item \in AcceptedItems(dispositions) => Licensed(c.items[n], change),
           Applied(parent, c, dispositions) # Failed
    PROVE  AccountedSoFar(parent.graph, Applied(parent, c, dispositions), change)
<1> DEFINE Good(g) == IsContent(g) /\ AccountedSoFar(parent.graph, g, change)
<1>0. PICK f : Applying(f, parent, c, dispositions)
    BY AppliedIs
<1>1. /\ Applied(parent, c, dispositions) = f[Len(c.items)]
      /\ f[0] = parent.graph
      /\ \A n \in 1..Len(c.items) :
           f[n] = IF c.items[n].item \in AcceptedItems(dispositions)
                  THEN Apply(f[n - 1], c.items[n], parent.space)
                  ELSE f[n - 1]
    BY <1>0, Zenon DEF Applying
<1> DEFINE Bad == {n \in 0..Len(c.items) : f[n] # Failed /\ ~Good(f[n])}
<1> SUFFICES ASSUME Bad # {} PROVE FALSE
    BY <1>1
<1>2. PICK n \in Bad : \A m \in Bad : n <= m
    <2>1. Bad \subseteq Nat
        OBVIOUS
    <2> HIDE DEF Bad
    <2> QED BY <2>1, LeastExists
<1>3. n \in 1..Len(c.items)
    <2>1. Good(f[0])
        BY <1>1, StartAccounted
    <2> HIDE DEF Good
    <2> QED BY <2>1
<1>4. n - 1 \notin Bad /\ n - 1 \in 0..Len(c.items)
    <2>1. ~(n <= n - 1) /\ n - 1 \in 0..Len(c.items)
        BY <1>3
    <2> HIDE DEF Bad
    <2> QED BY <2>1, <1>2
<1>5. f[n] # Failed /\ ~Good(f[n])
    OBVIOUS
<1>6. f[n] = IF c.items[n].item \in AcceptedItems(dispositions)
             THEN Apply(f[n - 1], c.items[n], parent.space) ELSE f[n - 1]
    BY <1>1, <1>3
<1>7. f[n - 1] # Failed
    <2>1. f[n - 1] = Failed => Apply(f[n - 1], c.items[n], parent.space) = Failed
        BY DEF Apply
    <2> QED BY <2>1, <1>5, <1>6
<1>8. Good(f[n - 1])
    <2> HIDE DEF Good
    <2> QED BY <1>4, <1>7
<1> HIDE DEF Bad
<1>9. CASE c.items[n].item \in AcceptedItems(dispositions)
    <2>1. Licensed(c.items[n], change) /\ IsItem(c.items[n])
        BY <1>3, <1>9
    <2>2. f[n] = Apply(f[n - 1], c.items[n], parent.space)
        BY <1>6, <1>9
    <2>3. IsContent(f[n]) /\ AccountedSoFar(parent.graph, f[n], change)
        BY <2>1, <2>2, <1>5, <1>8, ApplyKeeps, ApplyAccounted
    <2> QED BY <2>3, <1>5
<1>10. CASE c.items[n].item \notin AcceptedItems(dispositions)
    <2> HIDE DEF Good
    <2> QED BY <1>5, <1>6, <1>8, <1>10
<1> QED BY <1>9, <1>10

(* The accepted items of a change are licensed by it, in an ordinary       *)
(* contribution and in what a prospective one stands for.                  *)
LEMMA AcceptedAre ==
    ASSUME NEW change, NEW n \in DOMAIN change.contribution.items,
           change.contribution.items[n].item \in AcceptedItems(change.dispositions)
    PROVE  change.contribution.items[n] \in ItemsOf(change, "accepted")
BY DEF AcceptedItems, ItemsOf

LEMMA AcceptedAreLicensed ==
    ASSUME NEW change, NEW item \in ItemsOf(change, "accepted")
    PROVE  /\ Licensed(item, change)
           /\ item.kind = "create assertion" =>
                AllocatedId(change.contribution.space, change.pid, item.op, "assertion") \in Brought(change)
<1> DEFINE accepted == ItemsOf(change, "accepted")
<1>1. item.kind \in {"retract", "supersede"} => item.target \in Targeted(change)
    <2> HIDE DEF accepted
    <2> QED BY DEF Targeted
<1>2. item.kind \in {"assertion", "supersede"} => item.id \in Brought(change)
    BY DEF Brought
<1>3. item.kind = "identity" => (item.decision.kind = "merge" => item.decision \in Merges(change))
    BY DEF Merges
<1>4. item.kind = "create assertion" =>
        AllocatedId(change.contribution.space, change.pid, item.op, "assertion") \in Brought(change)
    BY DEF Brought
<1> QED BY <1>1, <1>2, <1>3, <1>4 DEF Licensed

LEMMA CanonicalIsLicensed ==
    ASSUME NEW change, NEW n \in DOMAIN change.contribution.items, NEW parent,
           IsContribution(change.contribution),
           LET c == change.contribution
               ordinary == Canonical(c.items[n], c, change.dispositions, change.pid, parent)
           IN ordinary # Failed /\ ordinary.item \in AcceptedItems(change.dispositions)
    PROVE  Licensed(Canonical(change.contribution.items[n], change.contribution,
                              change.dispositions, change.pid, parent), change)
<1> DEFINE c == change.contribution
           item == c.items[n]
           ordinary == Canonical(item, c, change.dispositions, change.pid, parent)
<1> SUFFICES Licensed(ordinary, change)
    OBVIOUS
<1>1. CASE item.kind = "create entity"
    <2>1. ordinary = CreatedEntity(item, c, change.dispositions, change.pid, parent)
        BY <1>1 DEF Canonical
    <2>2. ordinary = [item |-> item.item, kind |-> "entity",
                      entity |-> AllocatedTo(c, item, change.pid)]
        BY <2>1, Zenon DEF CreatedEntity
    <2>3. ordinary.kind = "entity"
        BY <2>2
    <2> HIDE DEF ordinary
    <2> QED BY <2>3 DEF Licensed
<1>2. CASE item.kind = "create assertion"
    <2> DEFINE id == AllocatedTo(c, item, change.pid)
               subject == Operand(item.subject, item.item, c, change.dispositions, change.pid, parent)
               of == IF item.value.kind = "entity"
                     THEN Operand(item.value.of, item.item, c, change.dispositions, change.pid, parent)
                     ELSE item.value.of
               claim == Joined(item.metadata,
                               [subject |-> subject, predicate |-> item.predicate,
                                value |-> [kind |-> item.value.kind, of |-> of]])
    <2>1. ordinary = CreatedAssertion(item, c, change.dispositions, change.pid, parent)
        BY <1>2 DEF Canonical
    <2>2. ordinary = [item |-> item.item, kind |-> "assertion", id |-> id, assertion |-> claim]
        BY <2>1, Zenon DEF CreatedAssertion
    <2>3. ordinary.kind = "assertion" /\ ordinary.id = id /\ ordinary.item = item.item
        <3> HIDE DEF id, claim
        <3> QED BY <2>2
    <2>4. item \in ItemsOf(change, "accepted")
        BY <2>3, AcceptedAre
    <2>5. id = AllocatedId(c.space, change.pid, item.op, "assertion")
        BY <1>2 DEF AllocatedTo, ResultKind
    <2>6. id \in Brought(change)
        BY <2>4, <2>5, <1>2, AcceptedAreLicensed
    <2> HIDE DEF ordinary, id
    <2> QED BY <2>3, <2>6 DEF Licensed
<1>3. CASE item.kind # "create entity" /\ item.kind # "create assertion"
    <2>1. ordinary = item
        BY <1>3 DEF Canonical, Ordinary
    <2>2. item \in ItemsOf(change, "accepted")
        BY <2>1, AcceptedAre
    <2> HIDE DEF ordinary
    <2> QED BY <2>1, <2>2, AcceptedAreLicensed
<1> QED BY <1>1, <1>2, <1>3

(* Whoever was entitled to an assertion still is when a revision gains     *)
(* only evidence, or a profile its assertions pass.                        *)
LEMMA StillReliable ==
    ASSUME NEW ctx, NEW after, after.view = ctx.view, after.request = ctx.request,
           after.revision.domain = ctx.revision.domain,
           NEW v \in DOMAIN ctx.revision.graph.evidence,
           v \in DOMAIN after.revision.graph.evidence,
           after.revision.graph.evidence[v] = ctx.revision.graph.evidence[v],
           Reliable(ctx, v)
    PROVE  Reliable(after, v)
BY DEF Reliable, Shows

LEMMA StillEntitled ==
    ASSUME NEW ctx, NEW after, after.view = ctx.view, after.request = ctx.request,
           after.policy = ctx.policy, after.revision.domain = ctx.revision.domain,
           after.revision.graph.assertions = ctx.revision.graph.assertions,
           \A v \in DOMAIN ctx.revision.graph.evidence :
              /\ v \in DOMAIN after.revision.graph.evidence
              /\ after.revision.graph.evidence[v] = ctx.revision.graph.evidence[v],
           NEW i \in Entitled(ctx),
           ProfilePasses(ctx.revision.graph.assertions[i], ctx.revision.profile) =>
              ProfilePasses(ctx.revision.graph.assertions[i], after.revision.profile)
    PROVE  i \in Entitled(after)
<1> DEFINE a == ctx.revision.graph.assertions[i]
<1>1. /\ i \in DOMAIN ctx.revision.graph.assertions
      /\ a.standing \in ctx.request.standing
      /\ IF a.scope = {} THEN ctx.request.unscoped
         ELSE \A b \in a.scope : b \in ctx.request.bindings \/ b[1] \in ctx.request.wildcards
      /\ Shows(ctx, a.visibility)
      /\ \A v \in a.evidence : Reliable(ctx, v)
      /\ ctx.policy.kind = "modes" => a.mode \in ctx.policy.of
      /\ ctx.policy.kind = "exclude" => i \notin ctx.policy.of
      /\ DomainPasses(a, ctx.revision.domain) /\ ProfilePasses(a, ctx.revision.profile)
    BY Zenon DEF Entitled
<1>2. Shows(after, a.visibility)
    BY <1>1 DEF Shows
<1>3. ASSUME NEW v \in a.evidence PROVE Reliable(after, v)
    <2>1. Reliable(ctx, v) /\ v \in DOMAIN ctx.revision.graph.evidence
        BY <1>1 DEF Reliable
    <2> QED BY <2>1, StillReliable
<1>4. after.revision.graph.assertions[i] = a
    OBVIOUS
<1> HIDE DEF a
<1> QED BY <1>1, <1>2, <1>3, <1>4 DEF Entitled

LEMMA EntitlingGrows ==
    ASSUME NEW parent, NEW child, child.space = parent.space, child.domain = parent.domain,
           child.graph.assertions = parent.graph.assertions,
           \A v \in DOMAIN parent.graph.evidence :
              v \in DOMAIN child.graph.evidence /\ child.graph.evidence[v] = parent.graph.evidence[v],
           \A i \in DOMAIN parent.graph.assertions :
              ProfilePasses(parent.graph.assertions[i], parent.profile) =>
                 ProfilePasses(parent.graph.assertions[i], child.profile)
    PROVE  Entitling(parent) \subseteq Entitling(child)
<1> DEFINE Latest(r) == {c \in ContextsOf(r) : c.request.revision = {}}
           Shown(ctx) == {[reader |-> <<ctx.request, ctx.policy, ctx.view.epoch>>, assertion |-> i] :
                            i \in Entitled(ctx)}
<1>1. ASSUME NEW ctx \in Latest(parent)
      PROVE  \E after \in Latest(child) : Shown(ctx) \subseteq Shown(after)
    <2> DEFINE after == [revision |-> child, request |-> ctx.request, policy |-> ctx.policy,
                         view |-> ctx.view]
    <2>1. /\ ctx \in ContextsOf(parent) /\ ctx.request.revision = {}
        OBVIOUS
    <2>2. /\ ctx.revision = parent /\ ctx.request \in Readers /\ ctx.policy \in Policies
          /\ ctx.view \in [artifacts : {Sources.artifacts}, revisions : {Sources.revisions},
                           epoch : Epochs]
          /\ Opens(ctx.request, ctx.policy, parent, parent.domain, parent.profile)
        BY <2>1 DEF ContextsOf
    <2>3. Opens(ctx.request, ctx.policy, child, child.domain, child.profile)
        BY <2>1, <2>2 DEF Opens, DescriptorsPinned
    <2>4. after.revision = child /\ after.request = ctx.request /\ after.policy = ctx.policy
          /\ after.view = ctx.view
        OBVIOUS
    <2>5. after \in [revision : {child}, request : Readers, policy : Policies,
                     view : [artifacts : {Sources.artifacts}, revisions : {Sources.revisions},
                             epoch : Epochs]]
        BY <2>2
    <2> HIDE DEF after
    <2>6. after \in Latest(child)
        BY <2>1, <2>3, <2>4, <2>5 DEF ContextsOf
    <2>7. ASSUME NEW i \in Entitled(ctx) PROVE i \in Entitled(after)
        <3>1. i \in DOMAIN parent.graph.assertions
            BY <2>2, EntitledAreAssertions
        <3> QED BY <2>2, <2>4, <3>1, StillEntitled
    <2>8. Shown(ctx) \subseteq Shown(after)
        BY <2>4, <2>7
    <2> QED BY <2>6, <2>8
<1>2. \A r : Entitling(r) = UNION {Shown(ctx) : ctx \in Latest(r)}
    BY DEF Entitling
<1> HIDE DEF Latest, Shown
<1> QED BY <1>1, <1>2

-----------------------------------------------------------------------------
(* Every change.                                                           *)

LEMMA ExtensionKeeps ==
    ASSUME NEW parent, IsContent(parent.graph), NEW child, NEW added,
           ExtendEvidence(parent, added, child.domain, child.profile) # Failed,
           child.graph = ExtendEvidence(parent, added, child.domain, child.profile),
           child.space = parent.space
    PROVE  /\ child.graph.assertions = parent.graph.assertions
           /\ child.graph.aliases = parent.graph.aliases
           /\ DOMAIN parent.graph.evidence \subseteq DOMAIN child.graph.evidence
           /\ Entitling(parent) \subseteq Entitling(child)
<1>1. /\ child.graph.assertions = parent.graph.assertions
      /\ child.graph.aliases = parent.graph.aliases
      /\ child.graph.evidence = Joined(added, parent.graph.evidence)
      /\ child.domain = parent.domain /\ child.profile = parent.profile
      /\ DOMAIN added \cap DOMAIN parent.graph.evidence = {}
    BY ExtendedIs DEF DescriptorsPinned
<1>2. \A v \in DOMAIN parent.graph.evidence :
        v \in DOMAIN child.graph.evidence /\ child.graph.evidence[v] = parent.graph.evidence[v]
    BY <1>1 DEF Joined
<1>3. Entitling(parent) \subseteq Entitling(child)
    BY <1>1, <1>2, EntitlingGrows
<1> QED BY <1>1, <1>2, <1>3

LEMMA TransitionKeeps ==
    ASSUME NEW parent, NEW child, NEW current,
           TransitionProfile(parent, child.domain, current, child.profile) # Failed,
           child.graph = TransitionProfile(parent, child.domain, current, child.profile),
           child.space = parent.space
    PROVE  child.graph = parent.graph /\ Entitling(parent) \subseteq Entitling(child)
<1>1. /\ child.graph = parent.graph /\ DescriptorsPinned(parent, child.domain, current)
      /\ Sound(parent.graph, child.domain, child.profile)
    BY DEF TransitionProfile
<1>2. child.domain = parent.domain
    BY <1>1 DEF DescriptorsPinned
<1>3. \A i \in DOMAIN parent.graph.assertions : ProfilePasses(parent.graph.assertions[i], child.profile)
    BY <1>1 DEF Sound, VocabularyPasses
<1>4. Entitling(parent) \subseteq Entitling(child)
    BY <1>1, <1>2, <1>3, EntitlingGrows
<1> QED BY <1>1, <1>4

LEMMA ContributionKeeps ==
    ASSUME ChangeAssumption, NEW o \in Ops, NEW parent, IsContent(parent.graph), parent.id # <<>>,
           Change[o].kind \in {"contribution", "prospective"}, GraphAfter(parent, Change[o]) # Failed
    PROVE  AccountedSoFar(parent.graph, GraphAfter(parent, Change[o]), Change[o])
<1> DEFINE change == Change[o]
           c == change.contribution
           publication == [parent |-> parent.id, operations |-> <<change.op>>]
           g == GraphAfter(parent, change)
<1> SUFFICES AccountedSoFar(parent.graph, g, change)
    OBVIOUS
<1>0. IsContribution(c) /\ g # Failed /\ change.kind \in {"contribution", "prospective"}
    BY DEF ChangeAssumption
<1>1. /\ Len(c.items) \in Nat
      /\ DOMAIN c.items = 1..Len(c.items)
      /\ \A n \in 1..Len(c.items) : IsItem(c.items[n])
    BY <1>0 DEF IsContribution, IsItem
<1>2. change.kind = "contribution" =>
        g = MaterializeGoverned(parent, c, change.dispositions, publication,
                                change.domain, change.profile)
    BY DEF GraphAfter
<1>3. change.kind = "prospective" =>
        g = MaterializeProspective(parent, c, change.dispositions, change.pid,
                                   publication, change.domain, change.profile)
    BY DEF GraphAfter
<1> HIDE DEF publication, g, change
<1>4. CASE change.kind = "contribution"
    <2>1. ASSUME NEW n \in 1..Len(c.items), c.items[n].item \in AcceptedItems(change.dispositions)
          PROVE  Licensed(c.items[n], change)
        BY <1>1, <2>1, AcceptedAre, AcceptedAreLicensed
    <2>2. MaterializeGoverned(parent, c, change.dispositions, publication,
                              change.domain, change.profile) # Failed
        BY <1>0, <1>2, <1>4
    <2> HIDE DEF c
    <2>3. g = Applied(parent, c, change.dispositions)
        BY <1>1, <1>2, <1>4, <2>2, MaterializedKeeps
    <2>4. AccountedSoFar(parent.graph, Applied(parent, c, change.dispositions), change)
        BY <1>0, <1>1, <2>1, <2>3, AppliedAccounted
    <2> QED BY <2>3, <2>4
<1>5. CASE change.kind = "prospective"
    <2> DEFINE ordinary == ResolveProspective(parent, c, change.dispositions, change.pid, publication)
    <2>1. MaterializeProspective(parent, c, change.dispositions, change.pid, publication,
                                 change.domain, change.profile) # Failed
        BY <1>0, <1>3, <1>5
    <2>2. ordinary # Failed
          /\ g = MaterializeGoverned(parent, ordinary, change.dispositions, publication,
                                     change.domain, change.profile)
        BY <1>3, <1>5, <2>1, ProspectiveIs
    <2>3. /\ Len(ordinary.items) = Len(c.items)
          /\ \A n \in 1..Len(c.items) :
               /\ ordinary.items[n] = Canonical(c.items[n], c, change.dispositions, change.pid, parent)
               /\ ordinary.items[n] # Failed
               /\ IsItem(ordinary.items[n])
        BY <1>0, <1>1, <2>2, CanonicalItems
    <2> HIDE DEF ordinary
    <2>4. ASSUME NEW n \in 1..Len(c.items),
                 ordinary.items[n].item \in AcceptedItems(change.dispositions)
          PROVE  Licensed(ordinary.items[n], change)
        <3>1. n \in DOMAIN change.contribution.items
            BY <1>1
        <3>2. /\ ordinary.items[n] = Canonical(c.items[n], c, change.dispositions, change.pid, parent)
              /\ ordinary.items[n] # Failed
            BY <2>3
        <3>3. Licensed(Canonical(change.contribution.items[n], change.contribution,
                                 change.dispositions, change.pid, parent), change)
            <4>1. /\ Canonical(c.items[n], c, change.dispositions, change.pid, parent) # Failed
                  /\ Canonical(c.items[n], c, change.dispositions, change.pid, parent).item
                       \in AcceptedItems(change.dispositions)
                BY <2>4, <3>2
            <4> QED BY <1>0, <3>1, <4>1, CanonicalIsLicensed
        <3> QED BY <3>2, <3>3
    <2>5. MaterializeGoverned(parent, ordinary, change.dispositions, publication,
                              change.domain, change.profile) # Failed
        BY <1>0, <2>2
    <2> HIDE DEF c
    <2>6. g = Applied(parent, ordinary, change.dispositions)
        BY <1>1, <2>2, <2>3, <2>5, MaterializedKeeps
    <2>7. AccountedSoFar(parent.graph, Applied(parent, ordinary, change.dispositions), change)
        BY <1>0, <1>1, <2>3, <2>4, <2>6, AppliedAccounted
    <2> QED BY <2>6, <2>7
<1> QED BY <1>0, <1>4, <1>5

(* What ChangesAccountedFor says of a revision and its child.              *)
KeptBy(parent, child, change) ==
    /\ Accounted(parent, child, change)
    /\ DOMAIN parent.graph.evidence \subseteq DOMAIN child.graph.evidence
    /\ change.kind \in {"extend", "transition"} => Entitling(parent) \subseteq Entitling(child)

LEMMA ChildKeeps ==
    ASSUME ChangeAssumption, NEW o \in Ops, NEW parent, IsContent(parent.graph), parent.id # <<>>,
           NEW child, NEW change, change = Change[o],
           child.graph = GraphAfter(parent, change), child.graph # Failed,
           child.space = parent.space, child.domain = change.domain, child.profile = change.profile
    PROVE  KeptBy(parent, child, change)
<1>1. CASE change.kind = "extend"
    <2>1. child.graph = ExtendEvidence(parent, change.evidence, child.domain, child.profile)
        BY <1>1 DEF GraphAfter
    <2>2. ExtendEvidence(parent, change.evidence, child.domain, child.profile) # Failed
        BY <2>1
    <2>3. /\ child.graph.assertions = parent.graph.assertions
          /\ child.graph.aliases = parent.graph.aliases
          /\ DOMAIN parent.graph.evidence \subseteq DOMAIN child.graph.evidence
          /\ Entitling(parent) \subseteq Entitling(child)
        BY <2>1, <2>2, ExtensionKeeps
    <2>4. Accounted(parent, child, change)
        BY <2>3, <1>1 DEF Accounted
    <2> QED BY <2>3, <2>4 DEF KeptBy
<1>2. CASE change.kind = "transition"
    <2>1. child.graph = TransitionProfile(parent, child.domain, change.from, child.profile)
        BY <1>2 DEF GraphAfter
    <2>2. TransitionProfile(parent, child.domain, change.from, child.profile) # Failed
        BY <2>1
    <2>3. child.graph = parent.graph /\ Entitling(parent) \subseteq Entitling(child)
        BY <2>1, <2>2, TransitionKeeps
    <2>4. Accounted(parent, child, change)
        BY <2>3, <1>2 DEF Accounted
    <2> QED BY <2>3, <2>4 DEF KeptBy
<1>3. CASE change.kind \in {"contribution", "prospective"}
    <2>1. AccountedSoFar(parent.graph, child.graph, change)
        BY <1>3, ContributionKeeps
    <2>2. Accounted(parent, child, change)
        BY <2>1, <1>3 DEF AccountedSoFar, Accounted, Renamed
    <2>3. DOMAIN parent.graph.evidence \subseteq DOMAIN child.graph.evidence
        BY <2>1 DEF AccountedSoFar
    <2> QED BY <2>2, <2>3, <1>3 DEF KeptBy
<1>4. change.kind \in {"extend", "transition", "contribution", "prospective"}
    BY DEF GraphAfter
<1> QED BY <1>1, <1>2, <1>3, <1>4

LEMMA HistoryIsLonger ==
    ASSUME NEW h \in Seq(Ops), Len(h) > 1
    PROVE  \E past \in Seq(Ops), o \in Ops : past # <<>> /\ h = Append(past, o)
<1>1. PICK n \in Nat : n > 0 /\ Len(h) = n + 1
    <2>1. Len(h) \in Nat
        OBVIOUS
    <2> QED BY <2>1
<1> DEFINE past == SubSeq(h, 1, n)
           o == h[n + 1]
<1>2. past \in Seq(Ops) /\ Len(past) = n /\ o \in Ops /\ \A i \in 1..n : past[i] = h[i]
    BY <1>1
<1>3. past # <<>>
    <2>1. Len(<<>>) = 0
        OBVIOUS
    <2> HIDE DEF past
    <2> QED BY <1>1, <1>2, <2>1
<1>4. h = Append(past, o)
    BY <1>1, <1>2
<1> QED BY <1>2, <1>3, <1>4

LEMMA AllAccounted ==
    ASSUME ChangeAssumption
    PROVE  Histories \subseteq AccountedIn
<1>1. ASSUME NEW h \in Histories, Len(h) > 1
      PROVE  KeptBy(ContentOf(Front(h)), ContentOf(Append(Front(h), Last(h))), Change[Last(h)])
    <2>1. h \in Seq(Ops)
        BY HistoryIs
    <2>2. PICK past \in Seq(Ops), o \in Ops : past # <<>> /\ h = Append(past, o)
        BY <1>1, <2>1, HistoryIsLonger
    <2>3. Front(h) = past /\ Last(h) = o
        BY <2>2, FrontAndLast
    <2> DEFINE parent == ContentOf(past)
               child == ContentOf(h)
               change == Change[o]
    <2>4. past \in Histories /\ ChildOf(parent, Change[o]) # Failed /\ child = ChildOf(parent, Change[o])
        BY <2>2, HistoryContinues
    <2>5. IsRevision(parent, past)
        BY <2>4, HistoryIs
    <2> HIDE DEF parent, child
    <2>6. parent.id = past /\ IsContent(parent.graph)
        BY <2>5 DEF IsRevision
    <2>7. /\ child.graph = GraphAfter(parent, Change[o]) /\ child.graph # Failed
          /\ child.space = parent.space /\ child.domain = Change[o].domain
          /\ child.profile = Change[o].profile
        BY <2>2, <2>4, <2>5, <2>6, ChildIsRevision
    <2>8. KeptBy(parent, child, change)
        <3>1. change = Change[o]
            OBVIOUS
        <3> HIDE DEF change
        <3> QED BY <3>1, <2>2, <2>6, <2>7, ChildKeeps
    <2> QED BY <2>2, <2>3, <2>8 DEF parent, child
<1> QED BY <1>1, Zenon DEF AccountedIn, KeptBy

-----------------------------------------------------------------------------
(* The states: what is stored and what is asked for was materialized.      *)

Materialized == \A s \in Spaces : revisions[s] \subseteq Histories

(* No call is open unless calls may be made.                               *)
Counted == calls \in Nat /\ \A c \in Clients : pc[c] # "idle" => MaxCalls > 0

LEMMA CountedAlways == Spec => []Counted
<1>1. Init => Counted
    BY DEF Init, Counted
<1>2. IInv /\ Counted /\ [Next]_vars => Counted'
    <2> SUFFICES ASSUME IInv, Counted, [Next]_vars PROVE Counted'
        OBVIOUS
    <2>0. MaxCalls \in Nat
        BY SpacesAssumption
    <2>1. CASE UNCHANGED vars
        BY <2>1 DEF vars, Counted
    <2>2. ASSUME NEW c \in Clients, ClientStep(c) PROVE Counted'
        <3>1. CASE \E m, stage : Begin(c, m, stage)
            BY <2>0, <3>1 DEF Begin, Counted
        <3>2. ASSUME ~\E m, stage : Begin(c, m, stage) PROVE calls' = calls /\ pc[c] # "idle"
            <4>1. ~CallPublish(c) /\ ~CallProvision(c)
                BY <3>2 DEF CallPublish, CallProvision
            <4> QED BY <2>2, <4>1 DEF ClientStep, Step, Lock, LockSpace, LockAllocation, MintSpace,
                    Replay, IdempotencyConflict, StaleParent, Write, CommitAnswered, ProbeFound,
                    ProbeMismatch, ProbeFailed, ProvisionReplay, ProvisionConflict, MintCollision,
                    CommitLost, Abort, OutcomeUnknown, Answer
        <3>3. CASE ~\E m, stage : Begin(c, m, stage)
            <4>1. calls' = calls /\ MaxCalls > 0
                BY <3>2, <3>3 DEF Counted
            <4> QED BY <4>1 DEF Counted
        <3> QED BY <3>1, <3>3
    <2> QED BY <2>1, <2>2 DEF Next, ClientStep
<1> QED BY <1>1, <1>2, IInvAlways, PTL DEF Spec

(* A genesis is a history by itself.                                       *)
LEMMA GenesisIsHistory ==
    ASSUME NEW o \in Ops, ChildOf(NoRevision, Change[o]) # Failed, MaxCalls > 0
    PROVE  Append(<<>>, o) \in Histories
<1> DEFINE h == Append(<<>>, o)
<1>1. /\ MaxCalls \in Nat /\ 1 \in 1..MaxCalls
    BY SpacesAssumption
<1>2. Contents[0] = [past \in {<<>>} |-> NoRevision] /\ Contents[1] = NextContents(Contents[0])
    <2>1. Contents[1] = NextContents(Contents[1 - 1])
        BY <1>1, ContentsAt
    <2>2. 1 - 1 = 0
        OBVIOUS
    <2> QED BY <2>1, <2>2, ContentsAt
<1>3. Front(h) = <<>> /\ Last(h) = o
    <2>1. <<>> \in Seq(Ops)
        OBVIOUS
    <2> QED BY <2>1, FrontAndLast
<1> HIDE DEF h
<1>4. DOMAIN Contents[0] = {<<>>} /\ Contents[0][<<>>] = NoRevision
    BY <1>2
<1>5. h \in {Append(past, op) : past \in {<<>>}, op \in Ops}
    BY DEF h
<1>6. h \in UNION {{Append(past, op) : op \in Ops} : past \in DOMAIN Contents[0]}
    BY <1>4 DEF h
<1>7. ChildOf(Contents[0][Front(h)], Change[Last(h)]) # Failed
    BY <1>3, <1>4
<1>8. h \in Longer(Contents[0])
    BY <1>6, <1>7, Zenon DEF Longer
<1>9. h \in DOMAIN Contents[1]
    BY <1>2, <1>8 DEF NextContents
<1> QED BY <1>1, <1>9 DEF Histories, h

(* What a client publishes over a history makes a longer one.              *)
LEMMA MadeIsHistory ==
    ASSUME NEW h \in {<<>>} \cup Histories, NEW o \in Ops, MadeOf(h, o), MaxCalls > 0
    PROVE  Append(h, o) \in Histories
<1>1. CASE Sealed(h, o)
    BY <1>1, ChangeAssumption DEF Materializes
<1>2. CASE h = <<>> /\ \E q \in Provisions : q.op = o
    <2>1. ChildOf(NoRevision, Change[o]) # Failed
        BY <1>2, ChangeAssumption
    <2> QED BY <1>2, <2>1, GenesisIsHistory
<1> QED BY <1>1, <1>2 DEF MadeOf

(* Whatever is stored came about by changes each of which could be         *)
(* materialized over the revision it continues: genesis by initialization  *)
(* or migration, then contributions, evidence and profiles.                *)
THEOREM RevisionsWereMaterialized == Spec => []Materialized
<1>1. Init => Materialized
    BY DEF Init, Materialized
<1>2. IInv /\ CallsMade /\ Counted /\ Materialized /\ [Next]_vars => Materialized'
    <2> SUFFICES ASSUME IInv, CallsMade, Counted, Materialized, [Next]_vars PROVE Materialized'
        OBVIOUS
    <2>1. CASE UNCHANGED tables
        BY <2>1 DEF tables, Materialized
    <2>2. ASSUME NEW c \in Clients, Commits(c) PROVE Materialized'
        <3>1. PICK m : m = call[c]
            OBVIOUS
        <3>2. pc[c] # "idle" /\ m.space \in Spaces /\ m.op \in Ops /\ MadeOf(m.parent, m.op)
            BY <2>2, <3>1 DEF Commits, CallsMade, IInv, WellTyped, WellAsked, Asked
        <3>3. m.parent \in {<<>>} \cup Histories
            BY <3>1, <3>2 DEF IInv, KnownParents, Materialized
        <3>4. RevisionOf(m) \in Histories
            BY <3>2, <3>3, MadeIsHistory DEF Counted, RevisionOf
        <3>5. revisions' = [revisions EXCEPT ![m.space] = @ \cup {RevisionOf(m)}]
            BY <2>2, <3>1 DEF Commits, Commit, Publish
        <3> QED BY <3>2, <3>4, <3>5 DEF Materialized, IInv, WellTyped
    <2>3. CASE UNCHANGED vars
        BY <2>1, <2>3 DEF vars, tables
    <2> QED BY <2>1, <2>2, <2>3, StepCommitsOrNot DEF Next, ClientStep
<1> QED BY <1>1, <1>2, IInvAlways, CallsMadeAlways, CountedAlways, PTL DEF Spec

(* Every stored revision holds a well formed graph of finitely many        *)
(* assertions, under the id it is stored under.                            *)
THEOREM StoredRevisionsAreWellFormed ==
    Spec => [](\A s \in Spaces : \A h \in revisions[s] : IsRevision(ContentOf(h), h))
<1>1. Materialized => \A s \in Spaces : \A h \in revisions[s] : IsRevision(ContentOf(h), h)
    BY ChangeAssumption, HistoryIs DEF Materialized
<1> QED BY <1>1, RevisionsWereMaterialized, PTL

(* Reads of a native revision.  Whatever sequence of publications made a   *)
(* revision, and at whatever epoch a reader pinned its sources, entity     *)
(* reads, listings, neighborhoods and searches answer from exactly the     *)
(* assertions the reader is entitled to, and a neighbor's depth is the     *)
(* shortest way to it.                                                     *)
THEOREM ReadsAlwaysServeTheEntitled == Spec => []ReadsServeTheEntitled
<1>1. Materialized => ReadsServeTheEntitled
    BY ReadAssumption, ChangeAssumption, AllServed DEF Materialized, ReadsServeTheEntitled
<1> QED BY <1>1, RevisionsWereMaterialized, PTL

(* Evidence is shown only through an assertion the reader is entitled to,  *)
(* an anchor resolves only for the same request and while its source is    *)
(* what it was when it was issued, and a text opens exactly when the       *)
(* catalogue of texts lists it.                                            *)
THEOREM AnchorsAlwaysHold == Spec => []AnchorsHold
<1>1. Materialized => AnchorsHold
    BY ReadAssumption, ChangeAssumption, AllAnchored DEF Materialized, AnchorsHold
<1> QED BY <1>1, RevisionsWereMaterialized, PTL

(* From a stored revision to its child every claim is kept, its ends only  *)
(* renamed by accepted merges, unless an accepted item takes it away;      *)
(* every new claim was brought by one; no evidence is lost; and evidence   *)
(* extensions and profile transitions leave claims alone and hide none     *)
(* from any reader.                                                        *)
THEOREM ChangesAreAlwaysAccountedFor == Spec => []ChangesAccountedFor
<1>1. Materialized => ChangesAccountedFor
    BY ChangeAssumption, AllAccounted DEF Materialized, ChangesAccountedFor
<1> QED BY <1>1, RevisionsWereMaterialized, PTL
=============================================================================
